------------------------------ MODULE MCBanks ------------------------------
(* A small instance of the banks for TLC.                                   *)
EXTENDS Banks, TLC

CONSTANTS main, topic, m1, t1, t2, u1, a, b, c, p, x, y, bad, driver, node, k1, k2, k3

\* One lap of the trunk, then two overlapping laps of a branch; u1 belongs to
\* the second of them.
TheLine  == (m1 :> main) @@ (t1 :> topic) @@ (u1 :> topic) @@ (t2 :> topic)
TheTrunk == (main :> None) @@ (topic :> main)
TheAfter == (m1 :> {}) @@ (t1 :> {m1}) @@ (u1 :> {m1}) @@ (t2 :> {m1})

\* Blobs: all jobs but u1 own the one range there is; to u1 it is another's, and
\* its disk still has a blob that is banked.
TheRange == (a :> 0) @@ (b :> 0) @@ (c :> 0)
TheShard == (m1 :> 0) @@ (t1 :> 0) @@ (u1 :> None) @@ (t2 :> 0)
TheDisk  == (m1 :> {}) @@ (t1 :> {}) @@ (u1 :> {a}) @@ (t2 :> {})
TheMakes == (m1 :> {a}) @@ (t1 :> {b}) @@ (u1 :> {c}) @@ (t2 :> {})

\* Rows: u1 is a node that reads its own rows, the others drivers that read all;
\* what it banks before t2 starts lies over what t1 banked.
TheRole   == (m1 :> driver) @@ (t1 :> driver) @@ (u1 :> node) @@ (t2 :> driver)
TheRun    == (m1 :> 1) @@ (t1 :> 2) @@ (u1 :> 3) @@ (t2 :> 3)
TheRank   == (driver :> 0) @@ (node :> 1)
TheMode   == (m1 :> TRUE) @@ (t1 :> TRUE) @@ (u1 :> FALSE) @@ (t2 :> TRUE)
TheWrites == (m1 :> {<<p, x>>}) @@ (t1 :> {<<p, y>>, <<p, bad>>})
             @@ (u1 :> {<<p, x>>}) @@ (t2 :> {<<p, x>>, <<p, y>>})

\* Graphs: only drivers have one.
TheLearns == (m1 :> {k1}) @@ (t1 :> {k1, k2}) @@ (t2 :> {k1, k2, k3})
=============================================================================
