---------------------------- MODULE MCExecution ----------------------------
(* Small instances of an action's execution and of the canonical cache in   *)
(* front of it.  What the cache takes for a result is one step of its own   *)
(* and the directories another machine's, so one run takes both: whichever  *)
(* moves first is the one that moves.                                       *)
EXTENDS Execution, Canonical, TLC

CONSTANTS t1, t2, t3, p1, p2, box, crate, src, out,
          x1, x2, q, u, v, y, z, la, lb

\* Two calls for one crate and one that has a directory of its own, on a machine
\* with two processes.
TheBox    == (p1 :> box) @@ (p2 :> box)
TheCrate  == (t1 :> crate) @@ (t2 :> crate) @@ (t3 :> Nil)
TheInputs == (t1 :> {src}) @@ (t2 :> {src}) @@ (t3 :> {src})
TheOuts   == (t1 :> {out}) @@ (t2 :> {out}) @@ (t3 :> {out})

Tok(word, label) == [word |-> word, label |-> label, at |-> FALSE]
Ref(word, label) == [word |-> word, label |-> label, at |-> TRUE]

\* x1 and x2 are twins under labels la and lb: the command names an argsfile,
\* that another, and that a third, which is beyond the two levels.  The others
\* differ from x2: y in a flag in the second argsfile, z in one in the third,
\* which counts as a source, v in the platform, u in what it declares as an
\* output, and q has two outputs of one normal form.
Actors == {x1, x2, q, u, v, y, z}
Label  == [a \in Actors |-> IF a = x1 THEN la ELSE lb]
Rlib(a)  == Tok("rlib", Label[a])
Rmeta(a) == Tok(IF a = q THEN "rlib" ELSE "rmeta", la)
Either(a, b, yes, no) == <<Tok(IF a = b THEN yes ELSE no, Plain)>>
TheArgs     == [a \in Actors |-> <<Ref("args", Label[a])>> \o
                                  (IF a = u THEN <<Rlib(a)>> ELSE <<>>)]
TheEnvs     == [a \in Actors |-> <<>>]
TheDeclared == [a \in Actors |-> (IF a = u THEN <<>> ELSE <<Rlib(a)>>) \o <<Rmeta(a)>>]
TheTree     == [a \in Actors |->
  (Tok("args", Label[a]) :> <<Tok("metadata", Label[a]), Ref("more", Label[a])>>) @@
  (Tok("more", Label[a]) :> Either(a, y, "opt", "debug") \o <<Ref("deep", Plain)>>) @@
  (Tok("deep", Plain)    :> Either(a, z, "lto", "thin"))]
ThePlatform == [a \in Actors |-> IF a = v THEN "windows" ELSE "linux"]

Alike == Permutations(Requests)

\* Bounds.  Calls with a key and calls without share nothing, so a behaviour has
\* either; and the cache moves on the machine where nothing was left.
OneKind == \A s, w \in Tasks : Crate[s] # Crate[w] => "new" \in {stage'[s], stage'[w]}
CallsIdle    == /\ \A t \in Tasks : stage[t] = "new"
                /\ \A bk \in Paths : place[bk] = Nil /\ bin[bk] = {}
RequestsIdle == \A r \in Requests : step[r] = "new"

ExecutionNext ==
  \/ RequestsIdle /\ ExecNext /\ OneKind /\ UNCHANGED canonVars
  \/ CallsIdle /\ CanonNext /\ UNCHANGED execVars

ExecutionInit == ExecInit /\ CanonInit
ExecutionSpec == ExecutionInit /\ [][ExecutionNext]_<<execVars, canonVars>>
=============================================================================
