----------------------------- MODULE WorkQueue -----------------------------
(***************************************************************************)
(* What Driver::execute promises its callers, without saying how: an       *)
(* action submitted once is handed out over and over until one of the      *)
(* parties it was handed to answers, or until it has been handed out       *)
(* MaxAttempts times without an answer; it is answered at most once, and   *)
(* an answer never changes.  Actions that must not run on two machines     *)
(* (affinity) have at most one connected holder, and share it with their   *)
(* group.                                                                  *)
(***************************************************************************)
EXTENDS Naturals

CONSTANTS Jobs, Holders, None, MaxAttempts,
          Group   \* Group[j]: the affinity of j, or None

VARIABLES
  answer,   \* answer[j]: "none" before the answer
  open,     \* the actions submitted and not yet answered
  tries,    \* how often an action has been handed out
  holder,   \* who is expected to answer, or None
  present   \* the holders that can be given work

vars == <<answer, open, tries, holder, present>>

Init ==
  /\ answer = [j \in Jobs |-> None] /\ holder = [j \in Jobs |-> None]
  /\ tries = [j \in Jobs |-> 0]
  /\ open = {}
  /\ present = {}

Submit(j) ==
  /\ j \notin open /\ answer[j] = None /\ tries[j] = 0
  /\ open' = open \cup {j}
  /\ UNCHANGED <<answer, tries, holder, present>>

\* No other connected holder has a member of the group.
Exclusive(j, h) ==
  Group[j] # None =>
    \A i \in open : Group[i] = Group[j] => holder[i] \notin present \ {h}

HandOut(j, h) ==
  /\ j \in open /\ holder[j] = None /\ h \in present /\ Exclusive(j, h)
  /\ tries[j] < MaxAttempts
  /\ tries' = [tries EXCEPT ![j] = @ + 1]
  /\ holder' = [holder EXCEPT ![j] = h]
  /\ UNCHANGED <<answer, open, present>>

\* Handed to nobody that could answer, or run by the driver itself.
Attempt(js) ==
  /\ js \subseteq open
  /\ \A j \in js : holder[j] = None
  /\ tries' = [j \in Jobs |-> tries[j] + IF j \in js THEN 1 ELSE 0]
  /\ UNCHANGED <<answer, open, holder, present>>

\* The holders that left lose what they hold.
TakeBack(js) ==
  /\ \A j \in js : holder[j] \notin present
  /\ holder' = [j \in Jobs |-> IF j \in js THEN None ELSE holder[j]]
  /\ UNCHANGED <<answer, open, tries, present>>

Answer(j, a) ==
  /\ j \in open
  /\ IF a = "gaveup" THEN tries[j] >= MaxAttempts ELSE tries[j] > 0
  /\ answer' = [answer EXCEPT ![j] = a]
  /\ open' = open \ {j}
  /\ holder' = [holder EXCEPT ![j] = None]
  /\ UNCHANGED <<tries, present>>

Come(h) == /\ h \notin present
           /\ \A j \in Jobs : holder[j] # h
           /\ present' = present \cup {h}
           /\ UNCHANGED <<answer, open, tries, holder>>
Leave(h) == /\ h \in present
            /\ present' = present \ {h}
            /\ UNCHANGED <<answer, open, tries, holder>>

Next ==
  \/ \E j \in Jobs : \/ Submit(j)
                     \/ \E h \in Holders : HandOut(j, h)
                     \/ \E a \in {"ok", "failed", "gaveup"} : Answer(j, a)
  \/ \E js \in SUBSET Jobs : Attempt(js) \/ TakeBack(js)
  \/ \E h \in Holders : Come(h) \/ Leave(h)

Spec == Init /\ [][Next]_vars
=============================================================================
