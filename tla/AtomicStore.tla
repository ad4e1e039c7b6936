---------------------------- MODULE AtomicStore ----------------------------
(***************************************************************************)
(* What Store promises whoever uses it, without saying how: a blob is      *)
(* there or not and never goes, and nobody is told that it is there before *)
(* it is; a row holds what was last put, at once and in full, and a crash  *)
(* loses the puts that are under way and nothing else.  Two things it does *)
(* not promise: that a soft blob, which a bank brought writable, stays as  *)
(* it is; and what a row holds that is put twice at the same time.         *)
(***************************************************************************)
CONSTANTS Writers, Results, None

VARIABLES
  blob,     \* what a reader of the blob gets: the blob, something else, or None
  result,   \* what a reader of the row gets: a result, or None
  putting,  \* putting[w]: the result that w is putting, or None
  told,     \* somebody was told that the blob is there
  soft,     \* a bank brought the blob, and whoever has a link may write to it
  mixed     \* the writers whose put overlaps another one

vars == <<blob, result, putting, told, soft, mixed>>

Init ==
  /\ blob \in {None, "blob"}
  /\ soft \in BOOLEAN /\ (soft => blob = "blob")
  /\ result = None
  /\ putting = [w \in Writers |-> None] /\ mixed = {}
  /\ told = FALSE

StoreBlob ==
  /\ blob' = IF blob = None THEN "blob" ELSE blob
  /\ told' \in {told, TRUE}
  /\ UNCHANGED <<result, putting, soft, mixed>>

Spoil ==
  /\ soft /\ blob' = "other"
  /\ UNCHANGED <<result, putting, told, soft, mixed>>

BeginPut(w) ==
  /\ putting[w] = None
  /\ \E r \in Results : putting' = [putting EXCEPT ![w] = r]
  /\ LET others == {v \in Writers : putting[v] # None}
     IN  mixed' = IF others = {} THEN mixed ELSE mixed \cup others \cup {w}
  /\ UNCHANGED <<blob, result, told, soft>>

\* A whole result, another one, or a part of it.
Garbled == result' \in Results \cup {"part", "other"}

PutResult(w) ==
  /\ putting[w] # None
  /\ \/ w \notin mixed /\ result' = putting[w]
     \/ w \in mixed /\ (Garbled \/ UNCHANGED result)
  /\ putting' = [putting EXCEPT ![w] = None]
  /\ mixed' = mixed \ {w}
  /\ UNCHANGED <<blob, told, soft>>

\* A put that overlaps another writes to the row that the other one has put.
Garble(w) ==
  /\ w \in mixed /\ Garbled
  /\ UNCHANGED <<blob, putting, told, soft, mixed>>

DeleteResult == result' = None /\ UNCHANGED <<blob, putting, told, soft, mixed>>

Crash ==
  /\ putting' = [w \in Writers |-> None] /\ mixed' = {}
  /\ UNCHANGED <<blob, result, told, soft>>

Next ==
  \/ StoreBlob \/ Spoil \/ DeleteResult \/ Crash
  \/ \E w \in Writers : BeginPut(w) \/ PutResult(w) \/ Garble(w)

Spec == Init /\ [][Next]_vars
=============================================================================
