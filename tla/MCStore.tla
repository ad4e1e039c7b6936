------------------------------ MODULE MCStore ------------------------------
(* A small instance of Store for TLC.  Of the tasks two at a time are at   *)
(* work (MaxBusy): two with the blob, two with the row, or one with each.  *)
EXTENDS Store, TLC, FiniteSets

CONSTANT MaxBusy

BusyNext ==
  /\ Next
  /\ Cardinality({t \in Tasks : task'[t].at # "idle"}) <= MaxBusy

BusySpec == Init /\ [][BusyNext]_vars

StoreSymmetry == Permutations(Inodes) \cup Permutations(BlobTasks)
                   \cup Permutations(RowTasks) \cup Permutations(Results)
=============================================================================
