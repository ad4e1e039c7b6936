-------------------------------- MODULE Laps --------------------------------
(* The CI laps around the banks.  Every job of a lap restores the banks of  *)
(* its lineage from the artifact shelf into a work directory of its own,    *)
(* builds, and banks what is new.  The bank modules share these constants:  *)
(* which jobs there are, which lineage each runs on, which lineage that one *)
(* inherits from, which jobs are over before a job starts (jobs neither of  *)
(* which waits for the other overlap), and how far a listing reaches.       *)
EXTENDS Integers, FiniteSets

CONSTANTS
  Jobs,     \* the jobs of all laps; each stands for its run and its role
  Lines,    \* lineages: branches of the repository
  Line,     \* Line[j]: the lineage job j banks into
  Trunk,    \* Trunk[l]: the lineage l inherits from, read-only, or None
  After,    \* After[j]: jobs of earlier laps that end before j starts
  Page,     \* how many artifacts, the newest, a listing returns (100 in the code)
  None      \* no such thing

ASSUME LapsAssumption ==
  /\ Line \in [Jobs -> Lines]
  /\ Trunk \in [Lines -> Lines \cup {None}]
  /\ \A l \in Lines : Trunk[l] # l
  /\ After \in [Jobs -> SUBSET Jobs]
  /\ Page \in Nat \ {0}
  /\ None \notin Jobs \cup Lines

\* What each job may do now, given where every job is.
Ready(pc, j) == pc[j] = "waiting" /\ \A k \in After[j] : pc[k] = "over"
=============================================================================
