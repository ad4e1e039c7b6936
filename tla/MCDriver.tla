------------------------------ MODULE MCDriver ------------------------------
(* The driver: its scheduler and its action cache.  They share the list of  *)
(* workers and nothing else, so one run takes both: whichever moves first   *)
(* is the one that moves.                                                   *)
EXTENDS Dispatch, ActionCache, TLC

CONSTANTS j1, j2, j3, w1, w2, w3, linux, windows, x64
CONSTANTS k1, whole, torn, t, u, x, z, p1, p2

LinuxHost   == [os |-> linux, arch |-> x64]
WindowsHost == [os |-> windows, arch |-> x64]
NoDemand    == [os |-> AnyAxis, arch |-> AnyAxis]
LinuxDemand == [os |-> linux, arch |-> AnyAxis]
TwoLinux    == (w1 :> LinuxHost) @@ (w2 :> LinuxHost)
OneSlot     == (w1 :> 1) @@ (w2 :> 1)

\* The scheduler has either two twins of one crate, which two workers can run,
\* or one unpinned job that two workers race for while a third is of no use to it.
TheCrates  == (j1 :> "foo") @@ (j2 :> "foo") @@ (j3 :> None)
TheDemands == (j1 :> NoDemand) @@ (j2 :> NoDemand) @@ (j3 :> LinuxDemand)
ThreeHosts == TwoLinux @@ (w3 :> WindowsHost)
ThreeSlots == OneSlot @@ (w3 :> 1)

Submitted  == {j \in Jobs : call[j] # "idle"}
TwinsOrOne == Submitted \cap {j1, j2} # {} => j3 \notin Submitted /\ reader[w3] = "out"

\* The action cache: the whole result, which a run gives again, has a directory
\* output, tree t with file x, and the torn one tree u with file z.  Worker p1 has
\* the first; of the torn one somebody has only the tree.
TheOutputs == (whole :> {t}) @@ (torn :> {u})
TheInside  == (t :> {x}) @@ (u :> {z})
TheBuilds  == k1 :> {whole}
TheSeed    == (p1 :> {t, x}) @@ (p2 :> {t, u})

SchedulerIdle == Init
CacheIdle     == CacheInit /\ row = [k \in Keys |-> Absent]

DriverInit == Init /\ CacheInit
DriverNext ==
  \/ CacheIdle /\ Next /\ TwinsOrOne' /\ UNCHANGED cacheVars
  \/ SchedulerIdle /\ CacheNext /\ UNCHANGED vars
DriverSpec == DriverInit /\ [][DriverNext]_<<vars, cacheVars>>

-----------------------------------------------------------------------------
(* Liveness: one pinned job of a Linux platform and two workers that can    *)
(* run it; the old result whole and, late, a worker that has its blobs. A   *)
(* build gives the result torn instead.                                     *)
OnePinned == j1 :> "foo"
OneDemand == j1 :> LinuxDemand

LateSeed   == (p1 :> {t, x}) @@ (p2 :> {t})
FreshBuild == k1 :> {torn}

LiveNext ==
  \/ CacheIdle /\ Next /\ UNCHANGED cacheVars
  \/ SchedulerIdle /\ CacheNext /\ UNCHANGED vars

\* The fairness of each, the scheduler's as long as the action cache has not
\* moved: nothing of CacheFairness can be due before a call has come.
LiveSpec ==
  /\ DriverInit
  /\ [][LiveNext]_<<vars, cacheVars>>
  /\ WF_vars(CacheIdle /\ PumpStep)
  /\ SF_vars(CacheIdle /\ (BeginPump(Timer) \/ PumpNothing(Timer)))
  /\ \A w \in Workers : SF_vars(CacheIdle /\ HandlerStep(w))
  /\ \A j \in Jobs : /\ SF_vars(CacheIdle /\ Enqueue(j))
                     /\ SF_vars(CacheIdle /\ FinishLocal(j))
                     /\ WF_vars(CacheIdle /\ LosePatience(j))
  /\ CacheFairness

DriverSymmetry == Permutations({w1, w2}) \cup Permutations(Calls)
=============================================================================
