---------------------------- MODULE PoolBarrier ----------------------------
(***************************************************************************)
(* Driver::await_pool_formed: the barrier in front of Execute and          *)
(* GetActionResult.  A call passes once the pool of connected workers has  *)
(* met the quorum (min_workers heads, require_shards distinct preloaded    *)
(* shards).  The passing call sets the latch pool_formed; the others wait  *)
(* on the tokio Notify worker_arrived, which each joining worker signals   *)
(* with notify_waiters(): it wakes the calls parked at that moment and     *)
(* leaves no permit behind for a call that parks later.                    *)
(*                                                                         *)
(* The workers lock is released between the quorum check and the creation  *)
(* of the Notified future, so check and park are two steps.                *)
(***************************************************************************)
EXTENDS Naturals, FiniteSets

CONSTANTS Callers,        \* calls that go through the barrier
          Workers,        \* worker connections; each joins at most once
          NoShard,        \* preloaded_shard = None
          Shard,          \* Shard[w]: the preloaded shard of w, or NoShard
          MinWorkers,     \* cfg.min_workers
          RequireShards   \* cfg.require_shards

ASSUME ShardAssumption == DOMAIN Shard = Workers
ASSUME QuorumAssumption == MinWorkers \in Nat /\ RequireShards \in Nat
ASSUME WorkersFinite == IsFiniteSet(Workers)

VARIABLES pc,          \* pc[c]: where call c is in await_pool_formed
          conn,        \* conn[w]: how far handle_worker is for w
          poolFormed,  \* the latch pool_formed
          reached      \* history: the quorum has been met at some time

vars == <<pc, conn, poolFormed, reached>>

\* Driver::workers: a connection is listed from the push to the retain.
Connected(cn) == {w \in Workers : cn[w] \in {"pushed", "joined"}}

Quorum(ws) ==
  /\ Cardinality(ws) >= MinWorkers
  /\ Cardinality({Shard[w] : w \in ws} \ {NoShard}) >= RequireShards

Init ==
  /\ pc = [c \in Callers |-> "idle"]
  /\ conn = [w \in Workers |-> "absent"]
  /\ poolFormed = FALSE
  /\ reached = Quorum({})

----------------------------------------------------------------------------
(* await_pool_formed, step by step.                                        *)

\* The fast path: an open latch lets the call through without the lock.
LoadLatch(c) ==
  /\ pc[c] = "idle"
  /\ pc' = [pc EXCEPT ![c] = IF poolFormed THEN "passed" ELSE "check"]
  /\ UNCHANGED <<conn, poolFormed, reached>>

\* Mutant: workers are counted, shards are not.
CheckHeadsOnly(c) ==
  /\ pc[c] = "check"
  /\ pc' = [pc EXCEPT ![c] =
       IF Cardinality(Connected(conn)) >= MinWorkers THEN "latch" ELSE "park"]
  /\ UNCHANGED <<conn, poolFormed, reached>>

\* Under the workers lock: heads and distinct shards are counted.
CheckQuorum(c) ==
  /\ pc[c] = "check"
  /\ pc' = [pc EXCEPT ![c] = IF Quorum(Connected(conn)) THEN "latch" ELSE "park"]
  /\ UNCHANGED <<conn, poolFormed, reached>>

\* notified() is created and awaited.
Park(c) ==
  /\ pc[c] = "park"
  /\ pc' = [pc EXCEPT ![c] = "parked"]
  /\ UNCHANGED <<conn, poolFormed, reached>>

SetLatch(c) ==
  /\ pc[c] = "latch"
  /\ pc' = [pc EXCEPT ![c] = "passed"]
  /\ poolFormed' = TRUE
  /\ UNCHANGED <<conn, reached>>

----------------------------------------------------------------------------
(* handle_worker, as far as the barrier sees it.                           *)

\* workers.lock().await.push(..)
PushWorker(w) ==
  /\ conn[w] = "absent"
  /\ conn' = [conn EXCEPT ![w] = "pushed"]
  /\ reached' = (reached \/ Quorum(Connected(conn')))
  /\ UNCHANGED <<pc, poolFormed>>

\* Mutant: notify_one() instead of notify_waiters().
NotifyOneWaiter(w) ==
  /\ conn[w] = "pushed"
  /\ conn' = [conn EXCEPT ![w] = "joined"]
  /\ \E c \in Callers :
       /\ pc[c] = "parked" \/ \A d \in Callers : pc[d] # "parked"
       /\ pc' = [pc EXCEPT ![c] = IF @ = "parked" THEN "check" ELSE @]
  /\ UNCHANGED <<poolFormed, reached>>

\* Mutant: a woken call forgets that it has to count again.
NotifyWithoutRecount(w) ==
  /\ conn[w] = "pushed"
  /\ conn' = [conn EXCEPT ![w] = "joined"]
  /\ pc' = [c \in Callers |-> IF pc[c] = "parked" THEN "woken" ELSE pc[c]]
  /\ UNCHANGED <<poolFormed, reached>>

\* worker_arrived.notify_waiters(): every parked call re-checks the level.
NotifyWaiters(w) ==
  /\ conn[w] = "pushed"
  /\ conn' = [conn EXCEPT ![w] = "joined"]
  /\ pc' = [c \in Callers |-> IF pc[c] = "parked" THEN "check" ELSE pc[c]]
  /\ UNCHANGED <<poolFormed, reached>>

\* The control stream ended: workers.retain(..) drops the connection.
LeaveWorker(w) ==
  /\ conn[w] = "joined"
  /\ conn' = [conn EXCEPT ![w] = "left"]
  /\ UNCHANGED <<pc, poolFormed, reached>>

CallStep(c) == LoadLatch(c) \/ CheckQuorum(c) \/ Park(c) \/ SetLatch(c)

Next ==
  \/ \E c \in Callers : CallStep(c)
  \/ \E w \in Workers : PushWorker(w) \/ NotifyWaiters(w) \/ LeaveWorker(w)

\* Tokio runs every task that can make progress: a call that has begun
\* goes on, and a handler that has pushed goes on to notify.  Calls need
\* not be made, workers need not arrive or leave.
Fairness ==
  /\ \A c \in Callers : WF_vars(CheckQuorum(c) \/ Park(c) \/ SetLatch(c))
  /\ \A w \in Workers : WF_vars(NotifyWaiters(w))

Spec == Init /\ [][Next]_vars
FairSpec == Spec /\ Fairness

----------------------------------------------------------------------------
PCs == {"idle", "check", "park", "parked", "latch", "passed"}

\* Every variable has the type its Rust counterpart has.
TypeOK ==
  /\ pc \in [Callers -> PCs]
  /\ conn \in [Workers -> {"absent", "pushed", "joined", "left"}]
  /\ poolFormed \in BOOLEAN
  /\ reached \in BOOLEAN

\* No call gets past the barrier, and the latch is not set, unless the
\* pool has met the whole quorum (heads and shards) at some moment: the
\* guarantee --min-workers and --require-shards give the first dispatch.
DispatchOnlyAfterQuorum ==
  (poolFormed \/ \E c \in Callers : pc[c] = "passed") => reached

\* While no worker leaves, a call that is parked when a quorum-completing
\* worker is about to notify gets through the barrier.  (Only a call that
\* has not parked yet can miss the notification.)
ParkedCallsAreReleased ==
  [](\A w \in Workers : conn[w] # "left") =>
    \A c \in Callers :
      (/\ pc[c] = "parked"
       /\ \E w \in Workers : conn[w] = "pushed"
       /\ Quorum(Connected(conn))) ~> (pc[c] = "passed")

\* What the comment on await_pool_formed promises, "block until the agreed
\* pool has formed once [...] a shrinking pool never re-blocks dispatch": a
\* call passes if from some time on the latch is set or the quorum is met.
FormedPoolReleasesEveryCall ==
  <>[](poolFormed \/ Quorum(Connected(conn))) =>
    \A c \in Callers : (pc[c] # "idle") ~> (pc[c] = "passed")
=============================================================================
