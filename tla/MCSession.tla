----------------------------- MODULE MCSession -----------------------------
(* The fleet: the pool barrier and the sessions of the workers.  The calls  *)
(* the barrier holds back and the end of a lap share nothing but the list   *)
(* of workers, so one run takes both: whichever moves first is the one that *)
(* moves.                                                                   *)
EXTENDS PoolBarrier, WorkerSession, TLC

CONSTANTS w1, w2, w3, w4, none, n1, n2, d0, d1

\* The barrier: two workers preloaded the same shard, so a head count of three
\* does not mean two distinct shards, and two shards need not be two heads that
\* stay.
FourShards == (w1 :> 0) @@ (w2 :> 0) @@ (w3 :> 1) @@ (w4 :> none)

\* The sessions: both workers restored shard 0, and shard 1 goes to the other
\* one.  Each holds a blob of the shard that it may not get.
ThePreload == (n1 :> 0) @@ (n2 :> 0)
TheShardOf == (d0 :> 0) @@ (d1 :> 1)
TheHolds   == (n1 :> {d0}) @@ (n2 :> {d1})

BarrierIdle  == (\A c \in Callers : pc[c] = "idle") /\ (\A w \in Workers : conn[w] = "absent")
SessionsIdle == up /\ finale = "quiet" /\ \A n \in Nodes : life[n] = "dialling"

FleetInit == Init /\ SessionInit
FleetNext ==
  \/ Next /\ SessionsIdle /\ UNCHANGED sessionVars
  \/ SessionNext /\ BarrierIdle /\ UNCHANGED vars

\* Fairness and SessionFairness, each as long as the other half has not moved.
FleetSpec ==
  /\ FleetInit
  /\ [][FleetNext]_<<vars, sessionVars>>
  /\ Fairness
  /\ \A n \in Nodes :
       /\ WF_sessionVars(BarrierIdle /\ Receive(n))
       /\ WF_sessionVars(BarrierIdle /\ TimeOut(n))
       /\ WF_sessionVars(BarrierIdle /\ Sync(n))
       /\ WF_sessionVars(BarrierIdle /\ Handle(n))
  /\ WF_sessionVars(BarrierIdle /\ FinishLap)
=============================================================================
