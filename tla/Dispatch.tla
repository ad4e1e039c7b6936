------------------------------ MODULE Dispatch ------------------------------
(***************************************************************************)
(* The driver's scheduler: Driver::execute puts an action in the job table *)
(* and in the queue of its platform, pump() hands queued jobs to workers   *)
(* (or runs them in-process when no worker is connected), handle_worker    *)
(* settles the workers' replies and requeues what a departed worker owed.  *)
(*                                                                         *)
(* pump() holds the workers, jobs, queue and affinity locks from its first *)
(* to its last line.  It is modelled as the sequence of its loop rounds    *)
(* under one lock (pump.by); every action that takes one of these locks    *)
(* waits for it, and only lock-free steps interleave with the rounds.      *)
(*                                                                         *)
(* The per-platform queues are kept as ONE sequence of job ids: a job's    *)
(* platform never changes, pushes go to the same end of either, and a pull *)
(* looks at the ids of one platform at a time.                             *)
(***************************************************************************)
EXTENDS Integers, Sequences, SequencesExt, FiniteSets

CONSTANTS
  Jobs,         \* calls of Driver::execute, each inserting one job
  Workers,      \* worker connections; a reconnecting worker is a new one
  None,         \* no worker, no affinity, no outcome, nobody
  Timer,        \* the task that pumps every 5 s
  AnyAxis,      \* an unconstrained axis of a PlatKey (the empty string)
  Plat,         \* Plat[j]: [os, arch] demanded by job j, axes may be AnyAxis
  Host,         \* Host[w]: [os, arch] of worker w, no axis is AnyAxis
  DriverHost,   \* [os, arch] of the driver
  Crate,        \* Crate[j]: crate key (else input root) of job j, or None
  Slots,        \* Slots[w]: the slots worker w said it has
  MaxAttempts,  \* MAX_ATTEMPTS, 3 in the code
  LocalExec,    \* cfg.local_exec
  Locality,     \* cfg.locality
  Mortal        \* bound: the connections that may be lost

ASSUME NamesAssumption ==
  /\ None \notin Workers \cup Jobs \cup {Timer}
  /\ Timer \notin Workers \cup Jobs
  /\ Workers \cap Jobs = {}
ASSUME JobsFinite == IsFiniteSet(Jobs)
ASSUME TablesAssumption ==
  /\ DOMAIN Plat = Jobs /\ DOMAIN Crate = Jobs /\ DOMAIN Host = Workers
  /\ \A w \in Workers : DOMAIN Host[w] = {"os", "arch"}
  /\ Slots \in [Workers -> Nat]
  /\ MaxAttempts \in Nat \ {0}
  /\ LocalExec \in BOOLEAN
  /\ Locality \in BOOLEAN
  /\ Mortal \subseteq Workers

VARIABLES
  call,        \* where execute() is: idle, enqueue, pump, await
  outcome,     \* what the oneshot of the job carried, or None
  table,       \* the job ids in Driver::jobs
  assignee,    \* Job::worker (None: 0, driver-local or queued)
  attempts,    \* Job::attempts
  speculated,  \* the jobs with Job::speculated set
  started,     \* the jobs with Job::started set
  old,         \* those of them that started SPECULATE_AFTER ago or earlier
  locality,    \* Job::locality
  patient,     \* the jobs submitted less than LOCALITY_PATIENCE ago
  queue,       \* Driver::queue
  owner,       \* Driver::affinity_owner
  roster,      \* Driver::workers, in join order
  inflight,    \* WorkerConn::inflight
  txOpen,      \* the writer task still drains WorkerConn::tx
  reader,      \* where handle_worker is for a connection
  reply,       \* the Done or Failed frame it is settling, or None
  orphans,     \* the jobs it collected for requeueing
  lost,        \* the connections that no longer carry frames
  sent,        \* sent[w][j]: Run frames for j that w has not answered
  pump,        \* the running pump() call
  sends        \* history: Run frames the drain loop queued for a job

callVars  == <<call, outcome>>
jobVars   == <<table, assignee, attempts, speculated, started, old, locality, patient>>
connVars  == <<roster, txOpen, reader, reply, orphans, lost>>
loadVars  == <<inflight, sent>>
vars == <<call, outcome, table, assignee, attempts, speculated, started, old,
          locality, patient, queue, owner, roster, inflight, txOpen, reader,
          reply, orphans, lost, sent, pump, sends>>

----------------------------------------------------------------------------
\* Job::affinity is the crate key hashed together with the platform.
Affinity(j) == [crate |-> Crate[j], plat |-> Plat[j]]
Pinned(j)   == Crate[j] # None
Affinities  == {Affinity(j) : j \in {i \in Jobs : Pinned(i)}}

Idle       == [by |-> None, phase |-> "drain", at |-> 1, any |-> FALSE, n |-> 1]
Unlocked   == pump.by = None
Connected  == Range(roster)

\* PlatKey::pull_order: the queues a host may pull from, most specific first.
\* The drain loop and the in-process fallback look no further.
PullOrder(h) == << h, [h EXCEPT !.arch = AnyAxis], [h EXCEPT !.os = AnyAxis],
                   [os |-> AnyAxis, arch |-> AnyAxis] >>
Serves(h, p) == p \in Range(PullOrder(h))

\* PlatKey::admits: the host meets the demand p.  Speculation asks this.
Admits(p, h) == p.os \in {AnyAxis, h.os} /\ p.arch \in {AnyAxis, h.arch}

Clamp(x, lo, hi) == IF x < lo THEN lo ELSE IF x > hi THEN hi ELSE x

\* How many jobs beyond its slots a worker may hold: deep queue, deep pipeline.
Headroom == Clamp(Len(queue) \div (Len(roster) * 4), 1, 16)

Init ==
  /\ call = [j \in Jobs |-> "idle"]
  /\ outcome = [j \in Jobs |-> None]
  /\ table = {} /\ speculated = {} /\ started = {} /\ old = {} /\ patient = {}
  /\ assignee = [j \in Jobs |-> None]
  /\ attempts = [j \in Jobs |-> 0]
  /\ locality = [j \in Jobs |-> None]
  /\ queue = <<>>
  /\ owner = [a \in Affinities |-> None]
  /\ roster = <<>>
  /\ inflight = [w \in Workers |-> 0]
  /\ txOpen = [w \in Workers |-> FALSE]
  /\ reader = [w \in Workers |-> "out"]
  /\ reply = [w \in Workers |-> None]
  /\ orphans = [w \in Workers |-> {}]
  /\ lost = {}
  /\ sent = [w \in Workers |-> [j \in Jobs |-> 0]]
  /\ pump = Idle
  /\ sends = [j \in Jobs |-> 0]

\* The job leaves the table and its oneshot is resolved.
Resolve(j, o) ==
  /\ table' = table \ {j}
  /\ outcome' = [outcome EXCEPT ![j] = o]
  /\ assignee' = [assignee EXCEPT ![j] = None]
  /\ locality' = [locality EXCEPT ![j] = None]
  /\ speculated' = speculated \ {j}
  /\ started' = started \ {j}
  /\ old' = old \ {j}
  /\ patient' = patient \ {j}

----------------------------------------------------------------------------
(* Driver::execute                                                         *)

\* The job enters the table; its soft data-locality preference is what the
\* blooms said: some listed worker, or none.
Insert(j) ==
  /\ call[j] = "idle" /\ Unlocked
  /\ call' = [call EXCEPT ![j] = "enqueue"]
  /\ table' = table \cup {j}
  /\ patient' = patient \cup {j}
  /\ \E w \in IF Locality THEN Connected \cup {None} ELSE {None} :
       locality' = [locality EXCEPT ![j] = w]
  /\ UNCHANGED <<outcome, assignee, attempts, speculated, started, old, queue,
                 owner, connVars, loadVars, pump, sends>>

Enqueue(j) ==
  /\ call[j] = "enqueue" /\ Unlocked
  /\ call' = [call EXCEPT ![j] = "pump"]
  /\ queue' = Append(queue, j)
  /\ UNCHANGED <<outcome, jobVars, owner, connVars, loadVars, pump, sends>>

\* LOCALITY_PATIENCE runs out; it only matters to a job with a preference.
LosePatience(j) ==
  /\ j \in patient /\ locality[j] # None
  /\ patient' = patient \ {j}
  /\ UNCHANGED <<callVars, table, assignee, attempts, speculated, started, old,
                 locality, queue, owner, connVars, loadVars, pump, sends>>

\* SPECULATE_AFTER has passed since the job started; only a pump looks.
GrowOld(j) ==
  /\ j \in started \ old /\ Unlocked
  /\ old' = old \cup {j}
  /\ UNCHANGED <<callVars, table, assignee, attempts, speculated, started,
                 locality, patient, queue, owner, connVars, loadVars, pump, sends>>

\* An in-process run ends.
FinishLocal(j) ==
  /\ j \in started /\ assignee[j] = None /\ Unlocked
  /\ \E o \in {"ok", "failed"} : Resolve(j, o)
  /\ UNCHANGED <<call, attempts, queue, owner, connVars, loadVars, pump, sends>>

----------------------------------------------------------------------------
(* Driver::pump                                                            *)

\* The tasks about to call pump(): execute, a reader, the 5 s timer.
Wants(t) ==
  \/ t = Timer
  \/ t \in Jobs /\ call[t] = "pump"
  \/ t \in Workers /\ reader[t] \in {"join", "pump", "lastpump"}

\* pump() returns to its caller.
Return(t) ==
  /\ call' = IF t \in Jobs THEN [call EXCEPT ![t] = "await"] ELSE call
  /\ reader' = IF t \in Workers
                 THEN [reader EXCEPT ![t] = IF @ = "lastpump" THEN "gone" ELSE "read"]
                 ELSE reader

\* The locks are taken.  With no worker connected there is nothing to do,
\* unless the driver may run actions itself.
BeginPump(t) ==
  /\ Unlocked /\ Wants(t)
  /\ roster # <<>> \/ LocalExec
  /\ pump' = IF roster = <<>>
               THEN [Idle EXCEPT !.by = t, !.phase = "local"]
               ELSE [Idle EXCEPT !.by = t, !.n = Headroom]
  /\ UNCHANGED <<callVars, jobVars, queue, owner, connVars, loadVars, sends>>

PumpNothing(t) ==
  /\ Unlocked /\ Wants(t)
  /\ roster = <<>> /\ ~LocalExec
  /\ Return(t)
  /\ UNCHANGED <<outcome, jobVars, queue, owner, roster, txOpen, reply, orphans,
                 lost, loadVars, pump, sends>>

RunsHere(i) == Serves(DriverHost, Plat[queue[i]])

\* Every queued job the driver's own host serves is taken off the queue and,
\* if it is still in the table, started as an in-process run.
RunLocally ==
  /\ pump.by # None /\ pump.phase = "local"
  /\ \E i \in DOMAIN queue :
       /\ RunsHere(i) /\ \A k \in 1..(i - 1) : ~RunsHere(k)
       /\ queue' = RemoveAt(queue, i)
       /\ IF queue[i] \in table
            THEN /\ attempts' = [attempts EXCEPT ![queue[i]] = @ + 1]
                 /\ started' = started \cup {queue[i]}
            ELSE UNCHANGED <<attempts, started>>
  /\ UNCHANGED <<callVars, table, assignee, speculated, old, locality, patient,
                 owner, connVars, loadVars, pump, sends>>

EndLocal ==
  /\ pump.by # None /\ pump.phase = "local"
  /\ \A i \in DOMAIN queue : ~RunsHere(i)
  /\ Return(pump.by)
  /\ pump' = Idle
  /\ UNCHANGED <<outcome, jobVars, queue, owner, roster, txOpen, reply, orphans,
                 lost, loadVars, sends>>

\* Mutant: a dead affinity owner is not usurped.
TakeableNotUsurped(w, j) ==
  \/ j \notin table
  \/ /\ locality[j] \in {None, w} \/ locality[j] \notin Connected \/ j \notin patient
     /\ ~Pinned(j) \/ owner[Affinity(j)] \in {None, w}

\* A job a worker may pull: not held back for the worker that has its data,
\* not pinned to another connected worker.  An id no longer in the table is
\* pulled too, and dropped.
Takeable(w, j) ==
  \/ j \notin table
  \/ /\ \/ locality[j] \in {None, w}
        \/ locality[j] \notin Connected
        \/ j \notin patient
     /\ \/ ~Pinned(j)
        \/ owner[Affinity(j)] \in {None, w}
        \/ owner[Affinity(j)] \notin Connected

Places(w) == {i \in DOMAIN queue : Serves(Host[w], Plat[queue[i]]) /\ Takeable(w, queue[i])}

\* Most specific platform first, then queue order.
Rank(w, i) == CHOOSE r \in 1..4 : PullOrder(Host[w])[r] = Plat[queue[i]]
Before(w, i, k) == Rank(w, i) < Rank(w, k) \/ (Rank(w, i) = Rank(w, k) /\ i < k)

Cursor   == roster[pump.at]
Draining == pump.by # None /\ pump.phase = "drain" /\ pump.at \in DOMAIN roster
Full(w)  == inflight[w] >= Slots[w] + pump.n

\* The worker under the cursor has headroom and pulls the i-th queued id.
Pulls(w, i) ==
  /\ Draining /\ w = Cursor /\ ~Full(w)
  /\ i \in Places(w)
  /\ \A k \in Places(w) \ {i} : Before(w, i, k)

\* Completed while queued: the id is dropped.
PullGone(w, i) ==
  /\ Pulls(w, i) /\ queue[i] \notin table
  /\ queue' = RemoveAt(queue, i)
  /\ UNCHANGED <<callVars, jobVars, owner, connVars, loadVars, pump, sends>>

\* Mutant: off by one, a job is given up before its last attempt.
GiveUpEarly(w, i) ==
  /\ Pulls(w, i) /\ queue[i] \in table /\ attempts[queue[i]] + 1 >= MaxAttempts
  /\ Resolve(queue[i], "gaveup")
  /\ queue' = RemoveAt(queue, i)
  /\ UNCHANGED <<call, attempts, owner, connVars, loadVars, pump, sends>>

GiveUp(w, i) ==
  /\ Pulls(w, i) /\ queue[i] \in table /\ attempts[queue[i]] >= MaxAttempts
  /\ Resolve(queue[i], "gaveup")
  /\ queue' = RemoveAt(queue, i)
  /\ UNCHANGED <<call, attempts, owner, connVars, loadVars, pump, sends>>

\* Mutant: the worker that takes a pinned job is not recorded as its owner.
AssignOwnerless(w, i, j) ==
  /\ Pulls(w, i) /\ j = queue[i] /\ j \in table /\ attempts[j] < MaxAttempts
  /\ attempts' = [attempts EXCEPT ![j] = @ + 1]
  /\ owner' = owner

\* Mutant: an answered job is dispatched like any other.
AssignAnswered(w, i, j) ==
  /\ Pulls(w, i) /\ j = queue[i] /\ attempts[j] < MaxAttempts
  /\ attempts' = [attempts EXCEPT ![j] = @ + 1]
  /\ owner' = IF Pinned(j) THEN [owner EXCEPT ![Affinity(j)] = w] ELSE owner

\* What assigning the pulled job to w writes before the Run frame is queued.
Assign(w, i, j) ==
  /\ Pulls(w, i) /\ j = queue[i] /\ j \in table /\ attempts[j] < MaxAttempts
  /\ attempts' = [attempts EXCEPT ![j] = @ + 1]
  /\ owner' = IF Pinned(j) THEN [owner EXCEPT ![Affinity(j)] = w] ELSE owner

\* A frame queued for a connection that carries none reaches nobody.
Transmit(w, j) ==
  sent' = IF w \in lost THEN sent ELSE [sent EXCEPT ![w][j] = @ + 1]

DispatchRun(w, i, j) ==
  /\ Assign(w, i, j) /\ txOpen[w]
  /\ queue' = RemoveAt(queue, i)
  /\ assignee' = [assignee EXCEPT ![j] = w]
  /\ started' = started \cup {j}
  /\ old' = old \ {j}
  /\ inflight' = [inflight EXCEPT ![w] = @ + 1]
  /\ Transmit(w, j)
  /\ sends' = [sends EXCEPT ![j] = @ + 1]
  /\ pump' = [pump EXCEPT !.any = TRUE]
  /\ UNCHANGED <<callVars, table, speculated, locality, patient, connVars>>

\* The writer task is gone: the job goes back to the head of its queue, the
\* attempt and the affinity stay with the dying worker.
SendFails(w, i, j) ==
  /\ Assign(w, i, j) /\ ~txOpen[w]
  /\ queue' = <<j>> \o RemoveAt(queue, i)
  /\ assignee' = [assignee EXCEPT ![j] = None]
  /\ started' = started \ {j}
  /\ old' = old \ {j}
  /\ pump' = [pump EXCEPT !.at = @ + 1]
  /\ UNCHANGED <<callVars, table, speculated, locality, patient, connVars,
                 loadVars, sends>>

NextWorker ==
  /\ Draining
  /\ Full(Cursor) \/ Places(Cursor) = {}
  /\ pump' = [pump EXCEPT !.at = @ + 1]
  /\ UNCHANGED <<callVars, jobVars, queue, owner, connVars, loadVars, sends>>

\* A round that assigned something is followed by another; after the last,
\* an empty queue leaves the workers' idle slots to speculation.
EndRound ==
  /\ pump.by # None /\ pump.phase = "drain" /\ pump.at > Len(roster)
  /\ IF pump.any \/ queue = <<>>
       THEN /\ pump' = [pump EXCEPT !.at = 1, !.any = FALSE,
                                    !.phase = IF pump.any THEN "drain" ELSE "speculate"]
            /\ UNCHANGED <<call, reader>>
       ELSE Return(pump.by) /\ pump' = Idle
  /\ UNCHANGED <<outcome, jobVars, queue, owner, roster, txOpen, reply, orphans,
                 lost, loadVars, sends>>

\* Mutant: the platform is not asked for.
StragglersAnywhere(w) ==
  {j \in old \ speculated : assignee[j] \notin {None, w} /\ ~Pinned(j)}

\* The running jobs a worker may race.  (The code takes the oldest.)
Stragglers(w) ==
  {j \in old \ speculated : /\ assignee[j] \notin {None, w}
                            /\ ~Pinned(j)
                            /\ Admits(Plat[j], Host[w])}

Speculating(w) == /\ pump.by # None /\ pump.phase = "speculate"
                  /\ pump.at \in DOMAIN roster /\ w = Cursor

Speculate(w) ==
  /\ Speculating(w) /\ inflight[w] < Slots[w]
  /\ \E j \in Stragglers(w) :
       /\ speculated' = speculated \cup {j}
       /\ Transmit(w, j)
  /\ inflight' = [inflight EXCEPT ![w] = @ + 1]
  /\ pump' = [pump EXCEPT !.at = @ + 1]
  /\ UNCHANGED <<callVars, table, assignee, attempts, started, old, locality,
                 patient, queue, owner, connVars, sends>>

BusyWorker(w) ==
  /\ Speculating(w) /\ inflight[w] >= Slots[w]
  /\ pump' = [pump EXCEPT !.at = @ + 1]
  /\ UNCHANGED <<callVars, jobVars, queue, owner, connVars, loadVars, sends>>

\* Past the last worker, or at the first idle one that has nothing to race
\* (the loop is left there), pump() returns.
EndPump ==
  /\ pump.by # None /\ pump.phase = "speculate"
  /\ \/ pump.at > Len(roster)
     \/ /\ pump.at \in DOMAIN roster
        /\ inflight[Cursor] < Slots[Cursor] /\ Stragglers(Cursor) = {}
  /\ Return(pump.by)
  /\ pump' = Idle
  /\ UNCHANGED <<outcome, jobVars, queue, owner, roster, txOpen, reply, orphans,
                 lost, loadVars, sends>>

----------------------------------------------------------------------------
(* Driver::handle_worker                                                   *)

Join(w) ==
  /\ reader[w] = "out" /\ Unlocked
  /\ reader' = [reader EXCEPT ![w] = "join"]
  /\ roster' = Append(roster, w)
  /\ txOpen' = [txOpen EXCEPT ![w] = TRUE]
  /\ UNCHANGED <<callVars, jobVars, queue, owner, reply, orphans, lost, loadVars,
                 pump, sends>>

\* The connection dies; neither task of the driver has noticed.
ConnLost(w) ==
  /\ w \in Mortal /\ reader[w] \notin {"out", "gone"} /\ w \notin lost
  /\ lost' = lost \cup {w}
  /\ UNCHANGED <<callVars, jobVars, queue, owner, roster, txOpen, reader, reply,
                 orphans, loadVars, pump, sends>>

\* The writer task, spawned after the first pump, fails to write a frame and
\* drops the receiving end of tx.
WriterFails(w) ==
  /\ w \in lost /\ txOpen[w] /\ reader[w] # "join"
  /\ txOpen' = [txOpen EXCEPT ![w] = FALSE]
  /\ UNCHANGED <<callVars, jobVars, queue, owner, roster, reader, reply, orphans,
                 lost, loadVars, pump, sends>>

\* Mutant: a reply to a job that is already answered gives no credit back.
RecvLeaking(w) ==
  /\ reader[w] = "read"
  /\ \E j \in Jobs, o \in {"ok", "failed"} :
       /\ sent[w][j] > 0
       /\ sent' = [sent EXCEPT ![w][j] = @ - 1]
       /\ reply' = [reply EXCEPT ![w] = [job |-> j, out |-> o]]
       /\ inflight' = [inflight EXCEPT ![w] = IF j \in table THEN @ - 1 ELSE @]
  /\ reader' = [reader EXCEPT ![w] = "settle"]
  /\ UNCHANGED <<callVars, jobVars, queue, owner, roster, txOpen, orphans, lost,
                 pump, sends>>

\* Done or Failed arrives.  No lock is taken: this can fall between two
\* rounds of a pump.  A reply that was on its way may outlive the connection.
Recv(w) ==
  /\ reader[w] = "read"
  /\ \E j \in Jobs, o \in {"ok", "failed"} :
       /\ sent[w][j] > 0
       /\ sent' = [sent EXCEPT ![w][j] = @ - 1]
       /\ reply' = [reply EXCEPT ![w] = [job |-> j, out |-> o]]
  /\ inflight' = [inflight EXCEPT ![w] = @ - 1]
  /\ reader' = [reader EXCEPT ![w] = "settle"]
  /\ UNCHANGED <<callVars, jobVars, queue, owner, roster, txOpen, orphans, lost,
                 pump, sends>>

\* Mutant: the last result wins.
SettleAgain(w) ==
  /\ reader[w] = "settle" /\ Unlocked
  /\ Resolve(reply[w].job, reply[w].out)
  /\ reply' = [reply EXCEPT ![w] = None]
  /\ reader' = [reader EXCEPT ![w] = "pump"]
  /\ UNCHANGED <<call, attempts, queue, owner, roster, txOpen, orphans, lost,
                 loadVars, pump, sends>>

\* complete(): the first result of a job wins, later ones find no job.
Settle(w) ==
  /\ reader[w] = "settle" /\ Unlocked
  /\ IF reply[w].job \in table
       THEN Resolve(reply[w].job, reply[w].out)
       ELSE UNCHANGED <<outcome, table, assignee, speculated, started, old,
                        locality, patient>>
  /\ reply' = [reply EXCEPT ![w] = None]
  /\ reader' = [reader EXCEPT ![w] = "pump"]
  /\ UNCHANGED <<call, attempts, queue, owner, roster, txOpen, orphans, lost,
                 loadVars, pump, sends>>

\* The reader's stream ends: workers.retain(..).
Retain(w) ==
  /\ reader[w] = "read" /\ w \in lost /\ Unlocked
  /\ reader' = [reader EXCEPT ![w] = "collect"]
  /\ \E i \in DOMAIN roster : roster[i] = w /\ roster' = RemoveAt(roster, i)
  /\ txOpen' = [txOpen EXCEPT ![w] = FALSE]
  /\ sent' = [sent EXCEPT ![w] = [j \in Jobs |-> 0]]
  /\ UNCHANGED <<callVars, jobVars, queue, owner, reply, orphans, lost, inflight,
                 pump, sends>>

\* What the departed worker still owed; with nothing owed there is no pump.
Collect(w) ==
  LET owed == {j \in table : assignee[j] = w} IN
  /\ reader[w] = "collect" /\ Unlocked
  /\ orphans' = [orphans EXCEPT ![w] = owed]
  /\ reader' = [reader EXCEPT ![w] = IF owed = {} THEN "gone" ELSE "requeue"]
  /\ UNCHANGED <<callVars, jobVars, queue, owner, roster, txOpen, reply, lost,
                 loadVars, pump, sends>>

\* Mutant: the requeued jobs keep their assignee.
RequeueStillAssigned(w) ==
  /\ reader[w] = "requeue" /\ Unlocked
  /\ \E s \in SetToSeqs(orphans[w] \cap table) : queue' = s \o queue
  /\ orphans' = [orphans EXCEPT ![w] = {}]
  /\ reader' = [reader EXCEPT ![w] = "lastpump"]
  /\ UNCHANGED <<callVars, jobVars, owner, roster, txOpen, reply, lost, loadVars,
                 pump, sends>>

\* In a second critical section: those still in the table go to the head of
\* the queue, in the order a hash map gave them.
Requeue(w) ==
  LET back == orphans[w] \cap table IN
  /\ reader[w] = "requeue" /\ Unlocked
  /\ assignee' = [j \in Jobs |-> IF j \in back THEN None ELSE assignee[j]]
  /\ started' = started \ back
  /\ old' = old \ back
  /\ \E s \in SetToSeqs(back) : queue' = s \o queue
  /\ orphans' = [orphans EXCEPT ![w] = {}]
  /\ reader' = [reader EXCEPT ![w] = "lastpump"]
  /\ UNCHANGED <<callVars, table, attempts, speculated, locality, patient, owner,
                 roster, txOpen, reply, lost, loadVars, pump, sends>>

----------------------------------------------------------------------------
Tasks == Jobs \cup Workers \cup {Timer}

PumpStep ==
  \/ RunLocally \/ EndLocal
  \/ \E w \in Workers, i \in DOMAIN queue :
       \/ PullGone(w, i) \/ GiveUp(w, i)
       \/ \E j \in Jobs : DispatchRun(w, i, j) \/ SendFails(w, i, j)
  \/ NextWorker \/ EndRound
  \/ \E w \in Workers : Speculate(w) \/ BusyWorker(w)
  \/ EndPump

CallStep(j) == Insert(j) \/ Enqueue(j) \/ LosePatience(j) \/ GrowOld(j) \/ FinishLocal(j)

ConnStep(w) ==
  \/ Join(w) \/ ConnLost(w) \/ WriterFails(w)
  \/ Recv(w) \/ Settle(w) \/ Retain(w) \/ Collect(w) \/ Requeue(w)

Next ==
  \/ \E j \in Jobs : CallStep(j)
  \/ \E t \in Tasks : BeginPump(t) \/ PumpNothing(t)
  \/ PumpStep
  \/ \E w \in Workers : ConnStep(w)

Spec == Init /\ [][Next]_vars

\* Tokio runs every task that can make progress and its mutexes are fair
\* (first in, first out): a task that waits for a lock gets it, even if others
\* take it again and again in between.  Workers answer what they run, the
\* transport notices a dead connection, the clock advances, in-process runs
\* end.  Calls need not be made, workers need not join or fail, and the pump
\* of execute() itself is not relied on.
HandlerStep(w) ==
  \/ Recv(w) \/ Settle(w) \/ Retain(w) \/ Collect(w) \/ Requeue(w)
  \/ BeginPump(w) \/ PumpNothing(w)

Fairness ==
  /\ WF_vars(PumpStep)
  /\ SF_vars(BeginPump(Timer) \/ PumpNothing(Timer))
  /\ \A w \in Workers : SF_vars(HandlerStep(w))
  /\ \A j \in Jobs : /\ SF_vars(Enqueue(j))
                     /\ SF_vars(FinishLocal(j))
                     /\ WF_vars(LosePatience(j))

FairSpec == Spec /\ Fairness

----------------------------------------------------------------------------
(* Properties                                                              *)

Readers == {"out", "join", "pump", "read", "settle", "collect", "requeue", "lastpump", "gone"}
Replies == [job : Jobs, out : {"ok", "failed"}]
Turns   == [by : Tasks \cup {None}, phase : {"local", "drain", "speculate"}, at : Nat,
            any : BOOLEAN, n : 1..16]

\* Every variable has the type its Rust counterpart has; what is known of a
\* job (started, raced, young) is known only while it is in the table.
TypeOK ==
  /\ call \in [Jobs -> {"idle", "enqueue", "pump", "await"}]
  /\ outcome \in [Jobs -> {None, "ok", "failed", "gaveup"}]
  /\ assignee \in [Jobs -> Workers \cup {None}]
  /\ locality \in [Jobs -> Workers \cup {None}]
  /\ attempts \in [Jobs -> Nat] /\ sends \in [Jobs -> Nat]
  /\ table \subseteq Jobs /\ speculated \subseteq table /\ started \subseteq table
  /\ old \subseteq started /\ patient \subseteq table
  /\ queue \in Seq(Jobs) /\ roster \in Seq(Workers)
  /\ owner \in [Affinities -> Workers \cup {None}]
  /\ inflight \in [Workers -> Int] /\ sent \in [Workers -> [Jobs -> Nat]]
  /\ txOpen \in [Workers -> BOOLEAN] /\ lost \subseteq Workers
  /\ reader \in [Workers -> Readers] /\ reply \in [Workers -> Replies \cup {None}]
  /\ orphans \in [Workers -> SUBSET Jobs]
  /\ pump \in Turns

Queued(j) == \E i \in DOMAIN queue : queue[i] = j

\* Somebody will still deal with the job: it is queued, runs in-process, or
\* its assignee owes it (a frame out, a reply being settled, a reader that
\* has yet to collect and requeue).
Accounted(j) ==
  \/ call[j] = "enqueue"
  \/ Queued(j)
  \/ assignee[j] = None /\ j \in started
  \/ \E w \in Workers : /\ assignee[j] = w
                        /\ \/ w \in Connected /\ w \in lost
                           \/ sent[w][j] > 0
                           \/ reader[w] = "settle" /\ reply[w].job = j
                           \/ reader[w] = "collect"
                           \/ reader[w] = "requeue" /\ j \in orphans[w]

\* No action is lost: through dispatch, speculation, failed sends, replies
\* that cross a disconnect, and the two critical sections that requeue a
\* departed worker's jobs, each job in the table stays accounted for.
\* (execute() waits on the job's oneshot with no timeout.)
NoJobIsLost == \A j \in table : Accounted(j)

\* A queued job is queued once and nobody runs it as its assignee: requeueing
\* (a failed send, a departed worker) and answering never make a second copy
\* for the drain loop to hand out.
QueuedJobsAreUnassigned ==
  /\ \A i, k \in DOMAIN queue : queue[i] = queue[k] => i = k
  /\ \A j \in table : Queued(j) => /\ assignee[j] = None /\ j \notin started
                                   /\ \A w \in Workers : j \notin orphans[w]

\* "Affinity jobs never race on a second machine": at most one connected
\* worker has frames of a pinned job, and at most one frame.
PinnedJobsNeverRace ==
  \A j \in table : Pinned(j) =>
    \A v, w \in Connected : sent[v][j] > 0 /\ sent[w][j] > 0 => v = w /\ sent[v][j] = 1

\* Every job in the table is in one place: none is lost, none is queued and
\* with a worker, none that is pinned is with two.
JobsHaveOnePlace == NoJobIsLost /\ QueuedJobsAreUnassigned /\ PinnedJobsNeverRace

\* The Run frames w has not answered: the n-th of job j.
Unanswered(w) == UNION {{j} \X (1..sent[w][j]) : j \in Jobs}

\* The pipeline credits of a connected worker are what it has been sent and
\* has not answered, through speculation, failed sends and replies to jobs
\* already answered: a leak would starve the worker, a shortfall wraps the u32.
CreditsMatchFrames ==
  \A w \in Connected \ lost : inflight[w] = Cardinality(Unanswered(w))

\* Jobs of one affinity are assigned to one connected worker at a time, also
\* while owners leave, are usurped, or fail to be sent to: rustc twins built
\* on two machines diverge (E0460).
TwinsShareOneWorker ==
  \A i, j \in table :
    (Pinned(i) /\ Pinned(j) /\ Affinity(i) = Affinity(j)) =>
      \A v, w \in Connected : assignee[i] = v /\ assignee[j] = w => v = w

\* A job only ever reaches workers that meet its platform demand, by the drain
\* loop and by speculation.
FramesReachAdmittingWorkers ==
  \A w \in Workers, j \in Jobs : sent[w][j] > 0 => Admits(Plat[j], Host[w])

\* Once a job is answered nothing hands it out again, and the answer stays.
AnsweredJobsStayAnswered ==
  [][\A j \in Jobs : outcome[j] # None =>
       outcome'[j] = outcome[j] /\ sends'[j] = sends[j] /\ j \notin table']_vars

\* execute() returns: a submitted job is answered if from some time on a
\* worker that meets its platform demand stays connected.  The affinity owner
\* it waits for may die, the worker with its data may be slow, copies may be
\* lost, others may be served first.
EveryJobIsAnswered ==
  \A j \in Jobs :
    (<>[](\E w \in Connected \ lost : Admits(Plat[j], Host[w])))
      => ((call[j] # "idle") ~> (outcome[j] # None))

----------------------------------------------------------------------------
\* The scheduler implements the queue that execute() promises.
Promise == INSTANCE WorkQueue WITH
  Holders <- Workers, Group <- [j \in Jobs |-> IF Pinned(j) THEN Affinity(j) ELSE None],
  answer <- outcome, open <- table, tries <- attempts,
  holder <- assignee, present <- Connected

ImplementsWorkQueue == Promise!Spec
=============================================================================
