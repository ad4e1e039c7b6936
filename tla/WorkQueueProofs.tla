--------------------------- MODULE WorkQueueProofs ---------------------------
(* The scheduler implements the queue that execute() promises, and loses no *)
(* job: for any jobs, workers, platforms, affinities, slots and attempt     *)
(* limit.  Behind both is where a job can be: not submitted yet, queued     *)
(* once, run by the driver, owed by one worker, or answered.                *)
EXTENDS DispatchProofs

-----------------------------------------------------------------------------
(* Sequences in which nothing is twice.                                    *)

LEMMA RemoveAtOnce ==
  ASSUME NEW S, NEW s \in Seq(S), NEW i \in DOMAIN s, IsInjective(s)
  PROVE  /\ IsInjective(RemoveAt(s, i))
         /\ Range(RemoveAt(s, i)) = Range(s) \ {s[i]}
<1> DEFINE n == Len(s)
           a == SubSeq(s, 1, i - 1)
           b == SubSeq(s, i + 1, n)
           t == RemoveAt(s, i)
<1>1. n \in Nat /\ DOMAIN s = 1..n /\ i \in 1..n /\ \A k \in 1..n : s[k] \in S
  BY LenProperties, ElementOfSeq
<1>2. a \in Seq(S) /\ Len(a) = i - 1 /\ \A k \in 1..(i - 1) : a[k] = s[k]
  BY <1>1, SubSeqProperties
<1>3. b \in Seq(S) /\ Len(b) = n - i /\ \A k \in 1..(n - i) : b[k] = s[k + i]
  <2>1. \A k \in (i + 1)..n : s[k] \in S
    BY <1>1
  <2>2. /\ b \in Seq(S) /\ Len(b) = (IF i + 1 <= n THEN n - (i + 1) + 1 ELSE 0)
        /\ \A k \in 1..(n - (i + 1) + 1) : b[k] = s[i + 1 + k - 1]
    BY <1>1, <2>1, SubSeqProperties
  <2> HIDE DEF b
  <2>3. \A k \in 1..(n - i) : i + 1 + k - 1 = k + i
    BY <1>1
  <2> QED
    BY <1>1, <2>2, <2>3
<1> HIDE DEF a, b
<1>4. t = a \o b
  BY DEF RemoveAt, a, b
<1> HIDE DEF t
<1>5. /\ t \in Seq(S) /\ Len(t) = n - 1
      /\ \A k \in 1..(n - 1) : t[k] = IF k < i THEN s[k] ELSE s[k + 1]
  <2>1. /\ t \in Seq(S) /\ Len(t) = (i - 1) + (n - i)
        /\ \A k \in 1..((i - 1) + (n - i)) : t[k] = IF k <= i - 1 THEN a[k] ELSE b[k - (i - 1)]
    BY <1>2, <1>3, <1>4, ConcatProperties
  <2>2. ASSUME NEW k \in 1..(n - 1) PROVE t[k] = IF k < i THEN s[k] ELSE s[k + 1]
    <3>1. CASE k < i
      BY <1>1, <1>2, <2>1, <3>1
    <3>2. CASE k >= i
      <4>1. t[k] = b[k - (i - 1)] /\ k - (i - 1) \in 1..(n - i)
        BY <1>1, <2>1, <3>2
      <4>2. k - (i - 1) + i = k + 1
        BY <1>1
      <4> QED
        BY <1>1, <1>3, <3>2, <4>1, <4>2
    <3> QED
      BY <1>1, <3>1, <3>2
  <2> QED
    BY <1>1, <2>1, <2>2
<1>6. DOMAIN t = 1..(n - 1)
  BY <1>5, LenProperties
<1>7. IsInjective(t)
  BY <1>1, <1>5, <1>6 DEF IsInjective
<1>8. ASSUME NEW k \in DOMAIN t PROVE t[k] \in Range(s) \ {s[i]}
  BY <1>1, <1>5, <1>6 DEF Range, IsInjective
<1>9. ASSUME NEW k \in DOMAIN s, k # i PROVE s[k] \in Range(t)
  <2>1. CASE k < i
    <3>1. k \in 1..(n - 1) /\ t[k] = s[k]
      BY <1>1, <1>5, <2>1
    <3> QED
      BY <1>6, <3>1 DEF Range
  <2>2. CASE k > i
    <3>1. k - 1 \in 1..(n - 1) /\ ~(k - 1 < i) /\ k - 1 + 1 = k
      BY <1>1, <2>2
    <3>2. t[k - 1] = s[k]
      BY <1>5, <3>1
    <3> QED
      BY <1>6, <3>1, <3>2 DEF Range
  <2> QED
    BY <1>1, <1>9, <2>1, <2>2
<1>10. Range(t) = Range(s) \ {s[i]}
  BY <1>8, <1>9 DEF Range
<1> QED
  BY <1>7, <1>10 DEF t

LEMMA ConcatOnce ==
  ASSUME NEW S, NEW s \in Seq(S), NEW t \in Seq(S), IsInjective(s), IsInjective(t),
         Range(s) \cap Range(t) = {}
  PROVE  IsInjective(s \o t) /\ Range(s \o t) = Range(s) \cup Range(t)
<1> DEFINE n == Len(s)
           m == Len(t)
           u == s \o t
<1>1. n \in Nat /\ m \in Nat /\ DOMAIN s = 1..n /\ DOMAIN t = 1..m
  BY LenProperties
<1>2. u \in Seq(S) /\ Len(u) = n + m /\ \A k \in 1..(n + m) : u[k] = IF k <= n THEN s[k] ELSE t[k - n]
  BY ConcatProperties
<1> HIDE DEF u
<1>3. DOMAIN u = 1..(n + m)
  BY <1>2, LenProperties
<1>4. ASSUME NEW k \in DOMAIN u
      PROVE  \/ k \in DOMAIN s /\ u[k] = s[k] /\ u[k] \in Range(s)
             \/ k - n \in DOMAIN t /\ u[k] = t[k - n] /\ u[k] \in Range(t)
  BY <1>1, <1>2, <1>3 DEF Range
<1>5. ASSUME NEW k \in DOMAIN u, NEW l \in DOMAIN u, u[k] = u[l] PROVE k = l
  <2>1. CASE k \in DOMAIN s /\ u[k] = s[k] /\ u[k] \in Range(s)
    <3>1. l \in DOMAIN s /\ u[l] = s[l]
      BY <1>4, <1>5, <2>1
    <3> QED
      BY <1>5, <2>1, <3>1 DEF IsInjective
  <2>2. CASE k - n \in DOMAIN t /\ u[k] = t[k - n] /\ u[k] \in Range(t)
    <3>1. l - n \in DOMAIN t /\ u[l] = t[l - n]
      BY <1>4, <1>5, <2>2
    <3>2. k - n = l - n
      BY <1>5, <2>2, <3>1 DEF IsInjective
    <3> QED
      BY <1>1, <1>3, <3>2
  <2> QED
    BY <1>4, <2>1, <2>2
<1>6. IsInjective(u)
  BY <1>5 DEF IsInjective
<1> QED
  BY <1>6, RangeConcatenation DEF u

LEMMA SingleOnce ==
  ASSUME NEW S, NEW e \in S
  PROVE  <<e>> \in Seq(S) /\ IsInjective(<<e>>) /\ Range(<<e>>) = {e}
BY DEF IsInjective, Range

LEMMA AppendOnce ==
  ASSUME NEW S, NEW s \in Seq(S), NEW e \in S, IsInjective(s), e \notin Range(s)
  PROVE  IsInjective(Append(s, e)) /\ Range(Append(s, e)) = Range(s) \cup {e}
<1> DEFINE t == <<e>>
<1>1. Append(s, e) = s \o t
  BY AppendIsConcat
<1>2. t \in Seq(S) /\ IsInjective(t) /\ Range(t) = {e}
  BY SingleOnce
<1> HIDE DEF t
<1>3. Range(s) \cap Range(t) = {}
  BY <1>2
<1> QED
  BY <1>1, <1>2, <1>3, ConcatOnce

\* An ordering of a set of jobs has each of them, once.
LEMMA OrderingOnce ==
  ASSUME NEW T \in SUBSET Jobs, NEW s \in SetToSeqs(T)
  PROVE  s \in Seq(Jobs) /\ IsInjective(s) /\ Range(s) = T
<1> DEFINE D == 1..Cardinality(T)
<1>1. IsFiniteSet(T) /\ Cardinality(T) \in Nat
  BY JobsFinite, FS_Subset, FS_CardinalityType
<1>2. s \in [D -> T] /\ \A i, k \in D : i # k => s[i] # s[k]
  BY DEF SetToSeqs
<1>3. IsInjective(s) /\ s \in Injection(D, T)
  BY <1>2 DEF IsInjective, Injection
<1>4. Cardinality(D) = Cardinality(T)
  BY <1>1, FS_Interval
<1>5. s \in Surjection(D, T)
  BY <1>1, <1>3, <1>4, FS_Injection
<1>6. Range(s) = T
  BY <1>2, <1>5 DEF Range, Surjection
<1> QED
  BY <1>3, <1>6, OrderingType

-----------------------------------------------------------------------------
(* Where a job can be.                                                     *)

\* A task in pump() has not got past its call.
PumperWaits == pump.by # None => Wants(pump.by)

\* A job that execute() has not queued yet is nowhere else.
Fresh(j) ==
  call[j] \in {"idle", "enqueue"} =>
    /\ attempts[j] = 0 /\ outcome[j] = None /\ assignee[j] = None /\ j \notin started
    /\ j \notin Range(queue)
    /\ \A w \in Workers : j \notin orphans[w]
    /\ call[j] = "idle" => j \notin table

\* A queued job is with nobody.
Waiting(j) ==
  j \in table /\ j \in Range(queue) =>
    /\ assignee[j] = None /\ j \notin started
    /\ \A w \in Workers : j \notin orphans[w]

\* What was run, sent or answered was handed out.
Tried(j) ==
  \/ attempts[j] > 0
  \/ /\ j \notin started
     /\ \A w \in Workers : sent[w][j] = 0 /\ ~(reader[w] = "settle" /\ reply[w].job = j)

\* The jobs a reader is about to requeue are still the departed worker's.
Owed(j) ==
  /\ j \in table => outcome[j] = None
  /\ \A w \in Workers : j \in table /\ j \in orphans[w] => assignee[j] = w

JobFlow(j) == Fresh(j) /\ Waiting(j) /\ Tried(j) /\ Owed(j)

\* A worker that is not read from is not on the roster, and has no frames
\* before it joins.
Away(w) ==
  /\ reader[w] \in {"out", "collect", "requeue", "lastpump", "gone"} => w \notin Connected
  /\ reader[w] = "out" => \A j \in Jobs : sent[w][j] = 0

Flow ==
  /\ IsInjective(queue) /\ IsInjective(roster)
  /\ \A j \in Jobs : JobFlow(j)
  /\ \A w \in Workers : Away(w)

FlowInv == TwinInv /\ PumperWaits /\ Flow

LEMMA Types ==
  ASSUME Typed
  PROVE  /\ call \in [Jobs -> {"idle", "enqueue", "pump", "await"}]
         /\ outcome \in [Jobs -> {None, "ok", "failed", "gaveup"}]
         /\ assignee \in [Jobs -> Workers \cup {None}]
         /\ attempts \in [Jobs -> Nat] /\ sends \in [Jobs -> Nat]
         /\ table \subseteq Jobs /\ started \subseteq table /\ old \subseteq started
         /\ queue \in Seq(Jobs) /\ roster \in Seq(Workers)
         /\ sent \in [Workers -> [Jobs -> Nat]]
         /\ reader \in [Workers -> Readers] /\ reply \in [Workers -> Replies \cup {None}]
         /\ orphans \in [Workers -> SUBSET Jobs]
         /\ pump \in Turns
         /\ Range(queue) \subseteq Jobs /\ Connected \subseteq Workers
BY RangeOfSeq DEF Typed, TypeOK, Connected

\* pump() returns to the call of execute() or to the reader that made it.
LEMMA ReturnMoves ==
  ASSUME Typed, NEW t \in Tasks, Wants(t), Return(t)
  PROVE  /\ \A j \in Jobs : call'[j] = call[j] \/ (call[j] = "pump" /\ call'[j] = "await")
         /\ \A w \in Workers : \/ reader'[w] = reader[w]
                               \/ reader[w] \in {"join", "pump"} /\ reader'[w] = "read"
                               \/ reader[w] = "lastpump" /\ reader'[w] = "gone"
BY NamesAssumption, Types DEF Wants, Return, Tasks

LEMMA WaitsStep == Typed /\ PumperWaits /\ [Next]_vars => PumperWaits'
<1> SUFFICES ASSUME Typed, PumperWaits, [Next]_vars PROVE PumperWaits'
  OBVIOUS
<1> USE Types, NamesAssumption
    DEF PumperWaits, Wants, Unlocked, Idle, callVars, jobVars, connVars, loadVars
<1>1. ASSUME NEW j \in Jobs, CallStep(j) PROVE PumperWaits'
  BY <1>1 DEF CallStep, Insert, Enqueue, LosePatience, GrowOld, FinishLocal, Resolve
<1>2. ASSUME NEW t \in Tasks, BeginPump(t) \/ PumpNothing(t) PROVE PumperWaits'
  <2>1. CASE BeginPump(t)
    <3>1. Wants(t) /\ UNCHANGED <<call, reader>>
      BY <2>1 DEF BeginPump
    <3>2. pump'.by = t
      BY <2>1 DEF BeginPump
    <3> QED
      BY <3>1, <3>2
  <2>2. CASE PumpNothing(t)
    BY <2>2 DEF PumpNothing
  <2> QED
    BY <1>2, <2>1, <2>2
<1>3. ASSUME NEW w \in Workers, NEW i \in DOMAIN queue, PullGone(w, i) \/ GiveUp(w, i)
      PROVE  PumperWaits'
  BY <1>3 DEF PullGone, GiveUp, Resolve
<1>4. ASSUME NEW w \in Workers, NEW i \in DOMAIN queue, NEW j \in Jobs,
             DispatchRun(w, i, j) \/ SendFails(w, i, j)
      PROVE  PumperWaits'
  <2>1. pump'.by = pump.by /\ UNCHANGED <<call, reader>>
    BY <1>4 DEF DispatchRun, SendFails, Turns
  <2> QED
    BY <2>1
<1>5. ASSUME RunLocally \/ EndLocal \/ NextWorker \/ EndRound \/ EndPump PROVE PumperWaits'
  <2>1. CASE RunLocally
    BY <2>1 DEF RunLocally
  <2>2. CASE EndLocal \/ EndPump
    BY <2>2 DEF EndLocal, EndPump
  <2>3. CASE NextWorker
    <3>1. pump'.by = pump.by /\ UNCHANGED <<call, reader>>
      BY <2>3 DEF NextWorker, Turns
    <3> QED
      BY <3>1
  <2>4. CASE EndRound
    <3>1. CASE pump.any \/ queue = <<>>
      <4>1. pump'.by = pump.by /\ UNCHANGED <<call, reader>>
        BY <2>4, <3>1 DEF EndRound, Turns
      <4> QED
        BY <4>1
    <3>2. CASE ~(pump.any \/ queue = <<>>)
      BY <2>4, <3>2 DEF EndRound
    <3> QED
      BY <3>1, <3>2
  <2> QED
    BY <1>5, <2>1, <2>2, <2>3, <2>4
<1>6. ASSUME NEW w \in Workers, Speculate(w) \/ BusyWorker(w) PROVE PumperWaits'
  <2>1. pump'.by = pump.by /\ UNCHANGED <<call, reader>>
    BY <1>6 DEF Speculate, BusyWorker, Turns
  <2> QED
    BY <2>1
<1>7. ASSUME NEW w \in Workers,
             \/ Join(w) \/ ConnLost(w) \/ WriterFails(w) \/ Recv(w)
             \/ Settle(w) \/ Retain(w) \/ Collect(w) \/ Requeue(w)
      PROVE  PumperWaits'
  BY <1>7 DEF Join, ConnLost, WriterFails, Recv, Settle, Retain, Collect, Requeue
<1>8. CASE UNCHANGED vars
  BY <1>8 DEF vars
<1> QED
  BY <1>1, <1>2, <1>3, <1>4, <1>5, <1>6, <1>7, <1>8 DEF Next, PumpStep, ConnStep

-----------------------------------------------------------------------------
(* Every step keeps the jobs in their places.                              *)

LEMMA FlowFacts ==
  ASSUME FlowInv
  PROVE  /\ Typed /\ HolderOwns /\ StrangersHoldNothing /\ PumperWaits
         /\ IsInjective(queue) /\ IsInjective(roster)
         /\ \A j \in Jobs : Fresh(j) /\ Waiting(j) /\ Tried(j) /\ Owed(j)
         /\ \A w \in Workers : Away(w)
BY DEF FlowInv, Flow, TwinInv, JobFlow

\* The steps that move no job.
Quiet ==
  /\ UNCHANGED <<outcome, table, assignee, attempts, started, queue, orphans, sent, reply, roster>>
  /\ \A j \in Jobs : call'[j] = call[j] \/ (call[j] = "pump" /\ call'[j] = "await")
  /\ \A w \in Workers : \/ reader'[w] = reader[w]
                        \/ reader[w] \in {"join", "pump"} /\ reader'[w] = "read"
                        \/ reader[w] = "lastpump" /\ reader'[w] = "gone"

LEMMA QuietFlow ==
  ASSUME FlowInv, Quiet
  PROVE  Flow'
<1> USE FlowFacts DEF Quiet
<1>1. ASSUME NEW j \in Jobs PROVE JobFlow(j)'
  BY DEF JobFlow, Fresh, Waiting, Tried, Owed
<1>2. ASSUME NEW w \in Workers PROVE Away(w)'
  BY DEF Away, Connected
<1> QED
  BY <1>1, <1>2 DEF Flow

\* A job is answered and leaves the table.
LEMMA ResolveFlow ==
  ASSUME FlowInv, NEW j \in Jobs, NEW o, Resolve(j, o), call[j] \notin {"idle", "enqueue"},
         IsInjective(queue'), Range(queue') \subseteq Range(queue),
         UNCHANGED <<call, attempts, orphans, sent, roster>>,
         \A w \in Workers : \/ reader'[w] = reader[w] /\ reply'[w] = reply[w]
                            \/ reader[w] = "settle" /\ reader'[w] = "pump"
  PROVE  Flow'
<1> USE FlowFacts
<1>1. /\ table' = table \ {j} /\ started' = started \ {j}
      /\ \A k \in Jobs \ {j} : outcome'[k] = outcome[k] /\ assignee'[k] = assignee[k]
  BY Types DEF Resolve
<1>2. ASSUME NEW k \in Jobs PROVE Fresh(k)'
  BY <1>1 DEF Fresh
<1>3. ASSUME NEW k \in Jobs PROVE Waiting(k)'
  BY <1>1 DEF Waiting
<1>4. ASSUME NEW k \in Jobs PROVE Tried(k)'
  BY <1>1 DEF Tried
<1>5. ASSUME NEW k \in Jobs PROVE Owed(k)'
  BY <1>1 DEF Owed
<1>6. ASSUME NEW w \in Workers PROVE Away(w)'
  BY DEF Away, Connected
<1> QED
  BY <1>2, <1>3, <1>4, <1>5, <1>6 DEF Flow, JobFlow

LEMMA CallFlow ==
  ASSUME FlowInv, NEW j \in Jobs, CallStep(j)
  PROVE  Flow'
<1> USE FlowFacts, Types DEF callVars, jobVars, connVars, loadVars
<1>1. CASE Insert(j)
  <2>1. /\ call[j] = "idle" /\ call' = [call EXCEPT ![j] = "enqueue"] /\ table' = table \cup {j}
        /\ UNCHANGED <<outcome, assignee, attempts, started, queue, orphans, sent, reader, reply, roster>>
    BY <1>1 DEF Insert
  <2>2. call'[j] = "enqueue" /\ \A k \in Jobs \ {j} : call'[k] = call[k]
    BY <2>1
  <2>3. ASSUME NEW k \in Jobs PROVE JobFlow(k)'
    BY <2>1, <2>2 DEF JobFlow, Fresh, Waiting, Tried, Owed
  <2>4. ASSUME NEW w \in Workers PROVE Away(w)'
    BY <2>1 DEF Away, Connected
  <2> QED
    BY <2>1, <2>3, <2>4 DEF Flow
<1>2. CASE Enqueue(j)
  <2>1. /\ call[j] = "enqueue" /\ call' = [call EXCEPT ![j] = "pump"] /\ queue' = Append(queue, j)
        /\ UNCHANGED <<outcome, table, assignee, attempts, started, orphans, sent, reader, reply, roster>>
    BY <1>2 DEF Enqueue
  <2>2. call'[j] = "pump" /\ \A k \in Jobs \ {j} : call'[k] = call[k]
    BY <2>1
  <2>3. IsInjective(queue') /\ Range(queue') = Range(queue) \cup {j}
    BY <2>1, AppendOnce DEF Fresh
  <2>4. ASSUME NEW k \in Jobs PROVE JobFlow(k)'
    BY <2>1, <2>2, <2>3 DEF JobFlow, Fresh, Waiting, Tried, Owed
  <2>5. ASSUME NEW w \in Workers PROVE Away(w)'
    BY <2>1 DEF Away, Connected
  <2> QED
    BY <2>1, <2>3, <2>4, <2>5 DEF Flow
<1>3. CASE LosePatience(j) \/ GrowOld(j)
  <2>1. Quiet
    BY <1>3 DEF LosePatience, GrowOld, Quiet
  <2> QED
    BY <2>1, QuietFlow
<1>4. CASE FinishLocal(j)
  <2>1. /\ j \in started /\ UNCHANGED <<call, attempts, queue, orphans, sent, reader, reply, roster>>
        /\ \E o \in {"ok", "failed"} : Resolve(j, o)
    BY <1>4 DEF FinishLocal
  <2>2. call[j] \notin {"idle", "enqueue"}
    BY <2>1 DEF Fresh
  <2> QED
    BY <2>1, <2>2, ResolveFlow
<1> QED
  BY <1>1, <1>2, <1>3, <1>4 DEF CallStep

LEMMA BeginFlow ==
  ASSUME FlowInv, NEW t \in Tasks, BeginPump(t) \/ PumpNothing(t)
  PROVE  Flow'
<1> USE DEF callVars, jobVars, connVars, loadVars
<1>1. CASE BeginPump(t)
  <2>1. Quiet
    BY <1>1 DEF BeginPump, Quiet
  <2> QED
    BY <2>1, QuietFlow
<1>2. CASE PumpNothing(t)
  <2>1. Quiet
    BY <1>2, FlowFacts, ReturnMoves DEF PumpNothing, Quiet
  <2> QED
    BY <2>1, QuietFlow
<1> QED
  BY <1>1, <1>2

LEMMA TransmitMoves ==
  ASSUME Typed, NEW w \in Workers, NEW j \in Jobs, Transmit(w, j)
  PROVE  /\ \A v \in Workers, k \in Jobs : v # w \/ k # j => sent'[v][k] = sent[v][k]
         /\ sent'[w][j] = sent[w][j] + (IF w \in lost THEN 0 ELSE 1)
<1>1. sent \in [Workers -> [Jobs -> Nat]]
  BY Types
<1>2. CASE w \in lost
  BY <1>1, <1>2 DEF Transmit
<1>3. CASE w \notin lost
  <2>1. sent' = [sent EXCEPT ![w][j] = @ + 1]
    BY <1>3 DEF Transmit
  <2> QED
    BY <1>1, <1>3, <2>1
<1> QED
  BY <1>2, <1>3

\* What pulling the i-th id tells of the job.
LEMMA Pulled ==
  ASSUME FlowInv, NEW w \in Workers, NEW i \in DOMAIN queue, Pulls(w, i)
  PROVE  /\ w \in Connected
         /\ queue[i] \in Jobs /\ queue[i] \in Range(queue)
         /\ IsInjective(RemoveAt(queue, i)) /\ RemoveAt(queue, i) \in Seq(Jobs)
         /\ Range(RemoveAt(queue, i)) = Range(queue) \ {queue[i]}
         /\ Fresh(queue[i]) /\ Waiting(queue[i]) /\ Tried(queue[i]) /\ Owed(queue[i])
         /\ call[queue[i]] \notin {"idle", "enqueue"}
<1>1. queue[i] \in Jobs /\ queue[i] \in Range(queue)
  BY FlowFacts, Types, LenProperties, ElementOfSeq DEF Range
<1>2. w \in Connected
  BY DEF Pulls, Draining, Cursor, Connected, Range
<1>3. RemoveAt(queue, i) \in Seq(Jobs)
  BY FlowFacts, Types, RemoveAtType
<1>4. Fresh(queue[i]) /\ Waiting(queue[i]) /\ Tried(queue[i]) /\ Owed(queue[i])
  BY <1>1, FlowFacts
<1>5. call[queue[i]] \notin {"idle", "enqueue"}
  BY <1>1, <1>4 DEF Fresh
<1> QED
  BY <1>1, <1>2, <1>3, <1>4, <1>5, FlowFacts, Types, RemoveAtOnce

\* The pulled job is handed to h, or is back at the head with nobody.
LEMMA AssignFlow ==
  ASSUME FlowInv, NEW w \in Workers, NEW i \in DOMAIN queue, NEW j \in Jobs, Assign(w, i, j),
         NEW h \in Workers \cup {None}, assignee' = [assignee EXCEPT ![j] = h],
         IsInjective(queue'),
         \/ Range(queue') = Range(queue) \ {j}
         \/ Range(queue') = Range(queue) /\ h = None /\ j \notin started',
         \A k \in Jobs \ {j} : k \in started' => k \in started,
         \A v \in Workers, k \in Jobs : v # w \/ k # j => sent'[v][k] = sent[v][k],
         UNCHANGED <<call, outcome, table, orphans, reader, reply, roster>>
  PROVE  Flow'
<1>1. /\ w \in Connected /\ j \in Range(queue) /\ j = queue[i] /\ j \in table
      /\ call[j] \notin {"idle", "enqueue"}
      /\ \A v \in Workers : j \notin orphans[v]
  BY Pulled DEF Assign, Waiting
<1>2. /\ \A k \in Jobs \ {j} : assignee'[k] = assignee[k] /\ attempts'[k] = attempts[k]
      /\ assignee'[j] = h /\ attempts'[j] = attempts[j] + 1 /\ attempts[j] \in Nat
  BY FlowFacts, Types DEF Assign
<1>3. ASSUME NEW k \in Jobs PROVE Fresh(k)' /\ Waiting(k)' /\ Owed(k)'
  BY <1>1, <1>2, FlowFacts DEF Fresh, Waiting, Owed
<1>4. ASSUME NEW k \in Jobs PROVE Tried(k)'
  BY <1>2, FlowFacts DEF Tried
<1>5. ASSUME NEW v \in Workers PROVE Away(v)'
  BY <1>1, FlowFacts DEF Away, Connected
<1> QED
  BY <1>3, <1>4, <1>5, FlowFacts DEF Flow, JobFlow

LEMMA PullFlow ==
  ASSUME FlowInv, NEW w \in Workers, NEW i \in DOMAIN queue,
         \/ PullGone(w, i) \/ GiveUp(w, i)
         \/ \E j \in Jobs : DispatchRun(w, i, j) \/ SendFails(w, i, j)
  PROVE  Flow'
<1> USE DEF callVars, jobVars, connVars, loadVars
<1>1. CASE PullGone(w, i)
  <2>1. /\ Pulls(w, i) /\ queue' = RemoveAt(queue, i)
        /\ UNCHANGED <<call, outcome, table, assignee, attempts, started, orphans, sent, reader,
                       reply, roster>>
    BY <1>1 DEF PullGone
  <2>2. IsInjective(queue') /\ Range(queue') \subseteq Range(queue)
    BY <2>1, Pulled
  <2>3. ASSUME NEW k \in Jobs PROVE JobFlow(k)'
    BY <2>1, <2>2, FlowFacts DEF JobFlow, Fresh, Waiting, Tried, Owed
  <2>4. ASSUME NEW v \in Workers PROVE Away(v)'
    BY <2>1, FlowFacts DEF Away, Connected
  <2> QED
    BY <2>1, <2>2, <2>3, <2>4, FlowFacts DEF Flow
<1>2. CASE GiveUp(w, i)
  <2>1. /\ Pulls(w, i) /\ Resolve(queue[i], "gaveup") /\ queue' = RemoveAt(queue, i)
        /\ UNCHANGED <<call, attempts, orphans, sent, reader, reply, roster>>
    BY <1>2 DEF GiveUp
  <2> QED
    BY <2>1, Pulled, ResolveFlow
<1>3. ASSUME NEW j \in Jobs, DispatchRun(w, i, j) PROVE Flow'
  <2>1. /\ Assign(w, i, j) /\ Transmit(w, j) /\ queue' = RemoveAt(queue, i)
        /\ assignee' = [assignee EXCEPT ![j] = w] /\ started' = started \cup {j}
        /\ UNCHANGED <<call, outcome, table, orphans, reader, reply, roster>>
    BY <1>3 DEF DispatchRun
  <2>2. IsInjective(queue') /\ Range(queue') = Range(queue) \ {j}
    BY <2>1, Pulled DEF Assign
  <2>3. \A v \in Workers, k \in Jobs : v # w \/ k # j => sent'[v][k] = sent[v][k]
    BY <2>1, FlowFacts, TransmitMoves
  <2> QED
    BY <2>1, <2>2, <2>3, AssignFlow
<1>4. ASSUME NEW j \in Jobs, SendFails(w, i, j) PROVE Flow'
  <2>1. /\ Assign(w, i, j) /\ queue' = <<j>> \o RemoveAt(queue, i)
        /\ assignee' = [assignee EXCEPT ![j] = None] /\ started' = started \ {j}
        /\ UNCHANGED <<call, outcome, table, orphans, sent, reader, reply, roster>>
    BY <1>4 DEF SendFails
  <2>2. /\ IsInjective(RemoveAt(queue, i)) /\ RemoveAt(queue, i) \in Seq(Jobs)
        /\ Range(RemoveAt(queue, i)) = Range(queue) \ {j} /\ j \in Range(queue)
    BY <2>1, Pulled DEF Assign
  <2>3. IsInjective(queue') /\ Range(queue') = Range(queue)
    <3> DEFINE s == <<j>>
               t == RemoveAt(queue, i)
    <3>1. s \in Seq(Jobs) /\ IsInjective(s) /\ Range(s) = {j}
      BY SingleOnce
    <3> HIDE DEF s, t
    <3>2. IsInjective(s \o t) /\ Range(s \o t) = Range(s) \cup Range(t)
      <4>1. t \in Seq(Jobs) /\ IsInjective(t) /\ Range(s) \cap Range(t) = {}
        BY <2>2, <3>1 DEF t
      <4> QED
        BY <3>1, <4>1, ConcatOnce
    <3>3. queue' = s \o t
      BY <2>1 DEF s, t
    <3> QED
      BY <2>2, <3>1, <3>2, <3>3 DEF t
  <2> QED
    BY <2>1, <2>3, AssignFlow
<1> QED
  BY <1>1, <1>2, <1>3, <1>4

LEMMA PumpFlow ==
  ASSUME FlowInv, PumpStep
  PROVE  Flow'
<1> USE DEF callVars, jobVars, connVars, loadVars
<1>1. CASE RunLocally
  <2>1. PICK i \in DOMAIN queue :
           /\ queue' = RemoveAt(queue, i)
           /\ IF queue[i] \in table
                THEN /\ attempts' = [attempts EXCEPT ![queue[i]] = @ + 1]
                     /\ started' = started \cup {queue[i]}
                ELSE UNCHANGED <<attempts, started>>
    BY <1>1 DEF RunLocally
  <2>2. UNCHANGED <<call, outcome, table, assignee, orphans, sent, reader, reply, roster>>
    BY <1>1 DEF RunLocally
  <2> DEFINE j == queue[i]
  <2>3. j \in Jobs /\ j \in Range(queue)
    BY FlowFacts, Types, LenProperties, ElementOfSeq DEF Range
  <2>4. IsInjective(queue') /\ Range(queue') = Range(queue) \ {j}
    BY <2>1, FlowFacts, Types, RemoveAtOnce
  <2>5. \/ j \in table /\ attempts' = [attempts EXCEPT ![j] = @ + 1] /\ started' = started \cup {j}
        \/ j \notin table /\ UNCHANGED <<attempts, started>>
    BY <2>1
  <2> HIDE DEF j
  <2>6. /\ \A k \in Jobs \ {j} : attempts'[k] = attempts[k]
        /\ attempts[j] > 0 => attempts'[j] > 0
        /\ j \in started' => attempts'[j] > 0 \/ j \in started
        /\ \A k \in Jobs \ {j} : k \in started' <=> k \in started
    BY <2>3, <2>5, FlowFacts, Types
  <2>7. ASSUME NEW k \in Jobs PROVE Fresh(k)' /\ Waiting(k)' /\ Owed(k)'
    BY <2>2, <2>3, <2>4, <2>6, FlowFacts DEF Fresh, Waiting, Owed
  <2>8. ASSUME NEW k \in Jobs PROVE Tried(k)'
    BY <2>2, <2>3, <2>5, <2>6, FlowFacts, Types DEF Tried
  <2>9. ASSUME NEW v \in Workers PROVE Away(v)'
    BY <2>2, FlowFacts DEF Away, Connected
  <2> QED
    BY <2>2, <2>4, <2>7, <2>8, <2>9, FlowFacts DEF Flow, JobFlow
<1>2. CASE EndLocal \/ EndRound \/ EndPump
  <2>1. \/ pump.by # None /\ Return(pump.by)
        \/ UNCHANGED <<call, reader>>
    BY <1>2 DEF EndLocal, EndRound, EndPump
  <2>2. pump.by # None => pump.by \in Tasks /\ Wants(pump.by)
    BY FlowFacts, Types DEF Turns, PumperWaits
  <2>3. UNCHANGED <<outcome, table, assignee, attempts, started, queue, orphans, sent, reply, roster>>
    BY <1>2 DEF EndLocal, EndRound, EndPump
  <2>4. Quiet
    BY <2>1, <2>2, <2>3, FlowFacts, ReturnMoves DEF Quiet
  <2> QED
    BY <2>4, QuietFlow
<1>3. ASSUME NextWorker \/ (\E w \in Workers : BusyWorker(w)) PROVE Flow'
  <2>1. Quiet
    BY <1>3 DEF NextWorker, BusyWorker, Quiet
  <2> QED
    BY <2>1, QuietFlow
<1>4. ASSUME NEW w \in Workers, Speculate(w) PROVE Flow'
  <2>1. PICK j \in Stragglers(w) : Transmit(w, j)
    BY <1>4 DEF Speculate
  <2>2. /\ UNCHANGED <<call, outcome, table, assignee, attempts, started, queue, orphans, reader,
                       reply, roster>>
        /\ w \in Connected
    BY <1>4 DEF Speculate, Speculating, Cursor, Connected, Range
  <2>3. j \in Jobs /\ j \in started
    BY FlowFacts, Types DEF Stragglers
  <2>4. \A v \in Workers, k \in Jobs : v # w \/ k # j => sent'[v][k] = sent[v][k]
    BY <2>1, <2>3, FlowFacts, TransmitMoves
  <2>5. attempts[j] > 0
    BY <2>3, FlowFacts DEF Tried
  <2>6. ASSUME NEW k \in Jobs PROVE JobFlow(k)'
    BY <2>2, <2>4, <2>5, FlowFacts DEF JobFlow, Fresh, Waiting, Tried, Owed
  <2>7. ASSUME NEW v \in Workers PROVE Away(v)'
    BY <2>2, <2>4, FlowFacts DEF Away, Connected
  <2> QED
    BY <2>2, <2>6, <2>7, FlowFacts DEF Flow
<1> QED
  BY <1>1, <1>2, <1>3, <1>4, PullFlow DEF PumpStep

LEMMA ConnFlow ==
  ASSUME FlowInv, NEW w \in Workers, ConnStep(w)
  PROVE  Flow'
<1> USE DEF callVars, jobVars, connVars, loadVars
<1>0. /\ \A j \in Jobs : Fresh(j) /\ Waiting(j) /\ Tried(j) /\ Owed(j)
      /\ \A v \in Workers : Away(v)
      /\ IsInjective(queue) /\ IsInjective(roster) /\ Typed
  BY FlowFacts
<1>1. CASE Join(w)
  <2>1. /\ reader[w] = "out" /\ reader' = [reader EXCEPT ![w] = "join"]
        /\ roster' = Append(roster, w)
        /\ UNCHANGED <<call, outcome, table, assignee, attempts, started, queue, orphans, sent, reply>>
    BY <1>1 DEF Join
  <2>2. reader'[w] = "join" /\ \A v \in Workers \ {w} : reader'[v] = reader[v]
    BY <1>0, <2>1, Types
  <2>3. IsInjective(roster') /\ Connected' = Connected \cup {w}
    BY <1>0, <2>1, Types, AppendOnce DEF Away, Connected
  <2>4. ASSUME NEW k \in Jobs PROVE JobFlow(k)'
    BY <1>0, <2>1, <2>2 DEF JobFlow, Fresh, Waiting, Tried, Owed
  <2>5. ASSUME NEW v \in Workers PROVE Away(v)'
    BY <1>0, <2>1, <2>2, <2>3 DEF Away
  <2> QED
    BY <1>0, <2>1, <2>3, <2>4, <2>5 DEF Flow
<1>2. CASE ConnLost(w) \/ WriterFails(w)
  <2>1. Quiet
    BY <1>2 DEF ConnLost, WriterFails, Quiet
  <2> QED
    BY <2>1, QuietFlow
<1>3. CASE Recv(w)
  <2>1. PICK j \in Jobs, o \in {"ok", "failed"} :
           /\ sent[w][j] > 0
           /\ sent' = [sent EXCEPT ![w][j] = @ - 1]
           /\ reply' = [reply EXCEPT ![w] = [job |-> j, out |-> o]]
    BY <1>3 DEF Recv
  <2>2. /\ reader[w] = "read" /\ reader' = [reader EXCEPT ![w] = "settle"]
        /\ UNCHANGED <<call, outcome, table, assignee, attempts, started, queue, orphans, roster>>
    BY <1>3 DEF Recv
  <2>3. /\ \A v \in Workers, k \in Jobs : v # w \/ k # j => sent'[v][k] = sent[v][k]
        /\ \A v \in Workers \ {w} : reader'[v] = reader[v] /\ reply'[v] = reply[v]
        /\ reader'[w] = "settle" /\ reply'[w].job = j
    BY <1>0, <2>1, <2>2, Types
  <2>4. attempts[j] > 0
    BY <1>0, <2>1 DEF Tried
  <2>5. ASSUME NEW k \in Jobs PROVE JobFlow(k)'
    BY <1>0, <2>2, <2>3, <2>4 DEF JobFlow, Fresh, Waiting, Tried, Owed
  <2>6. ASSUME NEW v \in Workers PROVE Away(v)'
    BY <1>0, <2>2, <2>3 DEF Away, Connected
  <2> QED
    BY <1>0, <2>2, <2>5, <2>6 DEF Flow
<1>4. CASE Settle(w)
  <2>1. /\ reader[w] = "settle" /\ reader' = [reader EXCEPT ![w] = "pump"]
        /\ reply' = [reply EXCEPT ![w] = None]
        /\ UNCHANGED <<call, attempts, queue, orphans, sent, roster>>
    BY <1>4 DEF Settle
  <2>2. /\ \A v \in Workers \ {w} : reader'[v] = reader[v] /\ reply'[v] = reply[v]
        /\ reader'[w] = "pump"
    BY <1>0, <2>1, Types
  <2>3. CASE reply[w].job \in table
    <3>1. Resolve(reply[w].job, reply[w].out)
      BY <1>4, <2>3 DEF Settle
    <3>2. reply[w].job \in Jobs
      BY <1>0, <2>3, Types
    <3>3. attempts[reply[w].job] > 0
      BY <1>0, <2>1, <3>2 DEF Tried
    <3>4. call[reply[w].job] \notin {"idle", "enqueue"}
      BY <1>0, <3>2, <3>3 DEF Fresh
    <3> QED
      BY <1>0, <2>1, <2>2, <3>1, <3>2, <3>4, ResolveFlow
  <2>4. CASE reply[w].job \notin table
    <3>1. UNCHANGED <<outcome, table, assignee, started>>
      BY <1>4, <2>4 DEF Settle
    <3>2. ASSUME NEW k \in Jobs PROVE JobFlow(k)'
      BY <1>0, <2>1, <2>2, <3>1 DEF JobFlow, Fresh, Waiting, Tried, Owed
    <3>3. ASSUME NEW v \in Workers PROVE Away(v)'
      BY <1>0, <2>1, <2>2 DEF Away, Connected
    <3> QED
      BY <1>0, <2>1, <3>2, <3>3 DEF Flow
  <2> QED
    BY <2>3, <2>4
<1>5. CASE Retain(w)
  <2>1. /\ reader[w] = "read" /\ reader' = [reader EXCEPT ![w] = "collect"]
        /\ sent' = [sent EXCEPT ![w] = [j \in Jobs |-> 0]]
        /\ UNCHANGED <<call, outcome, table, assignee, attempts, started, queue, orphans, reply>>
    BY <1>5 DEF Retain
  <2>2. PICK i \in DOMAIN roster : roster[i] = w /\ roster' = RemoveAt(roster, i)
    BY <1>5 DEF Retain
  <2>3. IsInjective(roster') /\ Connected' = Connected \ {w}
    BY <1>0, <2>2, Types, RemoveAtOnce DEF Connected
  <2>4. /\ \A v \in Workers \ {w} : reader'[v] = reader[v] /\ sent'[v] = sent[v]
        /\ reader'[w] = "collect" /\ \A j \in Jobs : sent'[w][j] = 0
    BY <1>0, <2>1, Types
  <2>5. ASSUME NEW k \in Jobs PROVE JobFlow(k)'
    BY <1>0, <2>1, <2>4 DEF JobFlow, Fresh, Waiting, Tried, Owed
  <2>6. ASSUME NEW v \in Workers PROVE Away(v)'
    BY <1>0, <2>3, <2>4 DEF Away
  <2> QED
    BY <1>0, <2>1, <2>3, <2>5, <2>6 DEF Flow
<1>6. CASE Collect(w)
  <2> DEFINE owed == {j \in table : assignee[j] = w}
             next == IF owed = {} THEN "gone" ELSE "requeue"
  <2>1. /\ reader[w] = "collect" /\ reader' = [reader EXCEPT ![w] = next]
        /\ orphans' = [orphans EXCEPT ![w] = owed]
        /\ UNCHANGED <<call, outcome, table, assignee, attempts, started, queue, sent, reply, roster>>
    BY <1>6 DEF Collect
  <2>2. /\ \A v \in Workers \ {w} : reader'[v] = reader[v] /\ orphans'[v] = orphans[v]
        /\ reader'[w] \in {"gone", "requeue"}
        /\ orphans'[w] = owed
    BY <1>0, <2>1, Types
  <2>3. w # None
    BY NamesAssumption
  <2>4. ASSUME NEW k \in Jobs PROVE JobFlow(k)'
    BY <1>0, <2>1, <2>2, <2>3 DEF JobFlow, Fresh, Waiting, Tried, Owed
  <2>5. ASSUME NEW v \in Workers PROVE Away(v)'
    BY <1>0, <2>1, <2>2 DEF Away, Connected
  <2> QED
    BY <1>0, <2>1, <2>4, <2>5 DEF Flow
<1>7. CASE Requeue(w)
  <2> DEFINE back == orphans[w] \cap table
  <2>1. /\ reader[w] = "requeue" /\ reader' = [reader EXCEPT ![w] = "lastpump"]
        /\ orphans' = [orphans EXCEPT ![w] = {}]
        /\ assignee' = [j \in Jobs |-> IF j \in back THEN None ELSE assignee[j]]
        /\ started' = started \ back
        /\ UNCHANGED <<call, outcome, table, attempts, sent, reply, roster>>
    BY <1>7 DEF Requeue
  <2>2. PICK s \in SetToSeqs(back) : queue' = s \o queue
    BY <1>7 DEF Requeue
  <2>3. back \in SUBSET Jobs
    BY <1>0, Types
  <2>4. s \in Seq(Jobs) /\ IsInjective(s) /\ Range(s) = back
    BY <2>3, OrderingOnce
  <2>5. back \cap Range(queue) = {}
    BY <1>0, <2>3 DEF Waiting
  <2>6. IsInjective(queue') /\ Range(queue') = back \cup Range(queue)
    BY <1>0, <2>2, <2>4, <2>5, Types, ConcatOnce
  <2>7. /\ \A v \in Workers \ {w} : reader'[v] = reader[v] /\ orphans'[v] = orphans[v]
        /\ reader'[w] = "lastpump" /\ orphans'[w] = {}
    BY <1>0, <2>1, Types
  <2>8. ASSUME NEW v \in Workers, NEW j \in back, j \in orphans[v] PROVE v = w
    BY <1>0, <2>3, <2>8 DEF Owed
  <2>9. ASSUME NEW k \in Jobs PROVE JobFlow(k)'
    <3>1. CASE k \in back
      BY <1>0, <2>1, <2>6, <2>7, <2>8, <3>1 DEF JobFlow, Fresh, Waiting, Tried, Owed
    <3>2. CASE k \notin back
      BY <1>0, <2>1, <2>6, <2>7, <3>2 DEF JobFlow, Fresh, Waiting, Tried, Owed
    <3> QED
      BY <3>1, <3>2
  <2>10. ASSUME NEW v \in Workers PROVE Away(v)'
    BY <1>0, <2>1, <2>7 DEF Away, Connected
  <2> QED
    BY <1>0, <2>1, <2>6, <2>9, <2>10 DEF Flow
<1> QED
  BY <1>1, <1>2, <1>3, <1>4, <1>5, <1>6, <1>7 DEF ConnStep

LEMMA FlowInit == Init => FlowInv
<1> SUFFICES ASSUME Init PROVE FlowInv
  OBVIOUS
<1>1. /\ TwinInv /\ PumperWaits
  BY TwinInit DEF Init, Idle, PumperWaits
<1>2. Range(queue) = {} /\ Connected = {} /\ IsInjective(queue) /\ IsInjective(roster)
  BY DEF Init, Connected, Range, IsInjective
<1>3. ASSUME NEW j \in Jobs PROVE JobFlow(j)
  BY <1>2 DEF Init, JobFlow, Fresh, Waiting, Tried, Owed
<1>4. ASSUME NEW w \in Workers PROVE Away(w)
  BY <1>2 DEF Init, Away
<1> QED
  BY <1>1, <1>2, <1>3, <1>4 DEF FlowInv, Flow

LEMMA FlowStep == FlowInv /\ [Next]_vars => FlowInv'
<1> SUFFICES ASSUME FlowInv, [Next]_vars PROVE FlowInv'
  OBVIOUS
<1>1. TwinInv' /\ PumperWaits'
  BY TwinStep, WaitsStep DEF FlowInv, TwinInv
<1>2. CASE UNCHANGED vars
  <2>1. Quiet
    BY <1>2 DEF vars, Quiet
  <2> QED
    BY <1>1, <2>1, QuietFlow DEF FlowInv
<1>3. CASE Next
  BY <1>1, <1>3, CallFlow, BeginFlow, PumpFlow, ConnFlow DEF Next, FlowInv
<1> QED
  BY <1>2, <1>3

-----------------------------------------------------------------------------
(* The scheduler implements the queue.                                     *)

Still == UNCHANGED <<outcome, table, attempts, assignee, roster>>

LEMMA StillStutters == Still => UNCHANGED Promise!vars
BY DEF Still, Promise!vars, Connected

\* Resolving a job that was handed out is an answer.
LEMMA ResolveAnswers ==
  ASSUME NEW j \in table, NEW o \in {"ok", "failed", "gaveup"}, Resolve(j, o), j \in Jobs,
         IF o = "gaveup" THEN attempts[j] >= MaxAttempts ELSE attempts[j] > 0,
         UNCHANGED <<attempts, roster>>
  PROVE  Promise!Next
<1>1. Promise!Answer(j, o)
  BY DEF Promise!Answer, Resolve, Connected
<1> QED
  BY <1>1 DEF Promise!Next

\* Handing a job to w: nobody else who is connected has one of its group.
LEMMA DispatchHandsOut ==
  ASSUME FlowInv, NEW w \in Workers, NEW i \in DOMAIN queue, NEW j \in Jobs, DispatchRun(w, i, j)
  PROVE  Promise!Next
<1>1. /\ Assign(w, i, j) /\ assignee' = [assignee EXCEPT ![j] = w]
      /\ UNCHANGED <<outcome, table, roster>>
  BY DEF DispatchRun, callVars, connVars
<1>2. /\ w \in Connected /\ j \in Range(queue) /\ j \in table /\ assignee[j] = None
      /\ attempts[j] < MaxAttempts /\ attempts' = [attempts EXCEPT ![j] = @ + 1]
  BY <1>1, Pulled DEF Assign, Waiting
<1>3. Pinned(j) => owner[Affinity(j)] \in {None, w} \/ owner[Affinity(j)] \notin Connected
  BY <1>1 DEF Assign, Pulls, Places, Takeable
<1>4. None \notin Connected
  BY FlowFacts, Types, NamesAssumption
<1>5. Promise!Exclusive(j, w)
  <2> SUFFICES ASSUME Pinned(j), NEW k \in table, Pinned(k), Affinity(k) = Affinity(j)
               PROVE  assignee[k] \notin Connected \ {w}
    BY FlowFacts, Types DEF Promise!Exclusive
  <2>1. k \in Jobs
    BY FlowFacts, Types
  <2>2. assignee[k] \in Connected => owner[Affinity(j)] = assignee[k]
    BY <2>1, FlowFacts DEF HolderOwns
  <2> QED
    BY <1>3, <1>4, <2>2
<1>6. Promise!HandOut(j, w)
  BY <1>1, <1>2, <1>5 DEF Promise!HandOut, Connected
<1> QED
  BY <1>6 DEF Promise!Next

\* An attempt that reaches nobody.
LEMMA AttemptOfNobody ==
  ASSUME FlowInv, NEW j \in table, assignee[j] = None,
         attempts' = [attempts EXCEPT ![j] = @ + 1], UNCHANGED <<outcome, table, assignee, roster>>
  PROVE  Promise!Next
<1>1. j \in Jobs /\ attempts \in [Jobs -> Nat]
  BY FlowFacts, Types
<1>2. attempts' = [k \in Jobs |-> attempts[k] + IF k \in {j} THEN 1 ELSE 0]
  <2> DEFINE more == [k \in Jobs |-> attempts[k] + IF k \in {j} THEN 1 ELSE 0]
  <2>1. \A k \in Jobs : attempts'[k] = more[k]
    BY <1>1
  <2>2. attempts' = [k \in Jobs |-> attempts'[k]]
    BY <1>1
  <2>3. more = [k \in Jobs |-> more[k]]
    OBVIOUS
  <2> HIDE DEF more
  <2>4. attempts' = more
    BY <2>1, <2>2, <2>3
  <2> QED
    BY <2>4 DEF more
<1>3. Promise!Attempt({j})
  BY <1>1, <1>2 DEF Promise!Attempt, Connected
<1> QED
  BY <1>1, <1>3 DEF Promise!Next

LEMMA PumpPromise ==
  ASSUME FlowInv, PumpStep
  PROVE  Promise!Next \/ UNCHANGED Promise!vars
<1> USE DEF callVars, jobVars, connVars, loadVars
<1>1. CASE RunLocally
  <2>1. PICK i \in DOMAIN queue :
           IF queue[i] \in table
             THEN attempts' = [attempts EXCEPT ![queue[i]] = @ + 1]
             ELSE attempts' = attempts
    BY <1>1 DEF RunLocally
  <2>2. UNCHANGED <<outcome, table, assignee, roster>>
    BY <1>1 DEF RunLocally
  <2>3. queue[i] \in Jobs /\ queue[i] \in Range(queue)
    BY FlowFacts, Types, LenProperties, ElementOfSeq DEF Range
  <2>4. CASE queue[i] \in table
    <3>1. assignee[queue[i]] = None
      BY <2>3, <2>4, FlowFacts DEF Waiting
    <3> QED
      BY <2>1, <2>2, <2>4, <3>1, AttemptOfNobody
  <2>5. CASE queue[i] \notin table
    BY <2>1, <2>2, <2>5, StillStutters DEF Still
  <2> QED
    BY <2>4, <2>5
<1>2. CASE EndLocal \/ EndRound \/ EndPump \/ NextWorker
  BY <1>2, StillStutters DEF EndLocal, EndRound, EndPump, NextWorker, Still
<1>3. ASSUME NEW w \in Workers, Speculate(w) \/ BusyWorker(w) PROVE UNCHANGED Promise!vars
  BY <1>3, StillStutters DEF Speculate, BusyWorker, Still
<1>4. ASSUME NEW w \in Workers, NEW i \in DOMAIN queue, PullGone(w, i)
      PROVE  UNCHANGED Promise!vars
  BY <1>4, StillStutters DEF PullGone, Still
<1>5. ASSUME NEW w \in Workers, NEW i \in DOMAIN queue, GiveUp(w, i)
      PROVE  Promise!Next
  <2>1. /\ queue[i] \in table /\ attempts[queue[i]] >= MaxAttempts
        /\ Resolve(queue[i], "gaveup") /\ UNCHANGED <<attempts, roster>>
    BY <1>5 DEF GiveUp
  <2>2. queue[i] \in Jobs
    BY <2>1, FlowFacts, Types
  <2> QED
    BY <2>1, <2>2, ResolveAnswers
<1>6. ASSUME NEW w \in Workers, NEW i \in DOMAIN queue, NEW j \in Jobs, SendFails(w, i, j)
      PROVE  Promise!Next
  <2>1. /\ Assign(w, i, j) /\ assignee' = [assignee EXCEPT ![j] = None]
        /\ UNCHANGED <<outcome, table, roster>>
    BY <1>6 DEF SendFails
  <2>2. j \in table /\ assignee[j] = None /\ attempts' = [attempts EXCEPT ![j] = @ + 1]
    BY <2>1, Pulled DEF Assign, Waiting
  <2>3. assignee' = assignee
    BY <2>1, <2>2, FlowFacts, Types
  <2> QED
    BY <2>1, <2>2, <2>3, AttemptOfNobody
<1> QED
  BY <1>1, <1>2, <1>3, <1>4, <1>5, <1>6, DispatchHandsOut DEF PumpStep

LEMMA ConnPromise ==
  ASSUME FlowInv, NEW w \in Workers, ConnStep(w)
  PROVE  Promise!Next \/ UNCHANGED Promise!vars
<1> USE DEF callVars, jobVars, connVars, loadVars
<1>1. CASE Join(w)
  <2>1. /\ reader[w] = "out" /\ roster' = Append(roster, w)
        /\ UNCHANGED <<outcome, table, attempts, assignee>>
    BY <1>1 DEF Join
  <2>2. w \notin Connected /\ \A j \in Jobs : assignee[j] # w
    BY <2>1, FlowFacts DEF StrangersHoldNothing
  <2>3. Connected' = Connected \cup {w}
    BY <2>1, FlowFacts, Types, AppendRange DEF Connected
  <2>4. Promise!Come(w)
    BY <2>1, <2>2, <2>3 DEF Promise!Come
  <2> QED
    BY <2>4 DEF Promise!Next
<1>2. CASE ConnLost(w) \/ WriterFails(w) \/ Recv(w) \/ Collect(w)
  BY <1>2, StillStutters DEF ConnLost, WriterFails, Recv, Collect, Still
<1>3. CASE Settle(w)
  <2>1. reader[w] = "settle" /\ UNCHANGED <<attempts, roster>>
    BY <1>3 DEF Settle
  <2>2. CASE reply[w].job \in table
    <3>1. Resolve(reply[w].job, reply[w].out)
      BY <1>3, <2>2 DEF Settle
    <3>2. reply[w].job \in Jobs
      BY <2>2, FlowFacts, Types
    <3>3. attempts[reply[w].job] > 0
      BY <2>1, <3>2, FlowFacts DEF Tried
    <3>4. reply[w].out \in {"ok", "failed"}
      BY <2>1, FlowFacts DEF Typed, ReplyHeld, Replies
    <3> QED
      BY <2>1, <2>2, <3>1, <3>2, <3>3, <3>4, ResolveAnswers
  <2>3. CASE reply[w].job \notin table
    BY <1>3, <2>3, StillStutters DEF Settle, Still
  <2> QED
    BY <2>2, <2>3
<1>4. CASE Retain(w)
  <2>1. PICK i \in DOMAIN roster : roster[i] = w /\ roster' = RemoveAt(roster, i)
    BY <1>4 DEF Retain
  <2>2. UNCHANGED <<outcome, table, attempts, assignee>>
    BY <1>4 DEF Retain
  <2>3. w \in Connected /\ Connected' = Connected \ {w}
    BY <2>1, FlowFacts, Types, RemoveAtOnce DEF Connected, Range
  <2>4. Promise!Leave(w)
    BY <2>2, <2>3 DEF Promise!Leave
  <2> QED
    BY <2>4 DEF Promise!Next
<1>5. CASE Requeue(w)
  <2> DEFINE back == orphans[w] \cap table
  <2>1. /\ reader[w] = "requeue"
        /\ assignee' = [j \in Jobs |-> IF j \in back THEN None ELSE assignee[j]]
        /\ UNCHANGED <<outcome, table, attempts, roster>>
    BY <1>5 DEF Requeue
  <2>2. back \in SUBSET Jobs
    BY FlowFacts, Types
  <2>3. \A j \in back : assignee[j] \notin Connected
    BY <2>1, <2>2, FlowFacts DEF Owed, Away
  <2>4. Promise!TakeBack(back)
    BY <2>1, <2>2, <2>3 DEF Promise!TakeBack, Connected
  <2> QED
    BY <2>2, <2>4 DEF Promise!Next
<1> QED
  BY <1>1, <1>2, <1>3, <1>4, <1>5 DEF ConnStep

LEMMA CallPromise ==
  ASSUME FlowInv, NEW j \in Jobs, CallStep(j)
  PROVE  Promise!Next \/ UNCHANGED Promise!vars
<1> USE DEF callVars, jobVars, connVars, loadVars
<1>1. CASE Insert(j)
  <2>1. /\ call[j] = "idle" /\ table' = table \cup {j}
        /\ UNCHANGED <<outcome, attempts, assignee, roster>>
    BY <1>1 DEF Insert
  <2>2. j \notin table /\ outcome[j] = None /\ attempts[j] = 0
    BY <2>1, FlowFacts DEF Fresh
  <2>3. Promise!Submit(j)
    BY <2>1, <2>2 DEF Promise!Submit, Connected
  <2> QED
    BY <2>3 DEF Promise!Next
<1>2. CASE Enqueue(j) \/ LosePatience(j) \/ GrowOld(j)
  BY <1>2, StillStutters DEF Enqueue, LosePatience, GrowOld, Still
<1>3. CASE FinishLocal(j)
  <2>1. /\ j \in started /\ UNCHANGED <<attempts, roster>>
        /\ \E o \in {"ok", "failed"} : Resolve(j, o)
    BY <1>3 DEF FinishLocal
  <2>2. j \in table /\ attempts[j] > 0
    BY <2>1, FlowFacts, Types DEF Tried
  <2> QED
    BY <2>1, <2>2, ResolveAnswers
<1> QED
  BY <1>1, <1>2, <1>3 DEF CallStep

LEMMA PromiseInit == Init => Promise!Init
<1>1. Init => Connected = {}
  BY DEF Init, Connected, Range
<1> QED
  BY <1>1 DEF Init, Promise!Init

LEMMA PromiseStep == FlowInv /\ [Next]_vars => [Promise!Next]_Promise!vars
<1> SUFFICES ASSUME FlowInv, [Next]_vars PROVE Promise!Next \/ UNCHANGED Promise!vars
  OBVIOUS
<1>1. CASE UNCHANGED vars
  BY <1>1, StillStutters DEF vars, Still
<1>2. ASSUME NEW t \in Tasks, BeginPump(t) \/ PumpNothing(t) PROVE UNCHANGED Promise!vars
  BY <1>2, StillStutters DEF BeginPump, PumpNothing, Still, jobVars, callVars, connVars
<1> QED
  BY <1>1, <1>2, CallPromise, PumpPromise, ConnPromise DEF Next

LEMMA FlowHolds == Spec => []FlowInv
BY FlowInit, FlowStep, PTL DEF Spec

\* The scheduler implements the queue that execute() promises: under one lock and
\* two critical sections, with lost workers, failed sends, races and requeueing,
\* every step is a submission, a handing out, an attempt, a taking back or an
\* answer of the queue, or none of its business.
THEOREM SchedulerImplementsQueue == Spec => ImplementsWorkQueue
<1> QED
  BY PromiseInit, PromiseStep, FlowHolds, PTL DEF Spec, ImplementsWorkQueue, Promise!Spec

-----------------------------------------------------------------------------
(* Answers are final.                                                      *)

AnswersStay ==
  \A j \in Jobs : outcome[j] # None =>
    outcome'[j] = outcome[j] /\ sends'[j] = sends[j] /\ j \notin table'

LEMMA AnswersStep == FlowInv /\ [Next]_vars => [AnswersStay]_vars
<1> SUFFICES ASSUME FlowInv, Next, NEW j \in Jobs, outcome[j] # None
             PROVE  outcome'[j] = outcome[j] /\ sends'[j] = sends[j] /\ j \notin table'
  BY DEF AnswersStay
<1> USE DEF callVars, jobVars, connVars, loadVars
<1>1. j \notin table /\ call[j] # "idle"
  BY FlowFacts DEF Owed, Fresh
<1>2. ASSUME NEW k \in table, NEW o, Resolve(k, o), sends' = sends
      PROVE  outcome'[j] = outcome[j] /\ sends'[j] = sends[j] /\ j \notin table'
  BY <1>1, <1>2, FlowFacts, Types DEF Resolve
<1>3. ASSUME NEW k \in Jobs, CallStep(k)
      PROVE  outcome'[j] = outcome[j] /\ sends'[j] = sends[j] /\ j \notin table'
  <2>1. CASE FinishLocal(k)
    <3>1. k \in table
      BY <2>1, FlowFacts, Types DEF FinishLocal
    <3> QED
      BY <1>2, <2>1, <3>1 DEF FinishLocal
  <2>2. CASE ~FinishLocal(k)
    BY <1>1, <1>3, <2>2 DEF CallStep, Insert, Enqueue, LosePatience, GrowOld
  <2> QED
    BY <2>1, <2>2
<1>4. ASSUME NEW t \in Tasks, BeginPump(t) \/ PumpNothing(t)
      PROVE  outcome'[j] = outcome[j] /\ sends'[j] = sends[j] /\ j \notin table'
  BY <1>1, <1>4 DEF BeginPump, PumpNothing
<1>5. ASSUME NEW w \in Workers, NEW i \in DOMAIN queue, PullGone(w, i) \/ GiveUp(w, i)
      PROVE  outcome'[j] = outcome[j] /\ sends'[j] = sends[j] /\ j \notin table'
  BY <1>1, <1>2, <1>5 DEF PullGone, GiveUp
<1>6. ASSUME NEW w \in Workers, NEW i \in DOMAIN queue, NEW k \in Jobs,
             DispatchRun(w, i, k) \/ SendFails(w, i, k)
      PROVE  outcome'[j] = outcome[j] /\ sends'[j] = sends[j] /\ j \notin table'
  <2>1. k # j
    BY <1>1, <1>6 DEF DispatchRun, SendFails, Assign
  <2> QED
    BY <1>1, <1>6, <2>1, FlowFacts, Types DEF DispatchRun, SendFails
<1>7. ASSUME RunLocally \/ EndLocal \/ NextWorker \/ EndRound \/ EndPump
      PROVE  outcome'[j] = outcome[j] /\ sends'[j] = sends[j] /\ j \notin table'
  BY <1>1, <1>7 DEF RunLocally, EndLocal, NextWorker, EndRound, EndPump
<1>8. ASSUME NEW w \in Workers, Speculate(w) \/ BusyWorker(w)
      PROVE  outcome'[j] = outcome[j] /\ sends'[j] = sends[j] /\ j \notin table'
  BY <1>1, <1>8 DEF Speculate, BusyWorker
<1>9. ASSUME NEW w \in Workers, ConnStep(w)
      PROVE  outcome'[j] = outcome[j] /\ sends'[j] = sends[j] /\ j \notin table'
  <2>1. CASE Settle(w)
    BY <1>1, <1>2, <2>1 DEF Settle
  <2>2. CASE ~Settle(w)
    BY <1>1, <1>9, <2>2
       DEF ConnStep, Join, ConnLost, WriterFails, Recv, Retain, Collect, Requeue
  <2> QED
    BY <2>1, <2>2
<1> QED
  BY <1>3, <1>4, <1>5, <1>6, <1>7, <1>8, <1>9 DEF Next, PumpStep

\* Once a job is answered the answer stays and no worker is sent the job again,
\* however late another worker's reply comes, and whoever requeues what.
THEOREM AnswersAreFinal == Spec => AnsweredJobsStayAnswered
<1>1. FlowInv /\ [Next]_vars =>
        [\A j \in Jobs : outcome[j] # None =>
           outcome'[j] = outcome[j] /\ sends'[j] = sends[j] /\ j \notin table']_vars
  BY AnswersStep DEF AnswersStay
<1> QED
  BY <1>1, FlowHolds, PTL DEF Spec, AnsweredJobsStayAnswered

-----------------------------------------------------------------------------
(* No job is lost, none is in two places.                                  *)

\* Worker w will still answer j, or its reader will hand j back.
Owes(w, j) ==
  \/ w \in Connected /\ w \in lost
  \/ sent[w][j] > 0
  \/ reader[w] = "settle" /\ reply[w].job = j
  \/ reader[w] = "collect"
  \/ reader[w] = "requeue" /\ j \in orphans[w]

Kept(j) ==
  j \in table =>
    \/ call[j] = "enqueue"
    \/ j \in Range(queue)
    \/ assignee[j] = None /\ j \in started
    \/ \E w \in Workers : assignee[j] = w /\ Owes(w, j)

\* Frames of a pinned job are with its assignee only.
PinnedAlone(j) ==
  j \in table /\ Pinned(j) =>
    \A w \in Connected : sent[w][j] > 0 => assignee[j] = w /\ sent[w][j] = 1

Placed == \A j \in Jobs : Kept(j) /\ PinnedAlone(j)

PlaceInv == FlowInv /\ Placed

LEMMA QuietPlaced ==
  ASSUME PlaceInv, Quiet, lost \subseteq lost'
  PROVE  Placed'
<1> USE FlowFacts, Types DEF PlaceInv, Placed, Quiet
<1>1. ASSUME NEW j \in Jobs PROVE PinnedAlone(j)'
  BY DEF PinnedAlone, Connected, Pinned
<1>2. ASSUME NEW w \in Workers, NEW j \in Jobs, Owes(w, j) PROVE Owes(w, j)'
  BY <1>2 DEF Owes, Connected
<1>3. ASSUME NEW j \in Jobs PROVE Kept(j)'
  <2>1. Kept(j)
    OBVIOUS
  <2> QED
    BY <1>2, <2>1 DEF Kept
<1> QED
  BY <1>1, <1>3

LEMMA ResolvePlaced ==
  ASSUME PlaceInv, NEW j \in Jobs, NEW o, Resolve(j, o),
         Range(queue) \subseteq Range(queue') \cup {j},
         UNCHANGED <<call, orphans, sent, roster, lost>>,
         \A w \in Workers : \/ reader'[w] = reader[w] /\ reply'[w] = reply[w]
                            \/ reader[w] = "settle" /\ reply[w].job = j
  PROVE  Placed'
<1> USE DEF PlaceInv, Placed
<1>1. /\ table' = table \ {j} /\ started' = started \ {j}
      /\ \A k \in Jobs \ {j} : outcome'[k] = outcome[k] /\ assignee'[k] = assignee[k]
  BY FlowFacts, Types DEF Resolve
<1>2. ASSUME NEW k \in Jobs PROVE PinnedAlone(k)'
  BY <1>1 DEF PinnedAlone, Connected, Pinned
<1>3. ASSUME NEW k \in Jobs PROVE Kept(k)'
  BY <1>1 DEF Kept, Owes, Connected
<1> QED
  BY <1>2, <1>3

LEMMA CallPlaced ==
  ASSUME PlaceInv, NEW j \in Jobs, CallStep(j)
  PROVE  Placed'
<1> USE DEF PlaceInv, callVars, jobVars, connVars, loadVars
<1>1. CASE Insert(j)
  <2>1. /\ call[j] = "idle" /\ call' = [call EXCEPT ![j] = "enqueue"] /\ table' = table \cup {j}
        /\ UNCHANGED <<assignee, started, queue, orphans, sent, reader, reply, roster, lost>>
    BY <1>1 DEF Insert
  <2>2. call'[j] = "enqueue" /\ \A k \in Jobs \ {j} : call'[k] = call[k]
    BY <2>1, FlowFacts, Types
  <2>3. \A w \in Workers : sent[w][j] = 0
    BY <2>1, FlowFacts DEF Fresh, Tried
  <2>4. Connected \subseteq Workers
    BY FlowFacts, Types
  <2>5. ASSUME NEW k \in Jobs PROVE PinnedAlone(k)'
    BY <2>1, <2>3, <2>4 DEF Placed, PinnedAlone, Connected, Pinned
  <2>6. ASSUME NEW k \in Jobs PROVE Kept(k)'
    BY <2>1, <2>2 DEF Placed, Kept, Owes, Connected
  <2> QED
    BY <2>5, <2>6 DEF Placed
<1>2. CASE Enqueue(j)
  <2>1. /\ call[j] = "enqueue" /\ call' = [call EXCEPT ![j] = "pump"] /\ queue' = Append(queue, j)
        /\ UNCHANGED <<table, assignee, started, orphans, sent, reader, reply, roster, lost>>
    BY <1>2 DEF Enqueue
  <2>2. \A k \in Jobs \ {j} : call'[k] = call[k]
    BY <2>1, FlowFacts, Types
  <2>3. Range(queue') = Range(queue) \cup {j}
    BY <2>1, FlowFacts, Types, AppendRange
  <2>4. ASSUME NEW k \in Jobs PROVE PinnedAlone(k)'
    BY <2>1 DEF Placed, PinnedAlone, Connected, Pinned
  <2>5. ASSUME NEW k \in Jobs PROVE Kept(k)'
    BY <2>1, <2>2, <2>3 DEF Placed, Kept, Owes, Connected
  <2> QED
    BY <2>4, <2>5 DEF Placed
<1>3. CASE LosePatience(j) \/ GrowOld(j)
  <2>1. Quiet /\ lost' = lost
    BY <1>3 DEF LosePatience, GrowOld, Quiet
  <2> QED
    BY <2>1, QuietPlaced
<1>4. CASE FinishLocal(j)
  BY <1>4, ResolvePlaced DEF FinishLocal
<1> QED
  BY <1>1, <1>2, <1>3, <1>4 DEF CallStep

LEMMA PullPlaced ==
  ASSUME PlaceInv, NEW w \in Workers, NEW i \in DOMAIN queue,
         \/ PullGone(w, i) \/ GiveUp(w, i)
         \/ \E j \in Jobs : DispatchRun(w, i, j) \/ SendFails(w, i, j)
  PROVE  Placed'
<1> USE DEF PlaceInv, callVars, jobVars, connVars, loadVars
<1>1. CASE PullGone(w, i)
  <2>1. /\ Pulls(w, i) /\ queue' = RemoveAt(queue, i) /\ queue[i] \notin table
        /\ UNCHANGED <<call, table, assignee, started, orphans, sent, reader, reply, roster, lost>>
    BY <1>1 DEF PullGone
  <2>2. Range(queue') = Range(queue) \ {queue[i]}
    BY <2>1, Pulled
  <2>3. ASSUME NEW k \in Jobs PROVE PinnedAlone(k)'
    BY <2>1 DEF Placed, PinnedAlone, Connected, Pinned
  <2>4. ASSUME NEW k \in Jobs PROVE Kept(k)'
    BY <2>1, <2>2 DEF Placed, Kept, Owes, Connected
  <2> QED
    BY <2>3, <2>4 DEF Placed
<1>2. CASE GiveUp(w, i)
  <2>1. /\ Pulls(w, i) /\ Resolve(queue[i], "gaveup") /\ queue' = RemoveAt(queue, i)
        /\ UNCHANGED <<call, orphans, sent, reader, reply, roster, lost>>
    BY <1>2 DEF GiveUp
  <2> QED
    BY <2>1, Pulled, ResolvePlaced
<1>3. ASSUME NEW j \in Jobs, DispatchRun(w, i, j) PROVE Placed'
  <2>1. /\ Assign(w, i, j) /\ Transmit(w, j) /\ queue' = RemoveAt(queue, i)
        /\ assignee' = [assignee EXCEPT ![j] = w] /\ started' = started \cup {j}
        /\ UNCHANGED <<call, table, orphans, reader, reply, roster, lost>>
    BY <1>3 DEF DispatchRun
  <2>2. /\ w \in Connected /\ Range(queue') = Range(queue) \ {j} /\ j \in table
        /\ assignee[j] = None
    BY <2>1, Pulled DEF Assign, Waiting
  <2>3. /\ \A v \in Workers, k \in Jobs : v # w \/ k # j => sent'[v][k] = sent[v][k]
        /\ sent'[w][j] = sent[w][j] + (IF w \in lost THEN 0 ELSE 1)
        /\ sent[w][j] \in Nat
    BY <2>1, FlowFacts, Types, TransmitMoves
  <2>4. assignee'[j] = w /\ \A k \in Jobs \ {j} : assignee'[k] = assignee[k]
    BY <2>1, FlowFacts, Types
  <2>5. Connected' = Connected /\ Connected \subseteq Workers /\ None \notin Connected
    BY <2>1, FlowFacts, Types, NamesAssumption DEF Connected
  <2>6. Pinned(j) => \A v \in Connected : ~(sent[v][j] > 0)
    BY <2>2, <2>5 DEF Placed, PinnedAlone
  <2>7. ASSUME NEW k \in Jobs PROVE PinnedAlone(k)'
    <3>1. CASE k = j
      BY <2>1, <2>2, <2>3, <2>4, <2>5, <2>6, <3>1 DEF PinnedAlone, Pinned
    <3>2. CASE k # j
      BY <2>1, <2>3, <2>4, <2>5, <3>2 DEF Placed, PinnedAlone, Pinned
    <3> QED
      BY <3>1, <3>2
  <2>8. ASSUME NEW k \in Jobs PROVE Kept(k)'
    <3>1. CASE k = j
      BY <2>1, <2>2, <2>3, <2>4, <2>5, <3>1 DEF Kept, Owes
    <3>2. CASE k # j
      BY <2>1, <2>2, <2>3, <2>4, <2>5, <3>2 DEF Placed, Kept, Owes
    <3> QED
      BY <3>1, <3>2
  <2> QED
    BY <2>7, <2>8 DEF Placed
<1>4. ASSUME NEW j \in Jobs, SendFails(w, i, j) PROVE Placed'
  <2>1. /\ Assign(w, i, j) /\ queue' = <<j>> \o RemoveAt(queue, i)
        /\ assignee' = [assignee EXCEPT ![j] = None] /\ started' = started \ {j}
        /\ UNCHANGED <<call, table, orphans, sent, reader, reply, roster, lost>>
    BY <1>4 DEF SendFails
  <2>2. /\ Range(RemoveAt(queue, i)) = Range(queue) \ {j} /\ RemoveAt(queue, i) \in Seq(Jobs)
        /\ assignee[j] = None /\ j \in table
    BY <2>1, Pulled DEF Assign, Waiting
  <2>3. Range(queue) \cup {j} \subseteq Range(queue')
    <3> DEFINE s == <<j>>
               t == RemoveAt(queue, i)
    <3>1. s \in Seq(Jobs) /\ Range(s) = {j}
      BY SingleOnce
    <3> HIDE DEF s, t
    <3>2. Range(s \o t) = Range(s) \cup Range(t)
      BY <2>2, <3>1, RangeConcatenation DEF t
    <3> QED
      BY <2>1, <2>2, <3>1, <3>2 DEF s, t
  <2>4. assignee' = assignee
    BY <2>1, <2>2, FlowFacts, Types
  <2>5. ASSUME NEW k \in Jobs PROVE PinnedAlone(k)'
    BY <2>1, <2>4 DEF Placed, PinnedAlone, Connected, Pinned
  <2>6. ASSUME NEW k \in Jobs PROVE Kept(k)'
    BY <2>1, <2>3, <2>4 DEF Placed, Kept, Owes, Connected
  <2> QED
    BY <2>5, <2>6 DEF Placed
<1> QED
  BY <1>1, <1>2, <1>3, <1>4

LEMMA PumpPlaced ==
  ASSUME PlaceInv, PumpStep
  PROVE  Placed'
<1> USE DEF PlaceInv, callVars, jobVars, connVars, loadVars
<1>1. CASE RunLocally
  <2>1. PICK i \in DOMAIN queue :
           /\ queue' = RemoveAt(queue, i)
           /\ IF queue[i] \in table
                THEN started' = started \cup {queue[i]}
                ELSE started' = started
    BY <1>1 DEF RunLocally
  <2>2. UNCHANGED <<call, table, assignee, orphans, sent, reader, reply, roster, lost>>
    BY <1>1 DEF RunLocally
  <2> DEFINE j == queue[i]
  <2>3. j \in Jobs /\ j \in Range(queue)
    BY FlowFacts, Types, LenProperties, ElementOfSeq DEF Range
  <2>4. Range(queue') = Range(queue) \ {j}
    BY <2>1, FlowFacts, Types, RemoveAtOnce
  <2>5. /\ j \in table => j \in started' /\ assignee[j] = None
        /\ started \subseteq started'
    BY <2>1, <2>3, FlowFacts DEF Waiting
  <2> HIDE DEF j
  <2>6. ASSUME NEW k \in Jobs PROVE PinnedAlone(k)'
    BY <2>2 DEF Placed, PinnedAlone, Connected, Pinned
  <2>7. ASSUME NEW k \in Jobs PROVE Kept(k)'
    BY <2>2, <2>4, <2>5 DEF Placed, Kept, Owes, Connected
  <2> QED
    BY <2>6, <2>7 DEF Placed
<1>2. CASE EndLocal \/ EndRound \/ EndPump
  <2>1. \/ pump.by # None /\ Return(pump.by)
        \/ UNCHANGED <<call, reader>>
    BY <1>2 DEF EndLocal, EndRound, EndPump
  <2>2. pump.by # None => pump.by \in Tasks /\ Wants(pump.by)
    BY FlowFacts, Types DEF Turns, PumperWaits
  <2>3. UNCHANGED <<outcome, table, assignee, attempts, started, queue, orphans, sent, reply,
                    roster, lost>>
    BY <1>2 DEF EndLocal, EndRound, EndPump
  <2>4. Quiet
    BY <2>1, <2>2, <2>3, FlowFacts, ReturnMoves DEF Quiet
  <2> QED
    BY <2>3, <2>4, QuietPlaced
<1>3. ASSUME NextWorker \/ (\E w \in Workers : BusyWorker(w)) PROVE Placed'
  <2>1. Quiet /\ lost' = lost
    BY <1>3 DEF NextWorker, BusyWorker, Quiet
  <2> QED
    BY <2>1, QuietPlaced
<1>4. ASSUME NEW w \in Workers, Speculate(w) PROVE Placed'
  <2>1. PICK j \in Stragglers(w) : Transmit(w, j)
    BY <1>4 DEF Speculate
  <2>2. UNCHANGED <<call, table, assignee, started, queue, orphans, reader, reply, roster, lost>>
    BY <1>4 DEF Speculate
  <2>3. j \in Jobs /\ ~Pinned(j)
    BY FlowFacts, Types DEF Stragglers
  <2>4. /\ \A v \in Workers, k \in Jobs : v # w \/ k # j => sent'[v][k] = sent[v][k]
        /\ sent'[w][j] = sent[w][j] + (IF w \in lost THEN 0 ELSE 1)
        /\ sent[w][j] \in Nat
    BY <2>1, <2>3, FlowFacts, Types, TransmitMoves
  <2>5. Connected \subseteq Workers
    BY FlowFacts, Types
  <2>6. ASSUME NEW k \in Jobs PROVE PinnedAlone(k)'
    BY <2>2, <2>3, <2>4, <2>5 DEF Placed, PinnedAlone, Connected, Pinned
  <2>7. \A v \in Workers, k \in Jobs : sent[v][k] > 0 => sent'[v][k] > 0
    BY <2>3, <2>4
  <2>8. ASSUME NEW k \in Jobs PROVE Kept(k)'
    BY <2>2, <2>7 DEF Placed, Kept, Owes, Connected
  <2> QED
    BY <2>6, <2>8 DEF Placed
<1> QED
  BY <1>1, <1>2, <1>3, <1>4, PullPlaced DEF PumpStep

LEMMA ConnPlaced ==
  ASSUME PlaceInv, NEW w \in Workers, ConnStep(w)
  PROVE  Placed'
<1> USE DEF PlaceInv, callVars, jobVars, connVars, loadVars
<1>0. Typed /\ \A v \in Workers : Away(v)
  BY FlowFacts
<1>1. CASE Join(w)
  <2>1. /\ reader[w] = "out" /\ reader' = [reader EXCEPT ![w] = "join"]
        /\ roster' = Append(roster, w)
        /\ UNCHANGED <<call, table, assignee, started, queue, orphans, sent, reply, lost>>
    BY <1>1 DEF Join
  <2>2. reader'[w] = "join" /\ \A v \in Workers \ {w} : reader'[v] = reader[v]
    BY <1>0, <2>1, Types
  <2>3. Connected' = Connected \cup {w} /\ \A j \in Jobs : sent[w][j] = 0
    BY <1>0, <2>1, Types, AppendRange DEF Away, Connected
  <2>4. ASSUME NEW k \in Jobs PROVE PinnedAlone(k)'
    BY <2>1, <2>3 DEF Placed, PinnedAlone, Pinned
  <2>5. ASSUME NEW k \in Jobs PROVE Kept(k)'
    BY <2>1, <2>2, <2>3 DEF Placed, Kept, Owes
  <2> QED
    BY <2>4, <2>5 DEF Placed
<1>2. CASE ConnLost(w) \/ WriterFails(w)
  <2>1. Quiet /\ lost \subseteq lost'
    BY <1>2 DEF ConnLost, WriterFails, Quiet
  <2> QED
    BY <2>1, QuietPlaced
<1>3. CASE Recv(w)
  <2>1. PICK j \in Jobs, o \in {"ok", "failed"} :
           /\ sent[w][j] > 0
           /\ sent' = [sent EXCEPT ![w][j] = @ - 1]
           /\ reply' = [reply EXCEPT ![w] = [job |-> j, out |-> o]]
    BY <1>3 DEF Recv
  <2>2. /\ reader[w] = "read" /\ reader' = [reader EXCEPT ![w] = "settle"]
        /\ UNCHANGED <<call, table, assignee, started, queue, orphans, roster, lost>>
    BY <1>3 DEF Recv
  <2>3. /\ \A v \in Workers, k \in Jobs : v # w \/ k # j => sent'[v][k] = sent[v][k]
        /\ sent'[w][j] = sent[w][j] - 1 /\ sent[w][j] \in Nat
        /\ \A v \in Workers \ {w} : reader'[v] = reader[v] /\ reply'[v] = reply[v]
        /\ reader'[w] = "settle" /\ reply'[w].job = j
    BY <1>0, <2>1, <2>2, Types
  <2>4. ASSUME NEW k \in Jobs PROVE PinnedAlone(k)'
    <3> SUFFICES ASSUME k \in table, Pinned(k), NEW v \in Connected, sent'[v][k] > 0
                 PROVE  assignee[k] = v /\ sent'[v][k] = 1
      BY <2>2 DEF PinnedAlone, Connected, Pinned
    <3>1. v \in Workers
      BY <1>0, Types
    <3>2. sent[v][k] > 0
      BY <2>1, <2>3, <3>1
    <3>3. assignee[k] = v /\ sent[v][k] = 1
      BY <3>2 DEF Placed, PinnedAlone
    <3>4. v # w \/ k # j
      BY <2>3, <3>3
    <3> QED
      BY <2>3, <3>1, <3>3, <3>4
  <2>5. ASSUME NEW v \in Workers, NEW k \in Jobs, Owes(v, k) PROVE Owes(v, k)'
    BY <2>2, <2>3, <2>5 DEF Owes, Connected
  <2>6. ASSUME NEW k \in Jobs PROVE Kept(k)'
    BY <2>2, <2>5 DEF Placed, Kept
  <2> QED
    BY <2>4, <2>6 DEF Placed
<1>4. CASE Settle(w)
  <2>1. /\ reader[w] = "settle" /\ reader' = [reader EXCEPT ![w] = "pump"]
        /\ reply' = [reply EXCEPT ![w] = None]
        /\ UNCHANGED <<call, queue, orphans, sent, roster, lost>>
    BY <1>4 DEF Settle
  <2>2. /\ \A v \in Workers \ {w} : reader'[v] = reader[v] /\ reply'[v] = reply[v]
        /\ reader'[w] = "pump"
    BY <1>0, <2>1, Types
  <2>3. CASE reply[w].job \in table
    <3>1. Resolve(reply[w].job, reply[w].out) /\ reply[w].job \in Jobs
      BY <1>0, <1>4, <2>3, Types DEF Settle
    <3> QED
      BY <2>1, <2>2, <3>1, ResolvePlaced
  <2>4. CASE reply[w].job \notin table
    <3>1. UNCHANGED <<table, assignee, started>>
      BY <1>4, <2>4 DEF Settle
    <3>2. ASSUME NEW k \in Jobs PROVE PinnedAlone(k)'
      BY <2>1, <3>1 DEF Placed, PinnedAlone, Connected, Pinned
    <3>3. ASSUME NEW v \in Workers, NEW k \in table, Owes(v, k) PROVE Owes(v, k)'
      BY <2>1, <2>2, <2>4, <3>3 DEF Owes, Connected
    <3>4. ASSUME NEW k \in Jobs PROVE Kept(k)'
      BY <2>1, <3>1, <3>3 DEF Placed, Kept
    <3> QED
      BY <3>2, <3>4 DEF Placed
  <2> QED
    BY <2>3, <2>4
<1>5. CASE Retain(w)
  <2>1. /\ reader[w] = "read" /\ reader' = [reader EXCEPT ![w] = "collect"]
        /\ sent' = [sent EXCEPT ![w] = [j \in Jobs |-> 0]]
        /\ UNCHANGED <<call, table, assignee, started, queue, orphans, reply, lost>>
    BY <1>5 DEF Retain
  <2>2. PICK i \in DOMAIN roster : roster[i] = w /\ roster' = RemoveAt(roster, i)
    BY <1>5 DEF Retain
  <2>3. Connected' = Connected \ {w}
    BY <2>2, FlowFacts, Types, RemoveAtOnce DEF Connected
  <2>4. /\ \A v \in Workers \ {w} : reader'[v] = reader[v] /\ sent'[v] = sent[v]
        /\ reader'[w] = "collect"
    BY <1>0, <2>1, Types
  <2>5. ASSUME NEW k \in Jobs PROVE PinnedAlone(k)'
    <3> SUFFICES ASSUME k \in table, Pinned(k), NEW v \in Connected \ {w}, sent'[v][k] > 0
                 PROVE  assignee[k] = v /\ sent'[v][k] = 1
      BY <2>1, <2>3 DEF PinnedAlone, Pinned
    <3>1. sent'[v] = sent[v]
      BY <1>0, <2>4, Types
    <3> QED
      BY <3>1 DEF Placed, PinnedAlone
  <2>6. ASSUME NEW v \in Workers, NEW k \in Jobs, Owes(v, k) PROVE Owes(v, k)'
    BY <2>1, <2>3, <2>4, <2>6 DEF Owes
  <2>7. ASSUME NEW k \in Jobs PROVE Kept(k)'
    BY <2>1, <2>6 DEF Placed, Kept
  <2> QED
    BY <2>5, <2>7 DEF Placed
<1>6. CASE Collect(w)
  <2> DEFINE owed == {j \in table : assignee[j] = w}
             next == IF owed = {} THEN "gone" ELSE "requeue"
  <2>1. /\ reader[w] = "collect" /\ reader' = [reader EXCEPT ![w] = next]
        /\ orphans' = [orphans EXCEPT ![w] = owed]
        /\ UNCHANGED <<call, table, assignee, started, queue, sent, reply, roster, lost>>
    BY <1>6 DEF Collect
  <2>2. /\ \A v \in Workers \ {w} : reader'[v] = reader[v] /\ orphans'[v] = orphans[v]
        /\ reader'[w] = next /\ orphans'[w] = owed
    BY <1>0, <2>1, Types
  <2>3. ASSUME NEW k \in Jobs PROVE PinnedAlone(k)'
    BY <2>1 DEF Placed, PinnedAlone, Connected, Pinned
  <2>4. ASSUME NEW v \in Workers, NEW k \in table, assignee[k] = v, Owes(v, k)
        PROVE  Owes(v, k)'
    <3>1. CASE v = w
      BY <2>2, <2>4, <3>1 DEF Owes
    <3>2. CASE v # w
      BY <2>1, <2>2, <2>4, <3>2 DEF Owes, Connected
    <3> QED
      BY <3>1, <3>2
  <2>5. ASSUME NEW k \in Jobs PROVE Kept(k)'
    BY <2>1, <2>4 DEF Placed, Kept
  <2> QED
    BY <2>3, <2>5 DEF Placed
<1>7. CASE Requeue(w)
  <2> DEFINE back == orphans[w] \cap table
  <2>1. /\ reader[w] = "requeue" /\ reader' = [reader EXCEPT ![w] = "lastpump"]
        /\ orphans' = [orphans EXCEPT ![w] = {}]
        /\ assignee' = [j \in Jobs |-> IF j \in back THEN None ELSE assignee[j]]
        /\ started' = started \ back
        /\ UNCHANGED <<call, table, sent, reply, roster, lost>>
    BY <1>7 DEF Requeue
  <2>2. PICK s \in SetToSeqs(back) : queue' = s \o queue
    BY <1>7 DEF Requeue
  <2>3. back \in SUBSET Jobs
    BY <1>0, Types
  <2>4. s \in Seq(Jobs) /\ Range(s) = back
    BY <2>3, OrderingOnce
  <2>5. Range(queue') = back \cup Range(queue)
    BY <1>0, <2>2, <2>4, Types, RangeConcatenation
  <2>6. /\ \A v \in Workers \ {w} : reader'[v] = reader[v] /\ orphans'[v] = orphans[v]
        /\ reader'[w] = "lastpump"
    BY <1>0, <2>1, Types
  <2>7. ASSUME NEW k \in Jobs PROVE PinnedAlone(k)'
    <3>1. k \in back => assignee[k] = w /\ w \notin Connected
      BY <1>0, <2>1, <2>3, FlowFacts DEF Owed, Away
    <3> QED
      BY <2>1, <3>1 DEF Placed, PinnedAlone, Connected, Pinned
  <2>8. ASSUME NEW v \in Workers, NEW k \in table \ back, Owes(v, k) PROVE Owes(v, k)'
    BY <2>1, <2>6, <2>8 DEF Owes, Connected
  <2>9. ASSUME NEW k \in Jobs PROVE Kept(k)'
    <3>1. CASE k \in back
      BY <2>5, <3>1 DEF Kept
    <3>2. CASE k \notin back
      BY <2>1, <2>5, <2>8, <3>2 DEF Placed, Kept
    <3> QED
      BY <3>1, <3>2
  <2> QED
    BY <2>7, <2>9 DEF Placed
<1> QED
  BY <1>1, <1>2, <1>3, <1>4, <1>5, <1>6, <1>7 DEF ConnStep

LEMMA PlaceInit == Init => PlaceInv
<1>1. Init => Placed
  BY DEF Init, Placed, Kept, PinnedAlone
<1> QED
  BY <1>1, FlowInit DEF PlaceInv

LEMMA PlaceStep == PlaceInv /\ [Next]_vars => PlaceInv'
<1> SUFFICES ASSUME PlaceInv, [Next]_vars PROVE Placed'
  BY FlowStep DEF PlaceInv
<1>1. ASSUME Quiet, lost' = lost PROVE Placed'
  BY <1>1, QuietPlaced
<1>2. CASE UNCHANGED vars
  BY <1>1, <1>2 DEF vars, Quiet
<1>3. ASSUME NEW t \in Tasks, BeginPump(t) \/ PumpNothing(t) PROVE Placed'
  <2>1. CASE BeginPump(t)
    BY <1>1, <2>1 DEF BeginPump, Quiet, callVars, jobVars, connVars, loadVars
  <2>2. CASE PumpNothing(t)
    <3>1. Typed /\ Wants(t) /\ Return(t)
      BY <2>2, FlowFacts DEF PlaceInv, PumpNothing
    <3> QED
      BY <1>1, <2>2, <3>1, ReturnMoves DEF PumpNothing, Quiet, jobVars, loadVars
  <2> QED
    BY <1>3, <2>1, <2>2
<1> QED
  BY <1>2, <1>3, CallPlaced, PumpPlaced, ConnPlaced DEF Next

\* Each job in the table is in one place: it is accounted for, queued at most
\* once and then with nobody, and if it is pinned no two connected workers have
\* it, however dispatch, failed sends, replies and the requeueing of a departed
\* worker's jobs interleave.
THEOREM JobsKeepTheirPlace == Spec => []JobsHaveOnePlace
<1>1. PlaceInv => JobsHaveOnePlace
  <2> SUFFICES ASSUME PlaceInv PROVE JobsHaveOnePlace
    OBVIOUS
  <2>1. Placed /\ IsInjective(queue) /\ table \subseteq Jobs /\ Connected \subseteq Workers
    BY FlowFacts, Types DEF PlaceInv
  <2>2. \A j \in Jobs : Queued(j) <=> j \in Range(queue)
    BY DEF Queued, Range
  <2>3. NoJobIsLost
    BY <2>1, <2>2 DEF NoJobIsLost, Accounted, Placed, Kept, Owes
  <2>4. QueuedJobsAreUnassigned
    BY <2>1, <2>2, FlowFacts DEF QueuedJobsAreUnassigned, IsInjective, Waiting, PlaceInv
  <2>5. PinnedJobsNeverRace
    BY <2>1 DEF PinnedJobsNeverRace, Placed, PinnedAlone
  <2> QED
    BY <2>3, <2>4, <2>5 DEF JobsHaveOnePlace
<1> QED
  BY <1>1, PlaceInit, PlaceStep, PTL DEF Spec
=============================================================================
