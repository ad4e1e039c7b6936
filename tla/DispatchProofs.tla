--------------------------- MODULE DispatchProofs ---------------------------
(***************************************************************************)
(* Theorems about the scheduler, for any jobs, workers, platforms,         *)
(* affinities, slots and attempt limit.                                    *)
(***************************************************************************)
EXTENDS Dispatch, SequenceTheorems, FiniteSetTheorems, TLAPS

----------------------------------------------------------------------------
(* Sequences as the scheduler edits them.                                  *)

LEMMA RemoveAtType ==
  ASSUME NEW S, NEW s \in Seq(S), NEW i \in DOMAIN s
  PROVE  RemoveAt(s, i) \in Seq(S)
<1> DEFINE a == SubSeq(s, 1, i - 1)
           b == SubSeq(s, i + 1, Len(s))
<1>1. i \in 1..Len(s) /\ Len(s) \in Nat
  BY LenProperties
<1>2. \A k \in 1..Len(s) : s[k] \in S
  BY ElementOfSeq
<1>3. a \in Seq(S)
  BY <1>1, <1>2, SubSeqProperties
<1>4. b \in Seq(S)
  BY <1>1, <1>2, SubSeqProperties
<1> QED
  BY <1>3, <1>4, ConcatProperties DEF RemoveAt

\* Removing a place adds no element.
LEMMA RemoveAtRange ==
  ASSUME NEW S, NEW s \in Seq(S), NEW i \in DOMAIN s
  PROVE  Range(RemoveAt(s, i)) \subseteq Range(s)
<1>1. s \in Seq(Range(s))
  BY SeqOfRange
<1>2. RemoveAt(s, i) \in Seq(Range(s))
  BY <1>1, RemoveAtType
<1> QED
  BY <1>2, RangeOfSeq

LEMMA AppendRange ==
  ASSUME NEW S, NEW s \in Seq(S), NEW e \in S
  PROVE  Range(Append(s, e)) = Range(s) \cup {e}
<1>1. Append(s, e) = s \o <<e>>
  BY AppendIsConcat
<1>2. <<e>> \in Seq(S)
  OBVIOUS
<1>3. Range(<<e>>) = {e}
  BY DEF Range
<1>4. Range(s \o <<e>>) = Range(s) \cup Range(<<e>>)
  BY <1>2, RangeConcatenation
<1> QED
  BY <1>1, <1>3, <1>4

LEMMA OrderingType ==
  ASSUME NEW T \in SUBSET Jobs, NEW s \in SetToSeqs(T)
  PROVE  s \in Seq(Jobs)
<1>1. IsFiniteSet(T)
  BY JobsFinite, FS_Subset
<1>2. Cardinality(T) \in Nat
  BY <1>1, FS_CardinalityType
<1>3. s \in [1..Cardinality(T) -> T]
  BY DEF SetToSeqs
<1> QED
  BY <1>2, <1>3

----------------------------------------------------------------------------
(* Type correctness.                                                       *)

LEMMA HeadroomType == TypeOK /\ roster # <<>> => Headroom \in 1..16
<1> SUFFICES ASSUME TypeOK, roster # <<>> PROVE Headroom \in 1..16
  OBVIOUS
<1>1. Len(queue) \in Nat /\ Len(roster) \in Nat \ {0}
  BY LenProperties DEF TypeOK
<1>2. Len(queue) \div (Len(roster) * 4) \in Int
  BY <1>1
<1> QED
  BY <1>2 DEF Headroom, Clamp

\* The edits of the running pump() call.
LEMMA TurnEdits ==
  ASSUME NEW p \in Turns
  PROVE  /\ Idle \in Turns
         /\ [p EXCEPT !.at = @ + 1] \in Turns
         /\ [p EXCEPT !.any = TRUE] \in Turns
         /\ \A f \in {"drain", "speculate"} :
              [p EXCEPT !.at = 1, !.any = FALSE, !.phase = f] \in Turns
         /\ p.by # None => p.by \in Tasks
<1> USE DEF Turns
<1>1. Idle \in Turns
  BY DEF Idle
<1>2. [p EXCEPT !.at = @ + 1] \in Turns
  BY SMT
<1>3. [p EXCEPT !.any = TRUE] \in Turns
  OBVIOUS
<1>4. ASSUME NEW f \in {"drain", "speculate"}
      PROVE  [p EXCEPT !.at = 1, !.any = FALSE, !.phase = f] \in Turns
  OBVIOUS
<1>5. p.by # None => p.by \in Tasks
  OBVIOUS
<1> QED
  BY <1>1, <1>2, <1>3, <1>4, <1>5

\* The reader that settles a reply holds one.
ReplyHeld == \A w \in Workers : reader[w] = "settle" => reply[w] \in Replies

Typed == TypeOK /\ ReplyHeld

LEMMA TypedInit == Init => Typed
  BY DEF Init, Typed, TypeOK, ReplyHeld, Idle, Turns, Tasks, Readers, Affinities

\* Resolving a job keeps what is known of jobs inside the table.
LEMMA ResolveType ==
  ASSUME TypeOK, NEW j \in Jobs, NEW o \in {"ok", "failed", "gaveup"}, Resolve(j, o)
  PROVE  /\ outcome' \in [Jobs -> {None, "ok", "failed", "gaveup"}]
         /\ assignee' \in [Jobs -> Workers \cup {None}]
         /\ locality' \in [Jobs -> Workers \cup {None}]
         /\ table' \subseteq Jobs /\ speculated' \subseteq table'
         /\ started' \subseteq table' /\ old' \subseteq started'
         /\ patient' \subseteq table'
  BY DEF TypeOK, Resolve

LEMMA ReturnType ==
  ASSUME Typed, NEW t \in Tasks, Return(t), reply' = reply
  PROVE  /\ call' \in [Jobs -> {"idle", "enqueue", "pump", "await"}]
         /\ reader' \in [Workers -> Readers]
         /\ ReplyHeld'
  BY DEF Typed, TypeOK, ReplyHeld, Return, Readers

LEMMA CallTyped ==
  ASSUME Typed, NEW j \in Jobs, CallStep(j)
  PROVE  Typed'
<1> USE DEF Typed, TypeOK, ReplyHeld, callVars, jobVars, connVars, loadVars
<1>1. CASE Insert(j)
  <2>1. Connected \subseteq Workers
    BY RangeOfSeq DEF Connected
  <2> QED
    BY <1>1, <2>1 DEF Insert
<1>2. CASE Enqueue(j)
  <2>1. queue' \in Seq(Jobs)
    BY <1>2, AppendProperties DEF Enqueue
  <2> QED
    BY <1>2, <2>1 DEF Enqueue
<1>3. CASE LosePatience(j)
  BY <1>3 DEF LosePatience
<1>4. CASE GrowOld(j)
  BY <1>4 DEF GrowOld
<1>5. CASE FinishLocal(j)
  BY <1>5, ResolveType DEF FinishLocal
<1> QED
  BY <1>1, <1>2, <1>3, <1>4, <1>5 DEF CallStep

LEMMA BeginTyped ==
  ASSUME Typed, NEW t \in Tasks, BeginPump(t) \/ PumpNothing(t)
  PROVE  Typed'
<1> USE DEF Typed, TypeOK, ReplyHeld, callVars, jobVars, connVars, loadVars
<1>1. CASE BeginPump(t)
  <2>1. pump' \in Turns
    <3>1. Idle \in Turns
      BY TurnEdits
    <3>2. CASE roster = <<>>
      BY <1>1, <3>1, <3>2 DEF BeginPump, Turns
    <3>3. CASE roster # <<>>
      <4>1. Headroom \in 1..16
        BY <3>3, HeadroomType
      <4> QED
        BY <1>1, <3>1, <3>3, <4>1 DEF BeginPump, Turns
    <3> QED
      BY <3>2, <3>3
  <2> QED
    BY <1>1, <2>1 DEF BeginPump
<1>2. CASE PumpNothing(t)
  BY <1>2, ReturnType DEF PumpNothing
<1> QED
  BY <1>1, <1>2

\* A counter that is incremented is a counter.
LEMMA Incremented ==
  ASSUME NEW S, NEW f \in [S -> Nat], NEW x \in S
  PROVE  [f EXCEPT ![x] = @ + 1] \in [S -> Nat]
<1>1. f[x] + 1 \in Nat
  OBVIOUS
<1> QED
  BY <1>1

\* The rounds of the drain loop that pull the i-th queued id.
LEMMA PullTyped ==
  ASSUME Typed, NEW w \in Workers, NEW i \in DOMAIN queue,
         \/ PullGone(w, i) \/ GiveUp(w, i)
         \/ \E j \in Jobs : DispatchRun(w, i, j) \/ SendFails(w, i, j)
  PROVE  Typed'
<1> USE DEF Typed, TypeOK, ReplyHeld, callVars, jobVars, connVars, loadVars
<1>1. queue[i] \in Jobs /\ RemoveAt(queue, i) \in Seq(Jobs)
  BY RemoveAtType, ElementOfSeq, LenProperties
<1>2. CASE PullGone(w, i)
  BY <1>1, <1>2 DEF PullGone
<1>3. CASE GiveUp(w, i)
  <2>1. Resolve(queue[i], "gaveup")
    BY <1>3 DEF GiveUp
  <2> QED
    BY <1>1, <1>3, <2>1, ResolveType DEF GiveUp
<1>4. ASSUME NEW j \in Jobs, Assign(w, i, j)
      PROVE  /\ attempts' \in [Jobs -> Nat] /\ j \in table
             /\ owner' \in [Affinities -> Workers \cup {None}]
  <2>1. attempts' \in [Jobs -> Nat] /\ j \in table
    BY <1>4 DEF Assign
  <2>2. owner' \in [Affinities -> Workers \cup {None}]
    BY <1>4 DEF Assign
  <2> QED
    BY <2>1, <2>2
<1>5. ASSUME NEW j \in Jobs, DispatchRun(w, i, j) PROVE Typed'
  <2>1. Assign(w, i, j)
    BY <1>5 DEF DispatchRun
  <2>2. sent' \in [Workers -> [Jobs -> Nat]]
    <3>1. sent' = IF w \in lost THEN sent ELSE [sent EXCEPT ![w][j] = @ + 1]
      BY <1>5 DEF DispatchRun, Transmit
    <3>2. sent \in [Workers -> [Jobs -> Nat]] /\ sent[w] \in [Jobs -> Nat]
      BY DEF TypeOK
    <3>3. [sent[w] EXCEPT ![j] = @ + 1] \in [Jobs -> Nat]
      BY <3>2, Incremented
    <3> HIDE DEF TypeOK, Typed
    <3> QED
      BY <3>1, <3>2, <3>3
  <2>3. pump' \in Turns
    BY <1>5, TurnEdits DEF DispatchRun
  <2>4. inflight' \in [Workers -> Int]
    BY <1>5 DEF DispatchRun
  <2>5. sends' \in [Jobs -> Nat]
    <3>1. sends' = [sends EXCEPT ![j] = @ + 1]
      BY <1>5 DEF DispatchRun
    <3>2. sends \in [Jobs -> Nat]
      BY DEF TypeOK
    <3>3. [sends EXCEPT ![j] = @ + 1] \in [Jobs -> Nat]
      BY <3>2, Incremented
    <3> QED
      BY <3>1, <3>3
  <2>6. queue' \in Seq(Jobs) /\ assignee' \in [Jobs -> Workers \cup {None}]
    BY <1>1, <1>5 DEF DispatchRun
  <2>7. /\ started' \subseteq table' /\ old' \subseteq started'
        /\ UNCHANGED <<table, speculated, locality, patient, callVars, connVars>>
    BY <1>4, <1>5, <2>1 DEF DispatchRun
  <2>8. attempts' \in [Jobs -> Nat] /\ owner' \in [Affinities -> Workers \cup {None}]
    BY <1>4, <2>1
  <2> QED
    BY <2>2, <2>3, <2>4, <2>5, <2>6, <2>7, <2>8
<1>6. ASSUME NEW j \in Jobs, SendFails(w, i, j) PROVE Typed'
  <2>1. Assign(w, i, j)
    BY <1>6 DEF SendFails
  <2>2. pump' \in Turns
    BY <1>6, TurnEdits DEF SendFails
  <2>3. queue' \in Seq(Jobs)
    BY <1>1, <1>6, ConcatProperties DEF SendFails
  <2> QED
    BY <1>4, <1>6, <2>1, <2>2, <2>3 DEF SendFails
<1> QED
  BY <1>2, <1>3, <1>5, <1>6

LEMMA PumpTyped ==
  ASSUME Typed, PumpStep
  PROVE  Typed'
<1> USE DEF Typed, TypeOK, ReplyHeld, callVars, jobVars, connVars, loadVars
<1>1. CASE RunLocally
  <2>1. PICK i \in DOMAIN queue :
           /\ queue' = RemoveAt(queue, i)
           /\ IF queue[i] \in table
                THEN /\ attempts' = [attempts EXCEPT ![queue[i]] = @ + 1]
                     /\ started' = started \cup {queue[i]}
                ELSE UNCHANGED <<attempts, started>>
    BY <1>1 DEF RunLocally
  <2>2. queue' \in Seq(Jobs)
    BY <2>1, RemoveAtType
  <2>3. queue[i] \in Jobs
    BY ElementOfSeq, LenProperties
  <2>4. attempts' \in [Jobs -> Nat] /\ started' \subseteq table /\ started \subseteq started'
    <3>1. CASE queue[i] \in table
      <4>1. attempts' = [attempts EXCEPT ![queue[i]] = @ + 1]
        BY <2>1, <3>1
      <4>2. started' = started \cup {queue[i]}
        BY <2>1, <3>1
      <4>3. attempts' \in [Jobs -> Nat]
        BY <4>1
      <4> QED
        BY <3>1, <4>2, <4>3
    <3>2. CASE queue[i] \notin table
      BY <2>1, <3>2
    <3> QED
      BY <3>1, <3>2
  <2> QED
    BY <1>1, <2>2, <2>4 DEF RunLocally
<1>2. ASSUME EndLocal \/ EndPump PROVE Typed'
  <2>1. pump.by \in Tasks /\ Return(pump.by) /\ reply' = reply
    BY <1>2, TurnEdits DEF EndLocal, EndPump
  <2>2. pump' \in Turns
    BY <1>2, TurnEdits DEF EndLocal, EndPump
  <2> QED
    BY <1>2, <2>1, <2>2, ReturnType DEF EndLocal, EndPump
<1>3. CASE NextWorker
  <2>1. pump' \in Turns
    BY <1>3, TurnEdits DEF NextWorker
  <2> QED
    BY <1>3, <2>1 DEF NextWorker
<1>4. CASE EndRound
  <2>1. CASE pump.any \/ queue = <<>>
    <3>1. pump' \in Turns
      <4>1. pump' = [pump EXCEPT !.at = 1, !.any = FALSE,
                         !.phase = IF pump.any THEN "drain" ELSE "speculate"]
        BY <1>4, <2>1 DEF EndRound
      <4> QED
        BY <4>1, TurnEdits
    <3> QED
      BY <1>4, <2>1, <3>1 DEF EndRound
  <2>2. CASE ~(pump.any \/ queue = <<>>)
    <3>1. pump.by \in Tasks /\ Return(pump.by) /\ reply' = reply
      BY <1>4, <2>2, TurnEdits DEF EndRound
    <3>2. pump' \in Turns
      BY <1>4, <2>2, TurnEdits DEF EndRound
    <3> QED
      BY <1>4, <2>2, <3>1, <3>2, ReturnType DEF EndRound
  <2> QED
    BY <2>1, <2>2
<1>5. ASSUME NEW w \in Workers, Speculate(w) PROVE Typed'
  <2>1. PICK j \in Stragglers(w) : speculated' = speculated \cup {j} /\ Transmit(w, j)
    BY <1>5 DEF Speculate
  <2>2. j \in old
    BY DEF Stragglers
  <2>3. sent' \in [Workers -> [Jobs -> Nat]]
    <3>1. sent' = IF w \in lost THEN sent ELSE [sent EXCEPT ![w][j] = @ + 1]
      BY <2>1 DEF Transmit
    <3> QED
      BY <2>2, <3>1
  <2>4. pump' \in Turns
    BY <1>5, TurnEdits DEF Speculate
  <2>5. inflight' \in [Workers -> Int]
    BY <1>5 DEF Speculate
  <2> QED
    BY <1>5, <2>1, <2>2, <2>3, <2>4, <2>5 DEF Speculate
<1>6. ASSUME NEW w \in Workers, BusyWorker(w) PROVE Typed'
  <2>1. pump' \in Turns
    BY <1>6, TurnEdits DEF BusyWorker
  <2> QED
    BY <1>6, <2>1 DEF BusyWorker
<1> QED
  BY <1>1, <1>2, <1>3, <1>4, <1>5, <1>6, PullTyped DEF PumpStep

LEMMA ConnTyped ==
  ASSUME Typed, NEW w \in Workers, ConnStep(w)
  PROVE  Typed'
<1> USE DEF Typed, TypeOK, ReplyHeld, Readers, callVars, jobVars, connVars, loadVars
<1>1. CASE Join(w)
  <2>1. roster' \in Seq(Workers)
    BY <1>1, AppendProperties DEF Join
  <2> QED
    BY <1>1, <2>1 DEF Join
<1>2. CASE ConnLost(w)
  BY <1>2 DEF ConnLost
<1>3. CASE WriterFails(w)
  BY <1>3 DEF WriterFails
<1>4. CASE Recv(w)
  <2>1. PICK j \in Jobs, o \in {"ok", "failed"} :
           /\ sent[w][j] > 0
           /\ sent' = [sent EXCEPT ![w][j] = @ - 1]
           /\ reply' = [reply EXCEPT ![w] = [job |-> j, out |-> o]]
    BY <1>4 DEF Recv
  <2>2. sent' \in [Workers -> [Jobs -> Nat]]
    BY <2>1
  <2>3. reply' \in [Workers -> Replies \cup {None}] /\ reply'[w] \in Replies
    BY <2>1 DEF Replies
  <2>4. inflight' \in [Workers -> Int] /\ reader' = [reader EXCEPT ![w] = "settle"]
    BY <1>4 DEF Recv
  <2>5. ReplyHeld'
    BY <2>1, <2>3, <2>4
  <2>6. reader' \in [Workers -> Readers]
    BY <2>4 DEF Readers
  <2>7. UNCHANGED <<callVars, jobVars, queue, owner, roster, txOpen, orphans, lost, pump, sends>>
    BY <1>4 DEF Recv
  <2> QED
    BY <2>2, <2>3, <2>4, <2>5, <2>6, <2>7
<1>5. CASE Settle(w)
  <2>1. reply[w] \in Replies
    BY <1>5 DEF Settle
  <2>2. reply[w].job \in Jobs /\ reply[w].out \in {"ok", "failed", "gaveup"}
    BY <2>1 DEF Replies
  <2>3. CASE reply[w].job \in table
    <3>1. Resolve(reply[w].job, reply[w].out)
      BY <1>5, <2>3 DEF Settle
    <3> QED
      BY <1>5, <2>2, <3>1, ResolveType DEF Settle
  <2>4. CASE reply[w].job \notin table
    BY <1>5, <2>4 DEF Settle
  <2> QED
    BY <2>3, <2>4
<1>6. CASE Retain(w)
  <2>1. roster' \in Seq(Workers)
    BY <1>6, RemoveAtType DEF Retain
  <2> QED
    BY <1>6, <2>1 DEF Retain
<1>7. CASE Collect(w)
  BY <1>7 DEF Collect
<1>8. CASE Requeue(w)
  <2>1. queue' \in Seq(Jobs)
    <3>1. PICK s \in SetToSeqs(orphans[w] \cap table) : queue' = s \o queue
      BY <1>8 DEF Requeue
    <3>2. s \in Seq(Jobs)
      BY OrderingType
    <3> QED
      BY <3>1, <3>2, ConcatProperties
  <2> QED
    BY <1>8, <2>1 DEF Requeue
<1> QED
  BY <1>1, <1>2, <1>3, <1>4, <1>5, <1>6, <1>7, <1>8 DEF ConnStep

LEMMA TypedStep == Typed /\ [Next]_vars => Typed'
<1>1. Typed /\ UNCHANGED vars => Typed'
  BY DEF Typed, TypeOK, ReplyHeld, vars
<1> QED
  BY <1>1, CallTyped, BeginTyped, PumpTyped, ConnTyped DEF Next

\* Every variable keeps its type: the table holds the only knowledge of a
\* job's run, whichever of the pump, a reader or a local run ends it.
THEOREM TypeCorrect == Spec => []TypeOK
<1>1. Typed => TypeOK
  BY DEF Typed
<1> QED
  BY <1>1, TypedInit, TypedStep, PTL DEF Spec

----------------------------------------------------------------------------
(* Twins share one worker.                                                 *)

\* The affinity table is behind it: whoever of the connected workers holds a
\* pinned job owns its affinity.  A worker that has never joined holds
\* nothing, so that joining makes nobody a second holder.
HolderOwns ==
  \A j \in Jobs : (Pinned(j) /\ assignee[j] \in Connected) => owner[Affinity(j)] = assignee[j]

StrangersHoldNothing ==
  \A w \in Workers : reader[w] = "out" =>
    w \notin Connected /\ \A j \in Jobs : assignee[j] # w

TwinInv == Typed /\ HolderOwns /\ StrangersHoldNothing

LEMMA TwinInit == Init => TwinInv
<1> SUFFICES ASSUME Init PROVE TwinInv
  OBVIOUS
<1>1. Connected = {}
  BY DEF Init, Connected, Range
<1> QED
  BY <1>1, TypedInit, NamesAssumption DEF Init, TwinInv, HolderOwns, StrangersHoldNothing

\* Steps that connect nobody, move no affinity, assign nothing and take no
\* connection back to the start.
LEMMA TwinFrame ==
  ASSUME TwinInv, Typed', owner' = owner, Connected' \subseteq Connected,
         \A j \in Jobs : assignee'[j] \in {assignee[j], None},
         \A w \in Workers : reader'[w] = "out" => reader[w] = "out"
  PROVE  TwinInv'
<1> USE DEF TwinInv
<1>0. None \notin Connected /\ None \notin Workers
  BY RangeOfSeq, NamesAssumption DEF Typed, TypeOK, Connected
<1>1. HolderOwns'
  BY <1>0 DEF HolderOwns, Pinned, Affinity
<1>2. StrangersHoldNothing'
  BY <1>0 DEF StrangersHoldNothing
<1> QED
  BY <1>1, <1>2

\* A worker that is assigned j, or fails to be sent it, is connected and may
\* own the affinity of j: no other connected worker does.
LEMMA TwinAssign ==
  ASSUME TwinInv, Typed', NEW w \in Workers, NEW i \in DOMAIN queue, NEW j \in Jobs,
         Assign(w, i, j), roster' = roster, reader' = reader,
         \E h \in {w, None} : assignee' = [assignee EXCEPT ![j] = h]
  PROVE  TwinInv'
<1> USE DEF TwinInv
<1>1. w \in Connected /\ Connected' = Connected
  BY DEF Assign, Pulls, Draining, Cursor, Connected, Range
<1>2. None \notin Workers
  BY NamesAssumption
<1>3. Pinned(j) => owner[Affinity(j)] \in {None, w} \/ owner[Affinity(j)] \notin Connected
  BY DEF Assign, Pulls, Places, Takeable
<1>4. /\ Pinned(j) => owner' = [owner EXCEPT ![Affinity(j)] = w]
      /\ ~Pinned(j) => owner' = owner
  BY DEF Assign
<1>5. PICK h \in {w, None} : assignee' = [assignee EXCEPT ![j] = h]
  OBVIOUS
<1>6. assignee \in [Jobs -> Workers \cup {None}] /\ owner \in [Affinities -> Workers \cup {None}]
  BY DEF Typed, TypeOK
<1>7. None \notin Connected
  BY <1>2, RangeOfSeq DEF Typed, TypeOK, Connected
<1>8. HolderOwns'
  <2> SUFFICES ASSUME NEW k \in Jobs, Pinned(k), assignee'[k] \in Connected
               PROVE  owner'[Affinity(k)] = assignee'[k]
    BY <1>1 DEF HolderOwns, Pinned, Affinity
  <2>1. Affinity(k) \in Affinities
    BY DEF Affinities
  <2>2. CASE k = j
    BY <1>4, <1>5, <1>6, <1>7, <2>1, <2>2
  <2>3. CASE k # j
    <3>1. assignee'[k] = assignee[k] /\ owner[Affinity(k)] = assignee[k]
      BY <1>5, <1>6, <2>3 DEF HolderOwns
    <3>2. CASE Pinned(j) /\ Affinity(k) = Affinity(j)
      <4>1. owner[Affinity(k)] = w
        BY <1>3, <1>7, <3>1, <3>2
      <4> QED
        BY <1>4, <1>6, <2>1, <3>1, <3>2, <4>1
    <3>3. CASE ~Pinned(j) \/ Affinity(k) # Affinity(j)
      BY <1>4, <1>6, <2>1, <3>1, <3>3
    <3> QED
      BY <3>2, <3>3
  <2> QED
    BY <2>2, <2>3
<1>9. StrangersHoldNothing'
  BY <1>1, <1>2, <1>5, <1>6 DEF StrangersHoldNothing
<1> QED
  BY <1>8, <1>9

LEMMA TwinStep == TwinInv /\ [Next]_vars => TwinInv'
<1> SUFFICES ASSUME TwinInv, [Next]_vars PROVE TwinInv'
  OBVIOUS
<1>0. Typed' /\ Typed
  BY TypedStep DEF TwinInv
<1>1. roster' = roster => Connected' = Connected
  BY DEF Connected
<1> USE <1>0, <1>1, TwinFrame DEF callVars, jobVars, connVars, loadVars, Resolve, Return
<1>2. ASSUME NEW j \in Jobs, CallStep(j) PROVE TwinInv'
  BY <1>2 DEF CallStep, Insert, Enqueue, LosePatience, GrowOld, FinishLocal, Typed, TypeOK
<1>3. ASSUME NEW t \in Tasks, BeginPump(t) \/ PumpNothing(t) PROVE TwinInv'
  BY <1>3 DEF BeginPump, PumpNothing, Typed, TypeOK
<1>4. ASSUME NEW w \in Workers, NEW i \in DOMAIN queue, PullGone(w, i) \/ GiveUp(w, i)
      PROVE  TwinInv'
  BY <1>4 DEF PullGone, GiveUp, Typed, TypeOK
<1>5. ASSUME NEW w \in Workers, NEW i \in DOMAIN queue, NEW j \in Jobs,
             DispatchRun(w, i, j) \/ SendFails(w, i, j)
      PROVE  TwinInv'
  BY <1>5, TwinAssign DEF DispatchRun, SendFails
<1>6. ASSUME RunLocally \/ EndLocal \/ NextWorker \/ EndRound \/ EndPump PROVE TwinInv'
  BY <1>6 DEF RunLocally, EndLocal, NextWorker, EndRound, EndPump, Typed, TypeOK
<1>7. ASSUME NEW w \in Workers, Speculate(w) \/ BusyWorker(w) PROVE TwinInv'
  BY <1>7 DEF Speculate, BusyWorker
<1>8. ASSUME NEW w \in Workers, Join(w) PROVE TwinInv'
  <2>1. Connected' = Connected \cup {w}
    BY <1>8, AppendRange DEF Join, Connected, Typed, TypeOK
  <2>2. \A j \in Jobs : assignee'[j] # w /\ assignee' = assignee /\ owner' = owner
    BY <1>8 DEF Join, TwinInv, StrangersHoldNothing
  <2>3. HolderOwns'
    BY <2>1, <2>2 DEF TwinInv, HolderOwns, Pinned, Affinity
  <2>4. StrangersHoldNothing'
    BY <1>8, <2>1, <2>2 DEF Join, TwinInv, StrangersHoldNothing, Typed, TypeOK
  <2> QED
    BY <2>3, <2>4 DEF TwinInv
<1>9. ASSUME NEW w \in Workers,
             ConnLost(w) \/ WriterFails(w) \/ Recv(w) \/ Settle(w) \/ Collect(w) \/ Requeue(w)
      PROVE  TwinInv'
  BY <1>9 DEF ConnLost, WriterFails, Recv, Settle, Collect, Requeue, Typed, TypeOK
<1>10. ASSUME NEW w \in Workers, Retain(w) PROVE TwinInv'
  <2>1. Connected' \subseteq Connected
    BY <1>10, RemoveAtRange DEF Retain, Connected, Typed, TypeOK
  <2> QED
    BY <1>10, <2>1 DEF Retain, Typed, TypeOK
<1>11. CASE UNCHANGED vars
  BY <1>11 DEF vars
<1> QED
  BY <1>2, <1>3, <1>4, <1>5, <1>6, <1>7, <1>8, <1>9, <1>10, <1>11
  DEF Next, PumpStep, ConnStep

\* Actions of one affinity are never assigned to two connected workers, for
\* any number of workers that join, die, lose their writer and are usurped.
THEOREM TwinsStayTogether == Spec => []TwinsShareOneWorker
<1>1. TwinInv => TwinsShareOneWorker
  <2> SUFFICES ASSUME TwinInv, NEW i \in table, NEW j \in table,
                      Pinned(i), Pinned(j), Affinity(i) = Affinity(j),
                      NEW v \in Connected, NEW w \in Connected,
                      assignee[i] = v, assignee[j] = w
               PROVE  v = w
    BY DEF TwinsShareOneWorker
  <2>1. i \in Jobs /\ j \in Jobs
    BY DEF TwinInv, Typed, TypeOK
  <2> QED
    BY <2>1 DEF TwinInv, HolderOwns
<1> QED
  BY <1>1, TwinInit, TwinStep, PTL DEF Spec

----------------------------------------------------------------------------
(* Platforms.                                                              *)

\* The two readings of a platform demand agree as far as the drain loop goes:
\* a queue a host pulls from holds only demands the host meets.
LEMMA ServesOnlyAdmitted ==
  ASSUME NEW w \in Workers, NEW p, Serves(Host[w], p)
  PROVE  Admits(p, Host[w])
<1> DEFINE h == Host[w]
<1>1. PICK k \in 1..4 : p = PullOrder(h)[k]
  BY DEF Serves, PullOrder, Range
<1>2. DOMAIN h = {"os", "arch"}
  BY TablesAssumption
<1>3. CASE k = 1
  BY <1>1, <1>3 DEF PullOrder, Admits
<1>4. CASE k = 2
  <2>1. p = [h EXCEPT !.arch = AnyAxis]
    BY <1>1, <1>4 DEF PullOrder
  <2> QED
    BY <1>2, <2>1 DEF Admits
<1>5. CASE k = 3
  <2>1. p = [h EXCEPT !.os = AnyAxis]
    BY <1>1, <1>5 DEF PullOrder
  <2> QED
    BY <1>2, <2>1 DEF Admits
<1>6. CASE k = 4
  BY <1>1, <1>6 DEF PullOrder, Admits
<1> QED
  BY <1>3, <1>4, <1>5, <1>6

FramesInv == Typed /\ FramesReachAdmittingWorkers

\* A frame is queued only where its job's demand is met.
LEMMA FramesTransmit ==
  ASSUME FramesInv, NEW w \in Workers, NEW j \in Jobs, Transmit(w, j), Admits(Plat[j], Host[w])
  PROVE  FramesReachAdmittingWorkers'
<1>1. sent \in [Workers -> [Jobs -> Nat]]
  BY DEF FramesInv, Typed, TypeOK
<1>2. CASE w \in lost
  BY <1>2 DEF Transmit, FramesInv, FramesReachAdmittingWorkers, Admits
<1>3. CASE w \notin lost
  <2>1. sent' = [sent EXCEPT ![w][j] = @ + 1]
    BY <1>3 DEF Transmit
  <2>2. ASSUME NEW v \in Workers, NEW k \in Jobs, sent'[v][k] > 0, v # w \/ k # j
        PROVE  sent[v][k] > 0
    BY <1>1, <2>1, <2>2
  <2> QED
    BY <2>2 DEF FramesInv, FramesReachAdmittingWorkers, Admits
<1> QED
  BY <1>2, <1>3

LEMMA FramesStep == FramesInv /\ [Next]_vars => FramesInv'
<1> SUFFICES ASSUME FramesInv, [Next]_vars PROVE FramesReachAdmittingWorkers'
  BY TypedStep DEF FramesInv
<1>0. sent \in [Workers -> [Jobs -> Nat]]
  BY DEF FramesInv, Typed, TypeOK
<1>1. (\A w \in Workers, j \in Jobs : sent'[w][j] > 0 => sent[w][j] > 0)
        => FramesReachAdmittingWorkers'
  BY DEF FramesInv, FramesReachAdmittingWorkers, Admits
<1> USE <1>1 DEF callVars, jobVars, connVars, loadVars
<1>2. ASSUME NEW j \in Jobs, CallStep(j) PROVE FramesReachAdmittingWorkers'
  BY <1>2 DEF CallStep, Insert, Enqueue, LosePatience, GrowOld, FinishLocal
<1>3. ASSUME NEW t \in Tasks, BeginPump(t) \/ PumpNothing(t)
      PROVE  FramesReachAdmittingWorkers'
  BY <1>3 DEF BeginPump, PumpNothing
<1>4. ASSUME NEW w \in Workers, NEW i \in DOMAIN queue, PullGone(w, i) \/ GiveUp(w, i)
      PROVE  FramesReachAdmittingWorkers'
  BY <1>4 DEF PullGone, GiveUp
<1>5. ASSUME NEW w \in Workers, NEW i \in DOMAIN queue, NEW j \in Jobs, DispatchRun(w, i, j)
      PROVE  FramesReachAdmittingWorkers'
  <2>1. Serves(Host[w], Plat[j]) /\ Transmit(w, j)
    BY <1>5 DEF DispatchRun, Assign, Pulls, Places
  <2> QED
    BY <2>1, ServesOnlyAdmitted, FramesTransmit
<1>6. ASSUME NEW w \in Workers, NEW i \in DOMAIN queue, NEW j \in Jobs, SendFails(w, i, j)
      PROVE  FramesReachAdmittingWorkers'
  BY <1>6 DEF SendFails
<1>7. ASSUME RunLocally \/ EndLocal \/ NextWorker \/ EndRound \/ EndPump
      PROVE  FramesReachAdmittingWorkers'
  BY <1>7 DEF RunLocally, EndLocal, NextWorker, EndRound, EndPump
<1>8. ASSUME NEW w \in Workers, Speculate(w) PROVE FramesReachAdmittingWorkers'
  <2>1. PICK j \in Stragglers(w) : Transmit(w, j)
    BY <1>8 DEF Speculate
  <2>2. j \in Jobs /\ Admits(Plat[j], Host[w])
    BY DEF Stragglers, FramesInv, Typed, TypeOK
  <2> QED
    BY <2>1, <2>2, FramesTransmit
<1>9. ASSUME NEW w \in Workers, BusyWorker(w) PROVE FramesReachAdmittingWorkers'
  BY <1>9 DEF BusyWorker
<1>10. ASSUME NEW w \in Workers,
              \/ Join(w) \/ ConnLost(w) \/ WriterFails(w)
              \/ Settle(w) \/ Collect(w) \/ Requeue(w)
       PROVE  FramesReachAdmittingWorkers'
  BY <1>10 DEF Join, ConnLost, WriterFails, Settle, Collect, Requeue
<1>11. ASSUME NEW w \in Workers, Recv(w) PROVE FramesReachAdmittingWorkers'
  <2>1. PICK j \in Jobs : sent' = [sent EXCEPT ![w][j] = @ - 1]
    BY <1>11 DEF Recv
  <2> QED
    BY <1>0, <2>1
<1>12. ASSUME NEW w \in Workers, Retain(w) PROVE FramesReachAdmittingWorkers'
  <2>1. sent' = [sent EXCEPT ![w] = [j \in Jobs |-> 0]]
    BY <1>12 DEF Retain
  <2> QED
    BY <1>0, <2>1
<1>13. CASE UNCHANGED vars
  BY <1>13 DEF vars
<1> QED
  BY <1>2, <1>3, <1>4, <1>5, <1>6, <1>7, <1>8, <1>9, <1>10, <1>11, <1>12, <1>13
  DEF Next, PumpStep, ConnStep

\* No worker is sent an action whose platform demand it does not meet: what
\* the drain loop pulls by queue key and what speculation asks of admits()
\* come to the same.
THEOREM PlatformsRespected == Spec => []FramesReachAdmittingWorkers
<1>1. Init => FramesInv
  BY TypedInit DEF Init, FramesInv, FramesReachAdmittingWorkers
<1>2. FramesInv => FramesReachAdmittingWorkers
  BY DEF FramesInv
<1> QED
  BY <1>1, <1>2, FramesStep, PTL DEF Spec

----------------------------------------------------------------------------
(* Pipeline credits.                                                       *)

\* The books of every worker whose connection still carries frames balance,
\* also before it joins.
CreditsInv ==
  /\ Typed
  /\ \A w \in Workers \ lost : /\ IsFiniteSet(Unanswered(w))
                               /\ inflight[w] = Cardinality(Unanswered(w))

\* One more frame out is one more unanswered one, one answered one less.
LEMMA OneMoreUnanswered ==
  ASSUME Typed, NEW w \in Workers, NEW j \in Jobs, sent' = [sent EXCEPT ![w][j] = @ + 1]
  PROVE  /\ Unanswered(w)' = Unanswered(w) \cup {<<j, sent[w][j] + 1>>}
         /\ <<j, sent[w][j] + 1>> \notin Unanswered(w)
         /\ \A v \in Workers \ {w} : Unanswered(v)' = Unanswered(v)
<1>1. sent \in [Workers -> [Jobs -> Nat]]
  BY DEF Typed, TypeOK
<1>2. sent'[w][j] = sent[w][j] + 1 /\ \A k \in Jobs \ {j} : sent'[w][k] = sent[w][k]
  BY <1>1
<1>3. \A v \in Workers \ {w} : sent'[v] = sent[v]
  BY <1>1
<1>4. 1..sent'[w][j] = 1..sent[w][j] \cup {sent[w][j] + 1}
  BY <1>1, <1>2
<1>5. Unanswered(w)' = Unanswered(w) \cup {<<j, sent[w][j] + 1>>}
  BY <1>2, <1>4 DEF Unanswered
<1>6. <<j, sent[w][j] + 1>> \notin Unanswered(w)
  BY <1>1 DEF Unanswered
<1> QED
  BY <1>3, <1>5, <1>6 DEF Unanswered

LEMMA OneLessUnanswered ==
  ASSUME Typed, NEW w \in Workers, NEW j \in Jobs, sent[w][j] > 0,
         sent' = [sent EXCEPT ![w][j] = @ - 1]
  PROVE  /\ Unanswered(w)' = Unanswered(w) \ {<<j, sent[w][j]>>}
         /\ <<j, sent[w][j]>> \in Unanswered(w)
         /\ \A v \in Workers \ {w} : Unanswered(v)' = Unanswered(v)
<1>1. sent \in [Workers -> [Jobs -> Nat]]
  BY DEF Typed, TypeOK
<1>2. sent'[w][j] = sent[w][j] - 1 /\ \A k \in Jobs \ {j} : sent'[w][k] = sent[w][k]
  BY <1>1
<1>3. \A v \in Workers \ {w} : sent'[v] = sent[v]
  BY <1>1
<1>4. /\ 1..sent'[w][j] = (1..sent[w][j]) \ {sent[w][j]}
      /\ sent[w][j] \in 1..sent[w][j]
  BY <1>1, <1>2
<1>5. Unanswered(w)' = Unanswered(w) \ {<<j, sent[w][j]>>}
  BY <1>2, <1>4 DEF Unanswered
<1>6. <<j, sent[w][j]>> \in Unanswered(w)
  BY <1>4 DEF Unanswered
<1> QED
  BY <1>3, <1>5, <1>6 DEF Unanswered

\* A frame is queued and its credit taken in one step.
LEMMA CreditTaken ==
  ASSUME CreditsInv, Typed', NEW w \in Workers, NEW j \in Jobs, Transmit(w, j),
         inflight' = [inflight EXCEPT ![w] = @ + 1], lost' = lost
  PROVE  CreditsInv'
<1>0. inflight \in [Workers -> Int]
  BY DEF CreditsInv, Typed, TypeOK
<1>1. SUFFICES ASSUME NEW v \in Workers \ lost
               PROVE  (IsFiniteSet(Unanswered(v)) /\ inflight[v] = Cardinality(Unanswered(v)))'
  BY DEF CreditsInv
<1>2. IsFiniteSet(Unanswered(v)) /\ inflight[v] = Cardinality(Unanswered(v))
  BY DEF CreditsInv
<1>3. CASE w \in lost
  <2>1. sent' = sent /\ inflight'[v] = inflight[v]
    BY <1>0, <1>3 DEF Transmit
  <2> QED
    BY <1>2, <2>1 DEF Unanswered
<1>4. CASE w \notin lost
  <2>1. sent' = [sent EXCEPT ![w][j] = @ + 1]
    BY <1>4 DEF Transmit
  <2>2. CASE v = w
    <3>1. inflight'[w] = inflight[w] + 1
      BY <1>0
    <3>2. /\ Unanswered(w)' = Unanswered(w) \cup {<<j, sent[w][j] + 1>>}
          /\ <<j, sent[w][j] + 1>> \notin Unanswered(w)
      BY <2>1, OneMoreUnanswered DEF CreditsInv
    <3>3. /\ IsFiniteSet(Unanswered(w)')
          /\ Cardinality(Unanswered(w)') = Cardinality(Unanswered(w)) + 1
      BY <1>2, <2>2, <3>2, FS_AddElement
    <3> QED
      BY <1>2, <2>2, <3>1, <3>3
  <2>3. CASE v # w
    <3>1. Unanswered(v)' = Unanswered(v) /\ inflight'[v] = inflight[v]
      BY <1>0, <2>1, <2>3, OneMoreUnanswered DEF CreditsInv
    <3> QED
      BY <1>2, <3>1
  <2> QED
    BY <2>2, <2>3
<1> QED
  BY <1>3, <1>4

LEMMA CreditReturned ==
  ASSUME CreditsInv, Typed', NEW w \in Workers, Recv(w)
  PROVE  CreditsInv'
<1>0. /\ inflight \in [Workers -> Int]
      /\ inflight' = [inflight EXCEPT ![w] = @ - 1] /\ lost' = lost
  BY DEF CreditsInv, Typed, TypeOK, Recv
<1>1. PICK j \in Jobs : sent[w][j] > 0 /\ sent' = [sent EXCEPT ![w][j] = @ - 1]
  BY DEF Recv
<1>2. SUFFICES ASSUME NEW v \in Workers \ lost
               PROVE  (IsFiniteSet(Unanswered(v)) /\ inflight[v] = Cardinality(Unanswered(v)))'
  BY <1>0 DEF CreditsInv
<1>3. IsFiniteSet(Unanswered(v)) /\ inflight[v] = Cardinality(Unanswered(v))
  BY DEF CreditsInv
<1>4. CASE v = w
  <2>1. inflight'[w] = inflight[w] - 1
    BY <1>0
  <2>2. /\ Unanswered(w)' = Unanswered(w) \ {<<j, sent[w][j]>>}
        /\ <<j, sent[w][j]>> \in Unanswered(w)
    BY <1>1, OneLessUnanswered DEF CreditsInv
  <2>3. /\ IsFiniteSet(Unanswered(w)')
        /\ Cardinality(Unanswered(w)') = Cardinality(Unanswered(w)) - 1
    BY <1>3, <1>4, <2>2, FS_RemoveElement
  <2> QED
    BY <1>3, <1>4, <2>1, <2>3
<1>5. CASE v # w
  <2>1. Unanswered(v)' = Unanswered(v) /\ inflight'[v] = inflight[v]
    BY <1>0, <1>1, <1>5, OneLessUnanswered DEF CreditsInv
  <2> QED
    BY <1>3, <2>1
<1> QED
  BY <1>4, <1>5

LEMMA CreditsStep == CreditsInv /\ [Next]_vars => CreditsInv'
<1> SUFFICES ASSUME CreditsInv, [Next]_vars PROVE CreditsInv'
  OBVIOUS
<1>0. Typed'
  BY TypedStep DEF CreditsInv
<1>1. inflight' = inflight /\ sent' = sent /\ lost \subseteq lost' => CreditsInv'
  BY <1>0 DEF CreditsInv, Unanswered
<1> USE <1>1 DEF callVars, jobVars, connVars, loadVars
<1>2. ASSUME NEW j \in Jobs, CallStep(j) PROVE CreditsInv'
  BY <1>2 DEF CallStep, Insert, Enqueue, LosePatience, GrowOld, FinishLocal
<1>3. ASSUME NEW t \in Tasks, BeginPump(t) \/ PumpNothing(t) PROVE CreditsInv'
  BY <1>3 DEF BeginPump, PumpNothing
<1>4. ASSUME NEW w \in Workers, NEW i \in DOMAIN queue, PullGone(w, i) \/ GiveUp(w, i)
      PROVE  CreditsInv'
  BY <1>4 DEF PullGone, GiveUp
<1>5. ASSUME NEW w \in Workers, NEW i \in DOMAIN queue, NEW j \in Jobs, DispatchRun(w, i, j)
      PROVE  CreditsInv'
  BY <1>0, <1>5, CreditTaken DEF DispatchRun
<1>6. ASSUME NEW w \in Workers, NEW i \in DOMAIN queue, NEW j \in Jobs, SendFails(w, i, j)
      PROVE  CreditsInv'
  BY <1>6 DEF SendFails
<1>7. ASSUME RunLocally \/ EndLocal \/ NextWorker \/ EndRound \/ EndPump PROVE CreditsInv'
  BY <1>7 DEF RunLocally, EndLocal, NextWorker, EndRound, EndPump
<1>8. ASSUME NEW w \in Workers, Speculate(w) PROVE CreditsInv'
  <2>1. PICK j \in Stragglers(w) : Transmit(w, j)
    BY <1>8 DEF Speculate
  <2>2. j \in Jobs
    BY DEF Stragglers, CreditsInv, Typed, TypeOK
  <2> QED
    BY <1>0, <1>8, <2>1, <2>2, CreditTaken DEF Speculate
<1>9. ASSUME NEW w \in Workers, BusyWorker(w) PROVE CreditsInv'
  BY <1>9 DEF BusyWorker
<1>10. ASSUME NEW w \in Workers,
              Join(w) \/ ConnLost(w) \/ WriterFails(w) \/ Settle(w) \/ Collect(w) \/ Requeue(w)
       PROVE  CreditsInv'
  BY <1>10 DEF Join, ConnLost, WriterFails, Settle, Collect, Requeue
<1>11. ASSUME NEW w \in Workers, Recv(w) PROVE CreditsInv'
  BY <1>0, <1>11, CreditReturned
\* The departing reader forgets what its worker was sent, not its credits: the
\* connection is lost by then.
<1>12. ASSUME NEW w \in Workers, Retain(w) PROVE CreditsInv'
  <2>1. /\ w \in lost /\ lost' = lost /\ inflight' = inflight
        /\ sent' = [sent EXCEPT ![w] = [j \in Jobs |-> 0]]
    BY <1>12 DEF Retain
  <2>2. \A v \in Workers \ lost : sent'[v] = sent[v]
    BY <2>1 DEF CreditsInv, Typed, TypeOK
  <2> QED
    BY <1>0, <2>1, <2>2 DEF CreditsInv, Unanswered
<1>13. CASE UNCHANGED vars
  BY <1>13 DEF vars
<1> QED
  BY <1>2, <1>3, <1>4, <1>5, <1>6, <1>7, <1>8, <1>9, <1>10, <1>11, <1>12, <1>13
  DEF Next, PumpStep, ConnStep

\* No credit leaks and none is given back twice: the in-flight count of a
\* connected worker is the number of frames it has yet to answer, through
\* speculation, failed sends and replies to jobs already answered.
THEOREM CreditsBalance == Spec => []CreditsMatchFrames
<1>1. Init => CreditsInv
  <2> SUFFICES ASSUME Init, NEW w \in Workers
               PROVE  IsFiniteSet(Unanswered(w)) /\ inflight[w] = Cardinality(Unanswered(w))
    BY TypedInit DEF CreditsInv
  <2>1. Unanswered(w) = {}
    BY DEF Init, Unanswered
  <2>2. inflight[w] = 0
    BY DEF Init
  <2> QED
    BY <2>1, <2>2, FS_EmptySet
<1>2. CreditsInv => CreditsMatchFrames
  <2>1. Typed => Connected \subseteq Workers
    BY RangeOfSeq DEF Connected, Typed, TypeOK
  <2> QED
    BY <2>1 DEF CreditsInv, CreditsMatchFrames
<1> QED
  BY <1>1, <1>2, CreditsStep, PTL DEF Spec
=============================================================================
