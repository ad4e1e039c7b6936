----------------------------- MODULE FleetProofs -----------------------------
(* Theorems about the workers the driver lists: the pool barrier, for any   *)
(* callers, workers and quorum; the sessions and the end of a lap, for any  *)
(* workers, shards, digests and what the stores hold.                       *)
EXTENDS PoolBarrier, WorkerSession, FiniteSetTheorems, SequenceTheorems, TLAPS

-----------------------------------------------------------------------------
(* The pool barrier                                                        *)

\* A larger pool meets every quorum a smaller one meets.
LEMMA QuorumIsMonotone ==
  ASSUME NEW S \in SUBSET Workers, NEW T \in SUBSET Workers, S \subseteq T, Quorum(S)
  PROVE  Quorum(T)
<1> DEFINE Shards(ws) == {Shard[w] : w \in ws} \ {NoShard}
<1>1. IsFiniteSet(T)
  BY WorkersFinite, FS_Subset
<1>2. IsFiniteSet(Shards(T))
  <2>1. IsFiniteSet({Shard[w] : w \in T})
    <3> DEFINE img == {Shard[w] : w \in T}
               f   == [w \in T |-> Shard[w]]
    <3>1. f \in Surjection(T, img)
      BY DEF Surjection
    <3> QED
      BY <1>1, <3>1, FS_Surjection
  <2> QED
    BY <2>1, FS_Subset
<1>3. Cardinality(S) <= Cardinality(T) /\ IsFiniteSet(S)
  BY <1>1, FS_Subset
<1>4. Cardinality(Shards(S)) <= Cardinality(Shards(T)) /\ IsFiniteSet(Shards(S))
  <2>1. Shards(S) \subseteq Shards(T)
    OBVIOUS
  <2> QED
    BY <1>2, <2>1, FS_Subset
<1>5. /\ Cardinality(S) \in Nat /\ Cardinality(T) \in Nat
      /\ Cardinality(Shards(S)) \in Nat /\ Cardinality(Shards(T)) \in Nat
  BY <1>1, <1>2, <1>3, <1>4, FS_CardinalityType
<1>6. Cardinality(T) >= MinWorkers
  BY <1>3, <1>5, QuorumAssumption DEF Quorum
<1>7. Cardinality(Shards(T)) >= RequireShards
  <2>1. Cardinality(Shards(S)) >= RequireShards
    BY DEF Quorum
  <2> QED
    BY <2>1, <1>4, <1>5, QuorumAssumption
<1> QED
  BY <1>6, <1>7 DEF Quorum

----------------------------------------------------------------------------
LEMMA StepTypeOK == TypeOK /\ [Next]_vars => TypeOK'
<1> SUFFICES ASSUME TypeOK, [Next]_vars PROVE TypeOK'
  OBVIOUS
<1> USE DEF TypeOK, PCs
<1>1. ASSUME NEW c \in Callers, CallStep(c) PROVE TypeOK'
  BY <1>1 DEF CallStep, LoadLatch, CheckQuorum, Park, SetLatch
<1>2. ASSUME NEW w \in Workers, PushWorker(w) PROVE TypeOK'
  <2>1. reached' \in BOOLEAN
    BY <1>2 DEF PushWorker, Quorum
  <2> QED
    BY <1>2, <2>1 DEF PushWorker
<1>3. ASSUME NEW w \in Workers, NotifyWaiters(w) \/ LeaveWorker(w) PROVE TypeOK'
  BY <1>3 DEF NotifyWaiters, LeaveWorker
<1>4. CASE UNCHANGED vars
  BY <1>4 DEF vars
<1> QED
  BY <1>1, <1>2, <1>3, <1>4 DEF Next

\* Every variable keeps its type.
THEOREM TypeCorrect == Spec => []TypeOK
<1>1. Init => TypeOK
  BY DEF Init, TypeOK, PCs, Quorum
<1> QED
  BY <1>1, StepTypeOK, PTL DEF Spec

----------------------------------------------------------------------------
\* Why no call slips through early: from the moment a call has seen the
\* quorum met, in whatever order the latch is set and workers leave, the
\* history remembers it; and a pool that meets the quorum has been noticed
\* when its last member was pushed.
IInv ==
  /\ TypeOK
  /\ \A c \in Callers : pc[c] \in {"latch", "passed"} => reached
  /\ poolFormed => reached
  /\ Quorum(Connected(conn)) => reached

LEMMA InitIInv == Init => IInv
<1> SUFFICES ASSUME Init PROVE IInv
  OBVIOUS
<1>1. TypeOK
  BY DEF Init, TypeOK, PCs, Quorum
<1>2. Connected(conn) = {}
  BY DEF Init, Connected
<1> QED
  BY <1>1, <1>2 DEF Init, IInv

LEMMA StepIInv == IInv /\ [Next]_vars => IInv'
<1> SUFFICES ASSUME IInv, TypeOK', [Next]_vars PROVE IInv'
  BY StepTypeOK DEF IInv
<1> USE DEF IInv
<1>1. ASSUME NEW c \in Callers, LoadLatch(c) PROVE IInv'
  BY <1>1 DEF LoadLatch, TypeOK
<1>2. ASSUME NEW c \in Callers, CheckQuorum(c) PROVE IInv'
  BY <1>2 DEF CheckQuorum, TypeOK
<1>3. ASSUME NEW c \in Callers, Park(c) \/ SetLatch(c) PROVE IInv'
  BY <1>3 DEF Park, SetLatch, TypeOK
<1>4. ASSUME NEW w \in Workers, PushWorker(w) PROVE IInv'
  BY <1>4 DEF PushWorker
<1>5. ASSUME NEW w \in Workers, NotifyWaiters(w) PROVE IInv'
  <2>1. Connected(conn') = Connected(conn)
    BY <1>5 DEF NotifyWaiters, Connected, TypeOK
  <2> QED
    BY <1>5, <2>1 DEF NotifyWaiters, TypeOK
<1>6. ASSUME NEW w \in Workers, LeaveWorker(w) PROVE IInv'
  <2>1. Connected(conn') \subseteq Connected(conn)
    BY <1>6 DEF LeaveWorker, Connected, TypeOK
  <2>2. Quorum(Connected(conn')) => reached
    BY <2>1, QuorumIsMonotone DEF Connected
  <2> QED
    BY <1>6, <2>2 DEF LeaveWorker
<1>7. CASE UNCHANGED vars
  BY <1>7 DEF vars
<1> QED
  BY <1>1, <1>2, <1>3, <1>4, <1>5, <1>6, <1>7 DEF Next, CallStep

\* No call passes the barrier, and the latch is not set, before the pool has
\* met the quorum, whatever joins and leaves while calls check, park and wake.
THEOREM BarrierHolds == Spec => []DispatchOnlyAfterQuorum
<1>1. IInv => DispatchOnlyAfterQuorum
  BY DEF IInv, DispatchOnlyAfterQuorum
<1> QED
  BY <1>1, InitIInv, StepIInv, PTL DEF Spec

-----------------------------------------------------------------------------
(* The roster, in which nobody is twice                                    *)

LEMMA RemoveAtOnce ==
  ASSUME NEW S, NEW s \in Seq(S), NEW i \in DOMAIN s, IsInjective(s)
  PROVE  /\ RemoveAt(s, i) \in Seq(S) /\ IsInjective(RemoveAt(s, i))
         /\ Range(RemoveAt(s, i)) = Range(s) \ {s[i]}
<1> DEFINE n == Len(s)
           a == SubSeq(s, 1, i - 1)
           b == SubSeq(s, i + 1, n)
           t == RemoveAt(s, i)
<1>1. n \in Nat /\ DOMAIN s = 1..n /\ i \in 1..n /\ \A k \in 1..n : s[k] \in S
  BY LenProperties, ElementOfSeq
<1>2. a \in Seq(S) /\ Len(a) = i - 1 /\ \A k \in 1..(i - 1) : a[k] = s[k]
  BY <1>1, SubSeqProperties
<1>3. b \in Seq(S) /\ Len(b) = n - i /\ \A k \in 1..(n - i) : b[k] = s[k + i]
  <2>1. \A k \in (i + 1)..n : s[k] \in S
    BY <1>1
  <2>2. /\ b \in Seq(S) /\ Len(b) = (IF i + 1 <= n THEN n - (i + 1) + 1 ELSE 0)
        /\ \A k \in 1..(n - (i + 1) + 1) : b[k] = s[i + 1 + k - 1]
    BY <1>1, <2>1, SubSeqProperties
  <2> HIDE DEF b
  <2>3. \A k \in 1..(n - i) : i + 1 + k - 1 = k + i
    BY <1>1
  <2> QED
    BY <1>1, <2>2, <2>3
<1> HIDE DEF a, b
<1>4. t = a \o b
  BY DEF RemoveAt, a, b
<1> HIDE DEF t
<1>5. /\ t \in Seq(S) /\ Len(t) = n - 1
      /\ \A k \in 1..(n - 1) : t[k] = IF k < i THEN s[k] ELSE s[k + 1]
  <2>1. /\ t \in Seq(S) /\ Len(t) = (i - 1) + (n - i)
        /\ \A k \in 1..((i - 1) + (n - i)) : t[k] = IF k <= i - 1 THEN a[k] ELSE b[k - (i - 1)]
    BY <1>2, <1>3, <1>4, ConcatProperties
  <2>2. ASSUME NEW k \in 1..(n - 1) PROVE t[k] = IF k < i THEN s[k] ELSE s[k + 1]
    <3>1. CASE k < i
      BY <1>1, <1>2, <2>1, <3>1
    <3>2. CASE k >= i
      <4>1. t[k] = b[k - (i - 1)] /\ k - (i - 1) \in 1..(n - i)
        BY <1>1, <2>1, <3>2
      <4>2. k - (i - 1) + i = k + 1
        BY <1>1
      <4> QED
        BY <1>1, <1>3, <3>2, <4>1, <4>2
    <3> QED
      BY <1>1, <3>1, <3>2
  <2> QED
    BY <1>1, <2>1, <2>2
<1>6. DOMAIN t = 1..(n - 1)
  BY <1>5, LenProperties
<1>7. IsInjective(t)
  BY <1>1, <1>5, <1>6 DEF IsInjective
<1>8. ASSUME NEW k \in DOMAIN t PROVE t[k] \in Range(s) \ {s[i]}
  BY <1>1, <1>5, <1>6 DEF Range, IsInjective
<1>9. ASSUME NEW k \in DOMAIN s, k # i PROVE s[k] \in Range(t)
  <2>1. CASE k < i
    <3>1. k \in 1..(n - 1) /\ t[k] = s[k]
      BY <1>1, <1>5, <2>1
    <3> QED
      BY <1>6, <3>1 DEF Range
  <2>2. CASE k > i
    <3>1. k - 1 \in 1..(n - 1) /\ ~(k - 1 < i) /\ k - 1 + 1 = k
      BY <1>1, <2>2
    <3>2. t[k - 1] = s[k]
      BY <1>5, <3>1
    <3> QED
      BY <1>6, <3>1, <3>2 DEF Range
  <2> QED
    BY <1>1, <1>9, <2>1, <2>2
<1>10. Range(t) = Range(s) \ {s[i]}
  BY <1>8, <1>9 DEF Range
<1> QED
  BY <1>5, <1>7, <1>10 DEF t

LEMMA RosterGrows ==
  ASSUME NEW s \in Seq(Nodes), IsInjective(s), NEW n \in Nodes, n \notin Range(s)
  PROVE  /\ Append(s, n) \in Seq(Nodes) /\ IsInjective(Append(s, n))
         /\ Range(Append(s, n)) = Range(s) \cup {n}
<1>1. /\ Append(s, n) \in Seq(Nodes)
      /\ DOMAIN s = 1 .. Len(s) /\ DOMAIN Append(s, n) = 1 .. (Len(s) + 1) /\ Len(s) \in Nat
      /\ \A i \in 1 .. Len(s) : Append(s, n)[i] = s[i]
      /\ Append(s, n)[Len(s) + 1] = n
  OBVIOUS
<1> DEFINE t == Append(s, n)
<1> HIDE DEF t
<1>2. IsInjective(t)
  BY <1>1 DEF IsInjective, Range, t
<1>3. Range(t) = Range(s) \cup {n}
  <2>1. \A i \in DOMAIN t : i \in DOMAIN s \/ i = Len(s) + 1
    BY <1>1 DEF t
  <2> QED
    BY <1>1, <2>1 DEF Range, t
<1> QED
  BY <1>1, <1>2, <1>3 DEF t

LEMMA ListedIsRange == Listed = Range(roster)
  BY DEF Listed, ToSet, Range

\* Everybody who is listed has a place of his own.
LEMMA PlacesDiffer ==
  ASSUME roster \in Seq(Nodes)
  PROVE  /\ IsFiniteSet(Listed)
         /\ \A n \in Listed : Place(n) \in DOMAIN roster /\ Place(n) \in Nat /\ roster[Place(n)] = n
         /\ \A m, n \in Listed : Place(m) = Place(n) => m = n
<1>1. roster \in [1 .. Len(roster) -> Nodes] /\ Len(roster) \in Nat /\ DOMAIN roster = 1 .. Len(roster)
  OBVIOUS
<1>2. \A n \in Listed : \E i \in DOMAIN roster : roster[i] = n
  BY DEF Listed, ToSet
<1>3. \A n \in Listed : Place(n) \in DOMAIN roster /\ roster[Place(n)] = n
  BY <1>2 DEF Place
<1>4. roster \in Surjection(1 .. Len(roster), Listed)
  BY <1>1 DEF Surjection, Listed, ToSet
<1>5. IsFiniteSet(1 .. Len(roster))
  BY <1>1, FS_Interval
<1>6. IsFiniteSet(Listed)
  BY <1>4, <1>5, FS_Surjection
<1> QED
  BY <1>1, <1>3, <1>6

-----------------------------------------------------------------------------
(* finalize_shards                                                         *)

LEMMA SlicesFinite == IsFiniteSet(Slices) /\ Slices \subseteq Nat
  BY SessionAssumption, FS_Interval DEF Slices

\* Two shards that nobody restored, or two spare workers, are never equally far
\* back in their orders.
LEMMA RanksDiffer ==
  ASSUME roster \in Seq(Nodes)
  PROVE  /\ \A r, s \in Slices :
              Restorers(r) = {} /\ Restorers(s) = {}
                /\ Cardinality(Before(r)) = Cardinality(Before(s)) => r = s
         /\ \A m, n \in Spare : Cardinality(AheadOf(m)) = Cardinality(AheadOf(n)) => m = n
<1>1. ASSUME NEW r \in Slices, NEW s \in Slices, r < s, Restorers(r) = {},
             Cardinality(Before(r)) = Cardinality(Before(s))
      PROVE  FALSE
  <2>1. r \in Before(s) /\ r \notin Before(r)
    BY <1>1, SlicesFinite DEF Before
  <2>2. ASSUME NEW q \in Before(r) PROVE q \in Before(s)
    <3>1. q \in Slices /\ q < r /\ Restorers(q) = {}
      BY DEF Before
    <3>2. q < s
      BY <1>1, <3>1, SlicesFinite
    <3> QED
      BY <3>1, <3>2 DEF Before
  <2>3. IsFiniteSet(Before(s))
    BY SlicesFinite, FS_Subset DEF Before
  <2> QED
    BY <1>1, <2>1, <2>2, <2>3, FS_Subset
<1>2. ASSUME NEW m \in Spare, NEW n \in Spare, Place(m) < Place(n),
             Cardinality(AheadOf(m)) = Cardinality(AheadOf(n))
      PROVE  FALSE
  <2>1. \A v \in Spare : Place(v) \in Nat
    BY PlacesDiffer DEF Spare
  <2>2. m \in AheadOf(n) /\ m \notin AheadOf(m)
    BY <1>2, <2>1 DEF AheadOf
  <2>3. AheadOf(m) \subseteq AheadOf(n)
    BY <1>2, <2>1 DEF AheadOf
  <2>4. IsFiniteSet(AheadOf(n))
    <3>1. AheadOf(n) \subseteq Listed
      BY DEF AheadOf, Spare
    <3> QED
      BY <3>1, PlacesDiffer, FS_Subset
  <2> QED
    BY <1>2, <2>2, <2>3, <2>4, FS_Subset
<1>3. \A r, s \in Slices : r = s \/ r < s \/ s < r
  BY SlicesFinite
<1>4. \A m, n \in Spare : m = n \/ Place(m) < Place(n) \/ Place(n) < Place(m)
  <2>1. Spare \subseteq Listed
    BY DEF Spare
  <2> QED
    BY <2>1, PlacesDiffer
<1> QED
  BY <1>1, <1>2, <1>3, <1>4

\* A worker gets at most one shard and a shard at most one worker; only workers
\* that restored a shard get one; a shard that somebody restored goes to one of those.
LEMMA AssignmentsPair ==
  ASSUME roster \in Seq(Nodes)
  PROVE  /\ Assignments \subseteq Listed \X Slices
         /\ \A a, b \in Assignments : a[1] = b[1] <=> a[2] = b[2]
         /\ \A a \in Assignments :
              /\ Preload[a[1]] # NoPreload
              /\ Preload[a[1]] # a[2] => \A n \in Listed : Preload[n] # a[2]
<1>1. ASSUME NEW s \in Slices, NEW n \in Assignee(s)
      PROVE  /\ n \in Listed /\ Preload[n] # NoPreload
             /\ \/ Restorers(s) # {} /\ Preload[n] = s /\ n \in AtHome(s) /\ n \in Homed
                \/ Restorers(s) = {} /\ n \in Spare /\ Cardinality(AheadOf(n)) = Cardinality(Before(s))
  <2>1. CASE Restorers(s) # {}
    <3>1. n \in AtHome(s) /\ n \in Homed
      BY <2>1 DEF Assignee, Homed
    <3>2. n \in Listed /\ Preload[n] = s
      BY <3>1 DEF AtHome, Restorers
    <3> QED
      BY <2>1, <3>1, <3>2, SlicesFinite, SessionAssumption
  <2>2. CASE Restorers(s) = {}
    BY <2>2 DEF Assignee, Spare
  <2> QED
    BY <2>1, <2>2
<1>2. ASSUME NEW r \in Slices, NEW m \in Assignee(r), NEW s \in Slices, NEW n \in Assignee(s)
      PROVE  m = n <=> r = s
  <2>1. CASE Restorers(r) # {} /\ Restorers(s) # {}
    <3>1. Preload[m] = r /\ Preload[n] = s /\ m \in AtHome(r) /\ n \in AtHome(s)
      BY <1>1, <2>1
    <3>2. r = s => Place(m) <= Place(n) /\ Place(n) <= Place(m)
      BY <3>1 DEF AtHome
    <3> QED
      BY <1>1, <3>1, <3>2, PlacesDiffer
  <2>2. CASE Restorers(r) # {} /\ Restorers(s) = {}
    BY <1>1, <2>2 DEF Spare
  <2>3. CASE Restorers(r) = {} /\ Restorers(s) # {}
    BY <1>1, <2>3 DEF Spare
  <2>4. CASE Restorers(r) = {} /\ Restorers(s) = {}
    BY <1>1, <2>4, RanksDiffer
  <2> QED
    BY <2>1, <2>2, <2>3, <2>4
<1>3. \A a \in Assignments : \E s \in Slices : a[2] = s /\ a[1] \in Assignee(s) /\ a = <<a[1], s>>
  BY DEF Assignments
<1>4. Assignments \subseteq Listed \X Slices
  BY <1>1, <1>3
<1>5. \A a, b \in Assignments : a[1] = b[1] <=> a[2] = b[2]
  BY <1>2, <1>3
<1>6. ASSUME NEW a \in Assignments
      PROVE  /\ Preload[a[1]] # NoPreload
             /\ Preload[a[1]] # a[2] => \A n \in Listed : Preload[n] # a[2]
  BY <1>1, <1>3 DEF Restorers
<1> QED
  BY <1>4, <1>5, <1>6

-----------------------------------------------------------------------------
(* The invariant                                                           *)

Serving == {"greeting", "serving", "listing", "fetching"}
Told(n) == \E s \in Slices : <<n, s>> \in told
Saved(a) == a \in acks \/ a[2] \in banked

\* A worker has a connection from its Hello to its end; one that dials is not
\* listed yet; only one that was told to packs a shard, and what it fetches is of it.
Session(n) ==
  /\ link[n] <=> life[n] \in Serving
  /\ n \in Listed => life[n] # "dialling"
  /\ \A i \in 1 .. Len(inbox[n]) : inbox[n][i].kind = "finalize" => Told(n)
  /\ life[n] \in {"listing", "fetching"} => Told(n)
  /\ want[n] # {} => life[n] = "fetching"
  /\ \A s \in Slices : <<n, s>> \in told => want[n] \subseteq InShard(s)
  /\ \A v \in answered[n] : life[v] \in Ended \/ v \in Listed

\* Shards are given out once, each to one worker and one to each; an
\* acknowledgement is of somebody who was told to, and has exited.
Pairs ==
  /\ finale \in {"quiet", "signalled"} => told = {}
  /\ \A a, b \in told : a[1] = b[1] <=> a[2] = b[2]
  /\ acks \subseteq told
  /\ \A s \in banked : \E a \in told : a[2] = s
  /\ \A a \in told : Saved(a) => life[a[1]] = "done"

\* A worker that packs has, has still to fetch or failed to fetch what a peer
\* that answered it has of the shard.
Replica(a) ==
  life[a[1]] = "fetching" \/ Saved(a) =>
    \A v \in answered[a[1]] :
      life[v] \notin Ended =>
        have[v] \cap InShard(a[2]) \subseteq have[a[1]] \cup want[a[1]] \cup skipped[a[1]]

Basics     == SessionTypeOK /\ Pairs /\ \A n \in Nodes : Session(n)
SessionInv == Basics /\ \A a \in told : Replica(a)

LEMMA SessionStarts == SessionInit => SessionInv
<1> SUFFICES ASSUME SessionInit PROVE SessionInv
  OBVIOUS
<1> USE DEF SessionInit
<1>1. SessionTypeOK
  <2>1. Slices \subseteq Nat /\ 0 \in 0 .. Of
    BY SessionAssumption DEF Slices
  <2>2. IsInjective(<<>>) /\ <<>> \in Seq(Nodes) /\ <<>> \in Seq(Frames)
    BY DEF IsInjective
  <2>3. have \in [Nodes -> SUBSET Digests] /\ depot \subseteq Digests
    BY SessionAssumption
  <2> QED
    BY <2>1, <2>2, <2>3 DEF SessionTypeOK
<1>2. Pairs
  BY DEF Pairs
<1>3. \A n \in Nodes : Session(n)
  BY DEF Session, Listed, ToSet, Serving
<1>4. \A a \in told : Replica(a)
  OBVIOUS
<1> QED
  BY <1>1, <1>2, <1>3, <1>4 DEF SessionInv, Basics

-----------------------------------------------------------------------------
(* The steps                                                               *)

LEMMA MineIsTold ==
  ASSUME Basics, NEW n \in Nodes
  PROVE  /\ \A s \in Slices : <<n, s>> \in told => Mine(n) = s
         /\ Told(n) => Mine(n) \in Slices /\ <<n, Mine(n)>> \in told
<1>1. Told(n) => Mine(n) \in Slices /\ <<n, Mine(n)>> \in told
  BY DEF Told, Mine
<1>2. \A r, s \in Slices : <<n, r>> \in told /\ <<n, s>> \in told => r = s
  BY DEF Basics, Pairs
<1> QED
  BY <1>1, <1>2 DEF Told

LEMMA TypesOfLists ==
  ASSUME SessionTypeOK
  PROVE  Listed \subseteq Nodes /\ \A n \in Nodes : inbox[n] \in Seq(Frames)
  BY DEF SessionTypeOK, Listed, ToSet

\* A process in session ends; what it may still have sent is judged by the caller.
LEMMA Ends ==
  ASSUME Basics, NEW n \in Nodes, NEW how \in Ended, End(n, how), life[n] \in Serving,
         UNCHANGED <<driverVars, have, told, answered, skipped>>, acks' \subseteq Nodes \X Slices
  PROVE  SessionTypeOK' /\ \A m \in Nodes : Session(m)'
<1> USE DEF driverVars
<1>1. SessionTypeOK
  BY DEF Basics
<1>2. /\ life' = [life EXCEPT ![n] = how]
      /\ link' = [link EXCEPT ![n] = FALSE]
      /\ inbox' = [inbox EXCEPT ![n] = <<>>]
      /\ want' = [want EXCEPT ![n] = {}]
  BY DEF End
<1>3. SessionTypeOK'
  <2>1. life' \in [Nodes -> {"dialling", "greeting", "serving", "listing", "fetching"} \cup Ended]
    BY <1>1, <1>2 DEF SessionTypeOK
  <2>2. link' \in [Nodes -> BOOLEAN] /\ inbox' \in [Nodes -> Seq(Frames)]
        /\ want' \in [Nodes -> SUBSET Digests]
    BY <1>1, <1>2 DEF SessionTypeOK
  <2>3. UNCHANGED <<up, roster, finale, needed, banked, depot, note, have, told, answered, skipped>>
    OBVIOUS
  <2> QED
    BY <2>1, <2>2, <2>3, <1>1 DEF SessionTypeOK
<1>4. ASSUME NEW m \in Nodes PROVE Session(m)'
  <2>1. Session(m) /\ Listed' = Listed /\ Told(m)' = Told(m)
        /\ answered' = answered /\ answered[m] \subseteq Nodes
    BY <1>1, <1>4 DEF Basics, Listed, Told, SessionTypeOK
  <2>2. \A v \in Nodes : life[v] \in Ended => life'[v] \in Ended
    BY <1>1, <1>2 DEF SessionTypeOK
  <2>3. \A v \in answered'[m] : life'[v] \in Ended \/ v \in Listed'
    BY <2>1, <2>2 DEF Session
  <2>4. CASE m = n
    <3>1. life'[n] \in Ended /\ ~link'[n] /\ inbox'[n] = <<>> /\ want'[n] = {}
      BY <1>1, <1>2 DEF SessionTypeOK
    <3> QED
      BY <2>3, <2>4, <3>1 DEF Session, Serving, Ended
  <2>5. CASE m # n
    <3>1. life'[m] = life[m] /\ link'[m] = link[m] /\ inbox'[m] = inbox[m] /\ want'[m] = want[m]
      BY <1>1, <1>2, <2>5 DEF SessionTypeOK
    <3> QED
      BY <2>1, <2>3, <3>1 DEF Session, InShard
  <2> QED
    BY <2>4, <2>5
<1> QED
  BY <1>3, <1>4

\* If it sent nothing, nothing else changes for the shards.
LEMMA EndsSilently ==
  ASSUME SessionInv, NEW n \in Nodes, NEW how \in Ended, End(n, how), life[n] \in Serving,
         UNCHANGED <<driverVars, acks, have, told, answered, skipped>>
  PROVE  SessionInv'
<1> USE DEF driverVars
<1>1. SessionTypeOK /\ Pairs
  BY DEF SessionInv, Basics
<1>2. SessionTypeOK' /\ \A m \in Nodes : Session(m)'
  BY <1>1, Ends DEF SessionInv, Basics, SessionTypeOK
<1>3. /\ \A v \in Nodes : v # n => life'[v] = life[v] /\ want'[v] = want[v]
      /\ life'[n] \in Ended
  BY <1>1 DEF End, SessionTypeOK
<1>4. \A a \in told : a[1] \in Nodes /\ Saved(a)' = Saved(a) /\ (Saved(a) => a[1] # n)
  BY <1>1 DEF Pairs, Saved, SessionTypeOK, Serving
<1>5. Pairs'
  BY <1>1, <1>3, <1>4 DEF Pairs
<1>6. ASSUME NEW a \in told' PROVE Replica(a)'
  <2>1. Replica(a) /\ a \in told
    BY <1>6 DEF SessionInv
  <2>2. CASE a[1] = n
    BY <2>1, <2>2, <1>3, <1>4 DEF Replica, Ended
  <2>3. CASE a[1] # n
    <3>1. answered[a[1]] \subseteq Nodes
      BY <1>1, <1>4, <2>1 DEF SessionTypeOK
    <3> QED
      BY <2>1, <2>3, <3>1, <1>3, <1>4 DEF Replica, InShard
  <2> QED
    BY <2>2, <2>3
<1> QED
  BY <1>2, <1>5, <1>6 DEF SessionInv, Basics

\* The worker dials.
LEMMA Dialled ==
  ASSUME SessionInv, NEW n \in Nodes, Dial(n)
  PROVE  SessionInv'
<1> USE DEF Dial, driverVars
<1>1. SessionTypeOK'
  BY DEF SessionInv, Basics, SessionTypeOK, Ended
<1>2. Pairs'
  BY DEF SessionInv, Basics, Pairs, Saved, SessionTypeOK
<1>3. ASSUME NEW m \in Nodes PROVE Session(m)'
  BY <1>3 DEF SessionInv, Basics, Session, SessionTypeOK, Serving, Ended, Told, Listed, InShard
<1>4. ASSUME NEW a \in told' PROVE Replica(a)'
  BY <1>4 DEF SessionInv, Basics, Replica, Saved, Session, SessionTypeOK, Ended, Serving, InShard
<1> QED
  BY <1>1, <1>2, <1>3, <1>4 DEF SessionInv, Basics

\* It gives up.
LEMMA GivenUp ==
  ASSUME SessionInv, NEW n \in Nodes, GiveUp(n)
  PROVE  SessionInv'
<1> USE DEF GiveUp, driverVars
<1>1. SessionTypeOK'
  BY DEF SessionInv, Basics, SessionTypeOK, Ended
<1>2. Pairs'
  BY DEF SessionInv, Basics, Pairs, Saved, SessionTypeOK
<1>3. ASSUME NEW m \in Nodes PROVE Session(m)'
  BY <1>3 DEF SessionInv, Basics, Session, SessionTypeOK, Serving, Ended, Told, Listed, InShard
<1>4. ASSUME NEW a \in told' PROVE Replica(a)'
  BY <1>4 DEF SessionInv, Basics, Replica, Saved, Session, SessionTypeOK, Ended, Serving, InShard
<1> QED
  BY <1>1, <1>2, <1>3, <1>4 DEF SessionInv, Basics

\* It takes a frame.
LEMMA Received ==
  ASSUME SessionInv, NEW n \in Nodes, Receive(n)
  PROVE  SessionInv'
<1> USE DEF Receive, driverVars
<1> DEFINE f == Head(inbox[n])
<1>1. SessionTypeOK /\ Pairs /\ Session(n)
  BY DEF SessionInv, Basics
<1>2. CASE f.kind = "exit"
  <2>1. End(n, "done")
    BY <1>2
  <2> QED
    BY <2>1, EndsSilently DEF Ended, Serving
<1>3. CASE f.kind # "exit"
  <2>1. /\ life' = [life EXCEPT ![n] = IF f.kind = "welcome" THEN "serving" ELSE "listing"]
        /\ inbox' = [inbox EXCEPT ![n] = Tail(@)]
        /\ UNCHANGED <<up, roster, finale, needed, banked, depot, note, link, want, acks, have,
                       told, answered, skipped>>
    BY <1>3
  <2>2. inbox[n] \in Seq(Frames) /\ inbox[n] # <<>>
    BY <1>1, TypesOfLists
  <2>3. /\ Tail(inbox[n]) \in Seq(Frames) /\ Len(inbox[n]) \in Nat
        /\ Len(Tail(inbox[n])) = Len(inbox[n]) - 1 /\ 1 \in 1 .. Len(inbox[n])
        /\ f = inbox[n][1] /\ f \in Frames
        /\ \A i \in 1 .. Len(Tail(inbox[n])) : Tail(inbox[n])[i] = inbox[n][i + 1]
    BY <2>2
  <2>4. SessionTypeOK'
    <3>1. inbox' \in [Nodes -> Seq(Frames)]
      BY <1>1, <2>1, <2>3 DEF SessionTypeOK
    <3>2. life' \in [Nodes -> {"dialling", "greeting", "serving", "listing", "fetching"} \cup Ended]
      BY <1>1, <2>1 DEF SessionTypeOK
    <3> QED
      BY <1>1, <2>1, <3>1, <3>2 DEF SessionTypeOK
  <2>5. /\ life'[n] \in {"serving", "listing"}
        /\ inbox'[n] = Tail(inbox[n])
        /\ \A v \in Nodes : v # n => life'[v] = life[v] /\ inbox'[v] = inbox[v]
        /\ \A v \in Nodes : Told(v)' = Told(v)
        /\ Listed' = Listed
    BY <1>1, <2>1 DEF SessionTypeOK, Told, Listed
  <2>6. life'[n] = "listing" => Told(n)
    <3>1. life'[n] = "listing" => f.kind = "finalize"
      BY <1>1, <1>3, <2>1, <2>3 DEF SessionTypeOK, Frames
    <3> QED
      BY <1>1, <2>3, <3>1 DEF Session
  <2>7. ASSUME NEW m \in Nodes PROVE Session(m)'
    <3>1. Session(m) /\ answered[m] \subseteq Nodes
      BY <1>1, <2>7 DEF SessionInv, Basics, SessionTypeOK
    <3>2. \A v \in answered'[m] : life'[v] \in Ended \/ v \in Listed'
      BY <2>1, <2>5, <3>1 DEF Session, Ended
    <3>3. CASE m = n
      <4>1. \A i \in 1 .. Len(inbox'[n]) : inbox'[n][i].kind = "finalize" => Told(n)
        <5>1. ASSUME NEW i \in 1 .. Len(inbox'[n])
              PROVE  i + 1 \in 1 .. Len(inbox[n]) /\ inbox'[n][i] = inbox[n][i + 1]
          BY <2>3, <2>5, <5>1
        <5> QED
          BY <5>1, <3>1, <3>3 DEF Session
      <4> QED
        BY <1>1, <2>1, <2>5, <2>6, <3>2, <3>3, <4>1 DEF Session, Serving, InShard
    <3>4. CASE m # n
      BY <2>1, <2>5, <3>1, <3>2, <3>4 DEF Session, InShard
    <3> QED
      BY <3>3, <3>4
  <2>8. \A a \in told : a[1] \in Nodes /\ Saved(a)' = Saved(a) /\ (Saved(a) => a[1] # n)
    BY <1>1, <2>1 DEF Pairs, Saved, SessionTypeOK
  <2>9. Pairs'
    BY <1>1, <2>1, <2>5, <2>8 DEF Pairs
  <2>10. ASSUME NEW a \in told' PROVE Replica(a)'
    <3>1. Replica(a) /\ a \in told /\ answered[a[1]] \subseteq Nodes
      BY <1>1, <2>1, <2>8, <2>10 DEF SessionInv, SessionTypeOK
    <3> QED
      BY <2>1, <2>5, <2>8, <3>1 DEF Replica, InShard, Ended
  <2> QED
    BY <2>4, <2>7, <2>9, <2>10 DEF SessionInv, Basics
<1> QED
  BY <1>2, <1>3

\* It notices the silence.
LEMMA Watched ==
  ASSUME SessionInv, NEW n \in Nodes, Watchdog(n)
  PROVE  SessionInv'
<1>1. SessionTypeOK /\ End(n, "done")
  BY DEF SessionInv, Basics, Watchdog
<1> QED
  BY <1>1, EndsSilently DEF Watchdog, Ended, Serving, SessionTypeOK

\* Its connection breaks.
LEMMA Broken ==
  ASSUME SessionInv, NEW n \in Nodes, Break(n)
  PROVE  SessionInv'
<1>1. SessionTypeOK /\ Session(n)
  BY DEF SessionInv, Basics
<1>2. life[n] \in Serving
  BY <1>1 DEF Break, Session, SessionTypeOK
<1>3. End(n, "done") \/ End(n, "failed")
  BY DEF Break
<1>4. UNCHANGED <<driverVars, acks, have, told, answered, skipped>>
  BY DEF Break
<1> QED
  BY <1>2, <1>3, <1>4, EndsSilently DEF Ended

\* What the peers have and the worker has not is to be fetched.
LEMMA ShardListed ==
  ASSUME SessionInv, NEW n \in Nodes, ListShard(n)
  PROVE  SessionInv'
<1> USE DEF driverVars
<1>1. Basics /\ SessionTypeOK /\ Pairs /\ Session(n) /\ life[n] = "listing"
  BY DEF SessionInv, Basics, ListShard
<1>2. PICK ps \in SUBSET {v \in Listed : life[v] \notin Ended}, listed \in BOOLEAN :
        /\ ~listed => ps = {}
        /\ answered' = [answered EXCEPT ![n] = ps]
        /\ want' = [want EXCEPT ![n] =
             IF listed THEN (InShard(Mine(n)) \cap (depot \cup UNION {have[v] : v \in ps})) \ have[n]
             ELSE {}]
  BY DEF ListShard
<1>3. life' = [life EXCEPT ![n] = "fetching"]
      /\ UNCHANGED <<up, roster, finale, needed, banked, depot, note, link, inbox, acks, have, told, skipped>>
  BY DEF ListShard
<1>4. Told(n) /\ Mine(n) \in Slices /\ <<n, Mine(n)>> \in told
  BY <1>1, MineIsTold DEF Session
<1>5. ps \subseteq Nodes /\ ps \subseteq Listed /\ InShard(Mine(n)) \subseteq Digests
  BY <1>1, TypesOfLists DEF InShard
<1>6. /\ answered'[n] = ps
      /\ want'[n] = IF listed THEN (InShard(Mine(n)) \cap (depot \cup UNION {have[v] : v \in ps})) \ have[n]
                     ELSE {}
      /\ life'[n] = "fetching"
      /\ \A v \in Nodes : v # n => life'[v] = life[v] /\ want'[v] = want[v] /\ answered'[v] = answered[v]
      /\ \A v \in Nodes : life'[v] \in Ended <=> life[v] \in Ended
      /\ \A v \in Nodes : Told(v)' = Told(v)
      /\ Listed' = Listed
  BY <1>1, <1>2, <1>3 DEF SessionTypeOK, Told, Listed, Ended
<1>7. SessionTypeOK'
  <2>1. want'[n] \subseteq Digests
    BY <1>5, <1>6
  <2>2. want' \in [Nodes -> SUBSET Digests] /\ answered' \in [Nodes -> SUBSET Nodes]
    BY <1>1, <1>2, <1>5, <1>6, <2>1 DEF SessionTypeOK
  <2>3. life' \in [Nodes -> {"dialling", "greeting", "serving", "listing", "fetching"} \cup Ended]
    BY <1>1, <1>3 DEF SessionTypeOK
  <2> QED
    BY <1>1, <1>3, <2>2, <2>3 DEF SessionTypeOK
<1>8. ASSUME NEW m \in Nodes PROVE Session(m)'
  <2>1. Session(m) /\ answered[m] \subseteq Nodes
    BY <1>1, <1>8 DEF Basics, SessionTypeOK
  <2>2. CASE m = n
    <3>1. \A s \in Slices : <<n, s>> \in told => want'[n] \subseteq InShard(s)
      BY <1>1, <1>6, MineIsTold
    <3> QED
      BY <1>1, <1>3, <1>4, <1>5, <1>6, <2>1, <2>2, <3>1 DEF Session, Serving, Ended, InShard
  <2>3. CASE m # n
    BY <1>3, <1>6, <2>1, <2>3 DEF Session, InShard
  <2> QED
    BY <2>2, <2>3
<1>9. \A a \in told : a[1] \in Nodes /\ a[2] \in Slices /\ a = <<a[1], a[2]>>
                     /\ Saved(a)' = Saved(a) /\ (Saved(a) => a[1] # n)
  BY <1>1, <1>3 DEF Pairs, Saved, SessionTypeOK
<1>10. Pairs'
  BY <1>1, <1>3, <1>6, <1>9 DEF Pairs
<1>11. ASSUME NEW a \in told' PROVE Replica(a)'
  <2>1. Replica(a) /\ a \in told /\ answered[a[1]] \subseteq Nodes
    BY <1>1, <1>3, <1>9, <1>11 DEF SessionInv, SessionTypeOK
  <2>2. CASE a[1] = n
    <3>1. a[2] = Mine(n)
      BY <1>1, <1>9, <2>1, <2>2, MineIsTold
    <3>2. \A v \in ps : have[v] \cap InShard(Mine(n)) \subseteq have[n] \cup want'[n]
      BY <1>2, <1>6
    <3> QED
      BY <1>3, <1>6, <2>2, <3>1, <3>2 DEF Replica, InShard
  <2>3. CASE a[1] # n
    BY <1>3, <1>6, <1>9, <2>1, <2>3 DEF Replica, InShard
  <2> QED
    BY <2>2, <2>3
<1> QED
  BY <1>7, <1>8, <1>10, <1>11 DEF SessionInv, Basics

\* What cannot be had from a listed peer no answering one has any more.
LEMMA Fetched ==
  ASSUME SessionInv, NEW n \in Nodes, Fetch(n)
  PROVE  SessionInv'
<1>1. Basics /\ SessionTypeOK /\ Pairs /\ Session(n) /\ life[n] = "fetching"
  BY DEF SessionInv, Basics, Fetch
<1>2. PICK d \in want[n] :
        /\ want' = [want EXCEPT ![n] = @ \ {d}]
        /\ \/ /\ depot' = depot \cup {d}
              /\ have' = [have EXCEPT ![n] = @ \cup {d}]
              /\ UNCHANGED skipped
           \/ /\ \A v \in Listed : life[v] \in Ended \/ d \notin have[v]
              /\ UNCHANGED <<depot, have, skipped>>
           \/ /\ skipped' = [skipped EXCEPT ![n] = @ \cup {d}]
              /\ UNCHANGED <<depot, have>>
  BY DEF Fetch
<1>3. UNCHANGED <<up, roster, finale, needed, banked, note, life, link, inbox, acks, told, answered>>
  BY DEF Fetch
<1>4. Told(n) /\ Mine(n) \in Slices /\ <<n, Mine(n)>> \in told
  BY <1>1, MineIsTold DEF Session
<1>5. d \in Digests /\ ShardOf[d] = Mine(n)
  BY <1>1, <1>4 DEF Session, InShard
<1>6. /\ want'[n] = want[n] \ {d}
      /\ \A v \in Nodes : v # n => want'[v] = want[v] /\ have'[v] = have[v]
      /\ have'[n] = have[n] \/ have'[n] = have[n] \cup {d}
      /\ \A v \in Nodes : Told(v)' = Told(v)
      /\ Listed' = Listed
      /\ \A v \in Nodes : skipped[v] \subseteq skipped'[v]
  BY <1>1, <1>2, <1>3 DEF SessionTypeOK, Told, Listed
<1>7. SessionTypeOK'
  <2>1. want' \in [Nodes -> SUBSET Digests]
    BY <1>1, <1>2 DEF SessionTypeOK
  <2>2. have' = have \/ have' = [have EXCEPT ![n] = @ \cup {d}]
    BY <1>2
  <2>3. have' \in [Nodes -> SUBSET Digests]
    <3>1. have \in [Nodes -> SUBSET Digests] /\ have[n] \cup {d} \in SUBSET Digests
      BY <1>1, <1>5 DEF SessionTypeOK
    <3>2. [have EXCEPT ![n] = @ \cup {d}] \in [Nodes -> SUBSET Digests]
      BY <3>1
    <3> QED
      BY <2>2, <3>1, <3>2
  <2>4. depot' = depot \/ depot' = depot \cup {d}
    BY <1>2
  <2>5. skipped' = skipped \/ skipped' = [skipped EXCEPT ![n] = @ \cup {d}]
    BY <1>2
  <2>6. depot' \subseteq Digests /\ skipped' \in [Nodes -> SUBSET Digests]
    <3>1. skipped \in [Nodes -> SUBSET Digests] /\ skipped[n] \cup {d} \in SUBSET Digests
      BY <1>1, <1>5 DEF SessionTypeOK
    <3>2. [skipped EXCEPT ![n] = @ \cup {d}] \in [Nodes -> SUBSET Digests]
      BY <3>1
    <3> QED
      BY <1>1, <1>5, <2>4, <2>5, <3>1, <3>2 DEF SessionTypeOK
  <2> QED
    BY <1>1, <1>3, <2>1, <2>3, <2>6 DEF SessionTypeOK
<1>8. ASSUME NEW m \in Nodes PROVE Session(m)'
  <2>1. Session(m)
    BY <1>1, <1>8 DEF Basics
  <2>2. want'[m] \subseteq want[m]
    BY <1>6
  <2> QED
    BY <1>3, <1>6, <2>1, <2>2 DEF Session, InShard
<1>9. \A a \in told : a[1] \in Nodes /\ a[2] \in Slices /\ Saved(a)' = Saved(a)
  BY <1>1, <1>3 DEF Pairs, Saved, SessionTypeOK
<1>10. Pairs'
  BY <1>1, <1>3, <1>9 DEF Pairs
<1>11. ASSUME NEW a \in told', NEW v \in answered'[a[1]],
              life'[a[1]] = "fetching" \/ Saved(a)', life'[v] \notin Ended
       PROVE  have'[v] \cap InShard(a[2]) \subseteq have'[a[1]] \cup want'[a[1]] \cup skipped'[a[1]]
  <2>1. a \in told /\ a[1] \in Nodes /\ a[2] \in Slices /\ v \in Nodes /\ a = <<a[1], a[2]>>
    BY <1>1, <1>3, <1>9, <1>11 DEF SessionTypeOK
  <2>2. have[v] \cap InShard(a[2]) \subseteq have[a[1]] \cup want[a[1]] \cup skipped[a[1]]
    BY <1>3, <1>6, <1>9, <1>11, <2>1 DEF SessionInv, Replica
  <2>3. CASE v = a[1]
    BY <2>3
  <2>4. CASE v # a[1] /\ a[1] = n
    <3>1. have'[v] = have[v]
      BY <1>6, <2>1, <2>4
    <3>2. d \in have'[n] \/ d \notin have[v] \/ d \in skipped'[n]
      <4>1. v \in Listed
        BY <1>1, <1>3, <1>11, <2>4 DEF Session
      <4> QED
        BY <1>1, <1>2, <1>3, <1>11, <2>4, <4>1 DEF SessionTypeOK
    <3> QED
      BY <1>6, <2>2, <2>4, <3>1, <3>2
  <2>5. CASE v # a[1] /\ v = n
    <3>1. a[2] # Mine(n)
      BY <1>1, <1>4, <2>1, <2>5 DEF Pairs
    <3>2. d \notin InShard(a[2])
      BY <1>5, <3>1 DEF InShard
    <3> QED
      BY <1>6, <2>1, <2>2, <2>5, <3>2
  <2>6. CASE v # n /\ a[1] # n
    BY <1>6, <2>1, <2>2, <2>6
  <2> QED
    BY <2>3, <2>4, <2>5, <2>6
<1>12. \A a \in told' : Replica(a)'
  BY <1>11 DEF Replica, InShard
<1> QED
  BY <1>7, <1>8, <1>10, <1>12 DEF SessionInv, Basics

\* All that was to be fetched is there, or its fetch failed.
LEMMA Acknowledged ==
  ASSUME SessionInv, NEW n \in Nodes, Acknowledge(n)
  PROVE  SessionInv'
<1> USE DEF driverVars
<1>1. Basics /\ SessionTypeOK /\ Pairs /\ Session(n)
  BY DEF SessionInv, Basics
<1>2. /\ life[n] = "fetching" /\ want[n] = {} /\ End(n, "done")
      /\ acks' = acks \cup {<<n, Mine(n)>>} \/ acks' = acks
      /\ UNCHANGED <<up, roster, finale, needed, banked, depot, note, have, told, answered, skipped>>
  BY DEF Acknowledge
<1>3. Mine(n) \in Slices /\ <<n, Mine(n)>> \in told
  BY <1>1, <1>2, MineIsTold DEF Session
<1>4. SessionTypeOK' /\ \A m \in Nodes : Session(m)'
  <2>1. acks' \subseteq Nodes \X Slices
    BY <1>1, <1>2, <1>3 DEF SessionTypeOK
  <2> QED
    BY <1>1, <1>2, <2>1, Ends DEF Ended, Serving
<1>5. /\ \A v \in Nodes : v # n => life'[v] = life[v] /\ want'[v] = want[v]
      /\ life'[n] = "done" /\ want'[n] = {}
  BY <1>1, <1>2 DEF End, SessionTypeOK
<1>6. \A a \in told : a[1] \in Nodes /\ (Saved(a)' => Saved(a) \/ a[1] = n)
  BY <1>1, <1>2 DEF Saved, SessionTypeOK
<1>7. Pairs'
  BY <1>1, <1>2, <1>3, <1>5, <1>6 DEF Pairs
<1>8. ASSUME NEW a \in told' PROVE Replica(a)'
  <2>1. Replica(a) /\ a \in told /\ a[1] \in Nodes /\ answered[a[1]] \subseteq Nodes
    BY <1>1, <1>2, <1>6, <1>8 DEF SessionInv, SessionTypeOK
  <2>2. \A v \in Nodes : life'[v] \notin Ended => life[v] \notin Ended
    BY <1>5 DEF Ended
  <2>3. CASE a[1] = n
    BY <1>2, <1>5, <2>1, <2>2, <2>3 DEF Replica, InShard
  <2>4. CASE a[1] # n
    BY <1>2, <1>5, <1>6, <2>1, <2>2, <2>4 DEF Replica, InShard
  <2> QED
    BY <2>3, <2>4
<1> QED
  BY <1>4, <1>7, <1>8 DEF SessionInv, Basics

\* The driver lists it.
LEMMA Enrolled ==
  ASSUME SessionInv, NEW n \in Nodes, Enroll(n)
  PROVE  SessionInv'
<1>1. Basics /\ SessionTypeOK /\ Pairs
  BY DEF SessionInv, Basics
<1>2. /\ life[n] = "greeting" /\ n \notin Listed
      /\ roster' = Append(roster, n)
      /\ inbox' = [inbox EXCEPT ![n] = Append(@, Welcome)]
      /\ UNCHANGED <<up, finale, needed, banked, depot, note, life, link, acks, have, want, told,
                     answered, skipped>>
  BY DEF Enroll, Send
<1>3. roster' \in Seq(Nodes) /\ IsInjective(roster') /\ Listed' = Listed \cup {n}
  <2>1. n \notin Range(roster) /\ roster \in Seq(Nodes) /\ IsInjective(roster)
    BY <1>1, <1>2, ListedIsRange DEF SessionTypeOK
  <2>2. /\ Append(roster, n) \in Seq(Nodes) /\ IsInjective(Append(roster, n))
        /\ Range(Append(roster, n)) = Range(roster) \cup {n}
    BY <2>1, RosterGrows
  <2> QED
    BY <1>2, <2>2 DEF Listed, ToSet, Range
<1>4. inbox[n] \in Seq(Frames) /\ Welcome \in Frames /\ Welcome.kind = "welcome"
  <2>1. 0 \in Slices
    BY SessionAssumption DEF Slices
  <2> QED
    BY <1>1, <2>1, TypesOfLists DEF Welcome, Frames
<1>5. /\ inbox'[n] = Append(inbox[n], Welcome) /\ inbox'[n] \in Seq(Frames)
      /\ Len(inbox'[n]) = Len(inbox[n]) + 1 /\ Len(inbox[n]) \in Nat
      /\ \A i \in 1 .. Len(inbox[n]) : inbox'[n][i] = inbox[n][i]
      /\ inbox'[n][Len(inbox[n]) + 1] = Welcome
      /\ \A v \in Nodes : v # n => inbox'[v] = inbox[v]
  BY <1>1, <1>2, <1>4 DEF SessionTypeOK
<1>6. SessionTypeOK'
  <2>1. inbox' \in [Nodes -> Seq(Frames)]
    BY <1>1, <1>2, <1>5 DEF SessionTypeOK
  <2> QED
    BY <1>1, <1>2, <1>3, <2>1 DEF SessionTypeOK
<1>7. ASSUME NEW m \in Nodes PROVE Session(m)'
  <2>1. Session(m) /\ Told(m)' = Told(m)
    BY <1>1, <1>2, <1>7 DEF Basics, Told
  <2>2. \A i \in 1 .. Len(inbox'[m]) : inbox'[m][i].kind = "finalize" => Told(m)
    <3>1. CASE m = n
      <4>1. \A i \in 1 .. Len(inbox'[n]) : i \in 1 .. Len(inbox[n]) \/ i = Len(inbox[n]) + 1
        BY <1>5
      <4> QED
        BY <1>4, <1>5, <2>1, <3>1, <4>1 DEF Session
    <3>2. CASE m # n
      BY <1>5, <2>1, <3>2 DEF Session
    <3> QED
      BY <3>1, <3>2
  <2> QED
    BY <1>2, <1>3, <2>1, <2>2 DEF Session, InShard
<1>8. Pairs'
  BY <1>1, <1>2 DEF Pairs, Saved
<1>9. \A a \in told' : Replica(a)'
  BY <1>2 DEF SessionInv, Replica, Saved, InShard
<1> QED
  BY <1>6, <1>7, <1>8, <1>9 DEF SessionInv, Basics

\* The driver takes the acknowledgement.
LEMMA AckTaken ==
  ASSUME SessionInv, NEW n \in Nodes, TakeAck(n)
  PROVE  SessionInv'
<1> USE DEF TakeAck
<1>1. SessionTypeOK'
  BY DEF SessionInv, Basics, SessionTypeOK, Ended
<1>2. Pairs'
  BY DEF SessionInv, Basics, Pairs, Saved, SessionTypeOK
<1>3. ASSUME NEW m \in Nodes PROVE Session(m)'
  BY <1>3 DEF SessionInv, Basics, Session, SessionTypeOK, Serving, Ended, Told, Listed, InShard
<1>4. ASSUME NEW a \in told' PROVE Replica(a)'
  <2>1. SessionTypeOK /\ Pairs /\ Replica(a) /\ a \in told
    BY <1>4 DEF SessionInv, Basics
  <2>2. PICK b \in acks : banked' = banked \cup {b[2]} /\ acks' = acks \ {b}
    OBVIOUS
  <2>3. b \in told
    BY <2>1 DEF Pairs
  <2>4. a[2] = b[2] => a = b
    <3>1. a[2] = b[2] => a[1] = b[1]
      BY <2>1, <2>3 DEF Pairs
    <3>2. a \in Nodes \X Slices /\ b \in Nodes \X Slices
      BY <2>1, <2>3 DEF SessionTypeOK
    <3> QED
      BY <3>1, <3>2
  <2>5. Saved(a)' => Saved(a)
    BY <2>2, <2>4 DEF Saved
  <2> QED
    BY <2>1, <2>5 DEF Replica, InShard
<1> QED
  BY <1>1, <1>2, <1>3, <1>4 DEF SessionInv, Basics

\* Who is dropped has ended.
LEMMA Dropped ==
  ASSUME SessionInv, NEW n \in Nodes, Drop(n)
  PROVE  SessionInv'
<1>1. Basics /\ SessionTypeOK /\ Pairs /\ Session(n)
  BY DEF SessionInv, Basics
<1>2. /\ n \in Listed /\ ~link[n]
      /\ roster' = RemoveAt(roster, Place(n))
      /\ UNCHANGED <<up, finale, needed, banked, depot, note, life, link, inbox, acks, have, want, told,
                     answered, skipped>>
  BY DEF Drop
<1>3. roster' \in Seq(Nodes) /\ IsInjective(roster') /\ Listed' = Listed \ {n}
  <2>1. Place(n) \in DOMAIN roster /\ roster[Place(n)] = n
    BY <1>1, <1>2, PlacesDiffer DEF SessionTypeOK
  <2>2. /\ RemoveAt(roster, Place(n)) \in Seq(Nodes) /\ IsInjective(RemoveAt(roster, Place(n)))
        /\ Range(RemoveAt(roster, Place(n))) = Range(roster) \ {n}
    BY <1>1, <2>1, RemoveAtOnce DEF SessionTypeOK
  <2> QED
    BY <1>2, <2>2 DEF Listed, ToSet, Range
<1>4. life[n] \in Ended
  BY <1>1, <1>2 DEF Session, Serving, SessionTypeOK
<1>5. SessionTypeOK'
  BY <1>1, <1>2, <1>3 DEF SessionTypeOK
<1>6. ASSUME NEW m \in Nodes PROVE Session(m)'
  <2>1. Session(m) /\ Told(m)' = Told(m)
    BY <1>1, <1>2, <1>6 DEF Basics, Told
  <2> QED
    BY <1>2, <1>3, <1>4, <2>1 DEF Session, InShard
<1>7. Pairs'
  BY <1>1, <1>2 DEF Pairs, Saved
<1>8. \A a \in told' : Replica(a)'
  BY <1>2 DEF SessionInv, Replica, Saved, InShard
<1> QED
  BY <1>5, <1>6, <1>7, <1>8 DEF SessionInv, Basics

\* The finalize file is seen.
LEMMA Signalled ==
  ASSUME SessionInv, Signal
  PROVE  SessionInv'
<1> USE DEF Signal
<1>1. SessionTypeOK'
  BY DEF SessionInv, Basics, SessionTypeOK, Ended
<1>2. Pairs'
  BY DEF SessionInv, Basics, Pairs, Saved, SessionTypeOK
<1>3. ASSUME NEW m \in Nodes PROVE Session(m)'
  BY <1>3 DEF SessionInv, Basics, Session, SessionTypeOK, Serving, Ended, Told, Listed, InShard
<1>4. ASSUME NEW a \in told' PROVE Replica(a)'
  BY <1>4 DEF SessionInv, Basics, Replica, Saved, Session, SessionTypeOK, Ended, Serving, InShard
<1> QED
  BY <1>1, <1>2, <1>3, <1>4 DEF SessionInv, Basics

\* Nobody packed anything before the shards were given out.
LEMMA Assigned ==
  ASSUME SessionInv, Assign
  PROVE  SessionInv'
<1>1. Basics /\ SessionTypeOK /\ Pairs
  BY DEF SessionInv, Basics
<1>2. PICK sent \in SUBSET Assignments :
        /\ told' = sent
        /\ needed' = Cardinality(sent)
        /\ inbox' = [n \in Nodes |->
             IF link[n] /\ \E s \in Slices : <<n, s>> \in sent
             THEN Append(inbox[n], Finalize(CHOOSE s \in Slices : <<n, s>> \in sent)) ELSE inbox[n]]
  BY DEF Assign
<1>3. /\ finale = "signalled" /\ finale' = "waiting"
      /\ UNCHANGED <<up, roster, banked, depot, note, life, link, acks, have, want, answered, skipped>>
  BY DEF Assign
<1>4. told = {} /\ acks = {} /\ banked = {}
  BY <1>1, <1>3 DEF Pairs
<1>5. sent \subseteq Nodes \X Slices /\ \A a, b \in sent : a[1] = b[1] <=> a[2] = b[2]
  BY <1>1, TypesOfLists, AssignmentsPair DEF SessionTypeOK
<1>6. Cardinality(sent) \in 0 .. Of
  <2> DEFINE f == [a \in sent |-> a[2]]
  <2>1. \A a, b \in sent : a[2] = b[2] => a = b
    BY <1>5
  <2>2. f \in Injection(sent, Slices)
    BY <1>5, <2>1 DEF Injection, IsInjective
  <2>3. IsFiniteSet(sent) /\ Cardinality(sent) <= Cardinality(Slices)
    BY <2>2, SlicesFinite, FS_Injection
  <2>4. Cardinality(Slices) = Of
    BY SessionAssumption, FS_Interval DEF Slices
  <2> QED
    BY <2>3, <2>4, SessionAssumption, FS_CardinalityType
<1>7. ASSUME NEW m \in Nodes
      PROVE  /\ inbox'[m] \in Seq(Frames)
             /\ \A i \in 1 .. Len(inbox'[m]) : inbox'[m][i].kind = "finalize" => Told(m)'
  <2>1. inbox[m] \in Seq(Frames) /\ Session(m) /\ ~Told(m)
    BY <1>1, <1>4, TypesOfLists DEF Basics, Told
  <2>2. CASE link[m] /\ \E s \in Slices : <<m, s>> \in sent
    <3>1. PICK s \in Slices : inbox'[m] = Append(inbox[m], Finalize(s))
      BY <1>2, <2>2
    <3>2. Told(m)' /\ Finalize(s) \in Frames
      BY <1>2, <2>2 DEF Told, Finalize, Frames
    <3> QED
      BY <2>1, <3>1, <3>2
  <2>3. CASE ~(link[m] /\ \E s \in Slices : <<m, s>> \in sent)
    <3>1. inbox'[m] = inbox[m]
      BY <1>2, <2>3
    <3> QED
      BY <2>1, <3>1 DEF Session
  <2> QED
    BY <2>2, <2>3
<1>8. SessionTypeOK'
  <2>1. inbox' \in [Nodes -> Seq(Frames)]
    BY <1>2, <1>7
  <2> QED
    BY <1>1, <1>2, <1>3, <1>5, <1>6, <2>1 DEF SessionTypeOK
<1>9. ASSUME NEW m \in Nodes PROVE Session(m)'
  <2>1. Session(m) /\ ~Told(m) /\ Listed' = Listed
    BY <1>1, <1>3, <1>4, <1>9 DEF Basics, Told, Listed
  <2>2. life[m] \notin {"listing", "fetching"} /\ want[m] = {}
    BY <2>1 DEF Session
  <2> QED
    BY <1>3, <1>7, <2>1, <2>2 DEF Session, InShard
<1>10. Pairs'
  BY <1>2, <1>3, <1>4, <1>5 DEF Pairs, Saved
<1>11. ASSUME NEW a \in told' PROVE Replica(a)'
  <2>1. a[1] \in Nodes /\ ~Told(a[1])
    BY <1>2, <1>4, <1>5, <1>11 DEF Told
  <2>2. life[a[1]] # "fetching"
    BY <1>1, <2>1 DEF Basics, Session
  <2> QED
    BY <1>3, <1>4, <2>2 DEF Replica, Saved
<1> QED
  BY <1>8, <1>9, <1>10, <1>11 DEF SessionInv, Basics

\* The deadline passes.
LEMMA DoneWritten ==
  ASSUME SessionInv, WriteDone
  PROVE  SessionInv'
<1> USE DEF WriteDone
<1>1. SessionTypeOK'
  BY DEF SessionInv, Basics, SessionTypeOK, Ended
<1>2. Pairs'
  BY DEF SessionInv, Basics, Pairs, Saved, SessionTypeOK
<1>3. ASSUME NEW m \in Nodes PROVE Session(m)'
  BY <1>3 DEF SessionInv, Basics, Session, SessionTypeOK, Serving, Ended, Told, Listed, InShard
<1>4. ASSUME NEW a \in told' PROVE Replica(a)'
  BY <1>4 DEF SessionInv, Basics, Replica, Saved, Session, SessionTypeOK, Ended, Serving, InShard
<1> QED
  BY <1>1, <1>2, <1>3, <1>4 DEF SessionInv, Basics

\* Everybody is told to exit.
LEMMA ExitSent ==
  ASSUME SessionInv, BroadcastExit
  PROVE  SessionInv'
<1>1. Basics /\ SessionTypeOK /\ Pairs
  BY DEF SessionInv, Basics
<1>2. /\ finale' = "over"
      /\ inbox' = [n \in Nodes |->
           IF n \in Listed /\ link[n] THEN Append(inbox[n], Exit) ELSE inbox[n]]
      /\ UNCHANGED <<up, roster, needed, banked, depot, note, life, link, acks, have, want, told,
                     answered, skipped>>
  BY DEF BroadcastExit
<1>3. Exit \in Frames /\ Exit.kind = "exit"
  <2>1. 0 \in Slices
    BY SessionAssumption DEF Slices
  <2> QED
    BY <2>1 DEF Exit, Frames
<1>4. ASSUME NEW m \in Nodes
      PROVE  /\ inbox'[m] \in Seq(Frames)
             /\ \A i \in 1 .. Len(inbox'[m]) : inbox'[m][i].kind = "finalize" => Told(m)'
  <2>1. inbox[m] \in Seq(Frames) /\ Session(m) /\ Told(m)' = Told(m)
    BY <1>1, <1>2, TypesOfLists DEF Basics, Told
  <2>2. CASE inbox'[m] = Append(inbox[m], Exit)
    <3>1. \A i \in 1 .. Len(inbox'[m]) :
            inbox'[m][i] = Exit \/ (i \in 1 .. Len(inbox[m]) /\ inbox'[m][i] = inbox[m][i])
      BY <1>3, <2>1, <2>2
    <3>2. inbox'[m] \in Seq(Frames)
      BY <1>3, <2>1, <2>2
    <3> QED
      BY <1>3, <2>1, <3>1, <3>2 DEF Session
  <2>3. CASE inbox'[m] = inbox[m]
    BY <2>1, <2>3 DEF Session
  <2> QED
    BY <1>2, <2>2, <2>3
<1>5. SessionTypeOK'
  <2>1. inbox' \in [Nodes -> Seq(Frames)]
    BY <1>2, <1>4
  <2> QED
    BY <1>1, <1>2, <2>1 DEF SessionTypeOK
<1>6. ASSUME NEW m \in Nodes PROVE Session(m)'
  <2>1. Session(m) /\ Listed' = Listed
    BY <1>1, <1>2, <1>6 DEF Basics, Listed
  <2>2. \A i \in 1 .. Len(inbox'[m]) : inbox'[m][i].kind = "finalize" => Told(m)'
    BY <1>4
  <2>3. UNCHANGED <<life, link, have, want, told, answered>>
    BY <1>2
  <2>4. Told(m)' = Told(m)
    BY <2>3 DEF Told
  <2> QED
    BY <2>1, <2>2, <2>3, <2>4 DEF Session, InShard
<1>7. Pairs'
  BY <1>1, <1>2 DEF Pairs, Saved
<1>8. \A a \in told' : Replica(a)'
  BY <1>2 DEF SessionInv, Replica, Saved, InShard
<1> QED
  BY <1>5, <1>6, <1>7, <1>8 DEF SessionInv, Basics

\* The driver dies.
LEMMA DriverDead ==
  ASSUME SessionInv, DriverDies
  PROVE  SessionInv'
<1> USE DEF DriverDies
<1>1. SessionTypeOK'
  BY DEF SessionInv, Basics, SessionTypeOK, Ended
<1>2. Pairs'
  BY DEF SessionInv, Basics, Pairs, Saved, SessionTypeOK
<1>3. ASSUME NEW m \in Nodes PROVE Session(m)'
  BY <1>3 DEF SessionInv, Basics, Session, SessionTypeOK, Serving, Ended, Told, Listed, InShard
<1>4. ASSUME NEW a \in told' PROVE Replica(a)'
  BY <1>4 DEF SessionInv, Basics, Replica, Saved, Session, SessionTypeOK, Ended, Serving, InShard
<1> QED
  BY <1>1, <1>2, <1>3, <1>4 DEF SessionInv, Basics

\* The note is written.
LEMMA LapMarked ==
  ASSUME SessionInv, MarkLapDone
  PROVE  SessionInv'
<1> USE DEF MarkLapDone
<1>1. SessionTypeOK'
  BY DEF SessionInv, Basics, SessionTypeOK, Ended
<1>2. Pairs'
  BY DEF SessionInv, Basics, Pairs, Saved, SessionTypeOK
<1>3. ASSUME NEW m \in Nodes PROVE Session(m)'
  BY <1>3 DEF SessionInv, Basics, Session, SessionTypeOK, Serving, Ended, Told, Listed, InShard
<1>4. ASSUME NEW a \in told' PROVE Replica(a)'
  BY <1>4 DEF SessionInv, Basics, Replica, Saved, Session, SessionTypeOK, Ended, Serving, InShard
<1> QED
  BY <1>1, <1>2, <1>3, <1>4 DEF SessionInv, Basics

LEMMA SessionIdles == ASSUME SessionInv, UNCHANGED sessionVars PROVE SessionInv'
<1> USE DEF sessionVars
<1>1. SessionTypeOK' /\ Pairs'
  BY DEF SessionInv, Basics, SessionTypeOK, Pairs, Saved
<1>2. \A m \in Nodes : Session(m)'
  BY DEF SessionInv, Basics, Session, Told, Listed, InShard
<1>3. \A a \in told' : Replica(a)'
  BY DEF SessionInv, Replica, Saved, InShard
<1> QED
  BY <1>1, <1>2, <1>3 DEF SessionInv, Basics

LEMMA SessionInvHolds == SessionSpec => []SessionInv
<1>1. SessionInv /\ [SessionNext]_sessionVars => SessionInv'
  BY Dialled, GivenUp, Received, Watched, Broken, ShardListed, Fetched, Acknowledged, Enrolled,
     AckTaken, Dropped, Signalled, Assigned, DoneWritten, ExitSent, DriverDead, LapMarked,
     SessionIdles DEF SessionNext
<1> QED
  BY SessionStarts, <1>1, PTL DEF SessionSpec

-----------------------------------------------------------------------------
(* The theorems about sessions                                             *)

\* Types of the sessions, for any fleet and any number of shards; in particular
\* finalize_shards never sends more frames than there are shards, and no worker
\* is listed twice.
THEOREM SessionTypeCorrect == SessionSpec => []SessionTypeOK
<1>1. SessionInv => SessionTypeOK
  BY DEF SessionInv, Basics
<1> QED
  BY <1>1, SessionInvHolds, PTL

\* What finalize_shards gives out: a shard goes to one worker and a worker gets
\* one, which restored it unless nobody in the pool did, in any pool and with
\* any preloads, those beyond the number of shards included.
THEOREM ShardsGoHome == SessionSpec => ShardsStayHome
<1>1. ASSUME SessionInv, SessionNext, told' # told PROVE Assign
  BY <1>1 DEF SessionNext, Dial, GiveUp, Receive, Watchdog, Break, ListShard, Fetch, Acknowledge,
     Enroll, TakeAck, Drop, Signal, WriteDone, BroadcastExit, DriverDies, MarkLapDone
<1>2. ASSUME SessionInv, Assign
      PROVE  /\ \A a, b \in told' : a[1] = b[1] <=> a[2] = b[2]
             /\ \A a \in told' :
                  /\ Preload[a[1]] # NoPreload
                  /\ Preload[a[1]] # a[2] => \A n \in Listed : Preload[n] # a[2]
  <2>1. told' \subseteq Assignments
    BY <1>2 DEF Assign
  <2>2. roster \in Seq(Nodes)
    BY <1>2 DEF SessionInv, Basics, SessionTypeOK
  <2> QED
    BY <2>1, <2>2, AssignmentsPair
<1>3. SessionInv /\ [SessionNext]_sessionVars =>
        [told' # told =>
           /\ \A a, b \in told' : a[1] = b[1] <=> a[2] = b[2]
           /\ \A a \in told' :
                /\ Preload[a[1]] # NoPreload
                /\ Preload[a[1]] # a[2] => \A n \in Listed : Preload[n] # a[2]]_sessionVars
  BY <1>1, <1>2
<1> QED
  BY <1>3, SessionInvHolds, PTL DEF SessionSpec, ShardsStayHome

\* What a worker that acknowledged its shard, by a frame under way or taken,
\* lacks of what the peers that answered its listing, and are there, have of it
\* is what it passed over because the fetch failed: however fetches, listings,
\* exits and disconnects of other workers fall between its own.
THEOREM BanksLackOnlySkipped == SessionSpec => []BanksLackOnlyWhatWasSkipped
<1>1. ASSUME SessionInv, NEW a \in told, Saved(a), NEW v \in answered[a[1]], life[v] \notin Ended
      PROVE  (have[v] \cap InShard(a[2])) \ have[a[1]] \subseteq skipped[a[1]]
  <2>1. a[1] \in Nodes /\ life[a[1]] = "done"
    BY <1>1 DEF SessionInv, Basics, Pairs, SessionTypeOK
  <2>2. want[a[1]] = {}
    BY <1>1, <2>1 DEF SessionInv, Basics, Session
  <2>3. have[v] \cap InShard(a[2]) \subseteq have[a[1]] \cup want[a[1]] \cup skipped[a[1]]
    BY <1>1 DEF SessionInv, Replica
  <2> QED
    BY <2>2, <2>3
<1>2. SessionInv => BanksLackOnlyWhatWasSkipped
  BY <1>1 DEF BanksLackOnlyWhatWasSkipped, Saved
<1> QED
  BY <1>2, SessionInvHolds, PTL
=============================================================================
