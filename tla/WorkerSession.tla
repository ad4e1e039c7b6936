--------------------------- MODULE WorkerSession ---------------------------
(* A worker's session with the driver, from dialling to exit, and how a lap *)
(* ends: the driver's finalize task gives every shard of the snapshot to    *)
(* one worker, which makes its store a replica of the shard through the     *)
(* driver, acknowledges and exits; the others are told to exit.             *)
(*                                                                          *)
(* A frame is a record; pings are left out: while the driver runs it pings  *)
(* whom it lists, so the watchdog fires only when it is gone.  A driver     *)
(* that is killed closes no connection.  Jobs, blooms and the pool barrier  *)
(* are in Dispatch, BlobRouting and PoolBarrier.                            *)
EXTENDS Integers, Sequences, FiniteSets, SequencesExt

CONSTANTS
  Nodes,        \* worker processes; each connects at most once
  Of,           \* how many shards there are (8 in the code)
  Preload,      \* Preload[n]: the shard n restored before joining, or NoPreload
  NoPreload,
  Digests,
  ShardOf,      \* ShardOf[d]: the shard whose range d is in
  Holds,        \* Holds[n]: what n's store holds when the lap ends
  Relayed       \* what the driver's store holds then

Slices == 0 .. (Of - 1)

ASSUME SessionAssumption ==
  /\ Of \in Nat \ {0}
  /\ NoPreload \notin Nat
  /\ Preload \in [Nodes -> Nat \cup {NoPreload}]
  /\ ShardOf \in [Digests -> Slices]
  /\ Holds \in [Nodes -> SUBSET Digests]
  /\ Relayed \subseteq Digests

VARIABLES
  up,         \* the driver is running
  roster,     \* Driver::workers, in the order they were pushed
  finale,     \* where the finalize task is
  needed,     \* shards_needed: Finalize frames that were sent
  banked,     \* finalized_shards
  depot,      \* the driver's store
  note,       \* the give-up file is there: the lap is over
  life,       \* where each worker is
  link,       \* its connection, as far as either end knows
  inbox,      \* frames on their way to it
  acks,       \* Finalized frames on their way to the driver
  have,       \* its store
  want,       \* what sync_shard has still to fetch
  told,       \* for the properties only: who was told to finalize what,
  answered,   \* the peers whose listing each sync used,
  skipped     \* and the blobs whose fetch failed

driverVars  == <<up, roster, finale, needed, banked, depot, note>>
sessionVars == <<up, roster, finale, needed, banked, depot, note, life, link, inbox, acks,
                 have, want, told, answered, skipped>>

Welcome      == [kind |-> "welcome", shard |-> 0]
Exit         == [kind |-> "exit", shard |-> 0]
Finalize(s)  == [kind |-> "finalize", shard |-> s]
InShard(s)   == {d \in Digests : ShardOf[d] = s}
Ended        == {"done", "failed"}
Listed       == ToSet(roster)
Place(n)     == CHOOSE i \in DOMAIN roster : roster[i] = n
Send(n, f)   == inbox' = [inbox EXCEPT ![n] = Append(@, f)]

SessionInit ==
  /\ up = TRUE
  /\ roster = <<>>
  /\ finale = "quiet"
  /\ needed = 0
  /\ banked = {}
  /\ depot = Relayed
  /\ note = FALSE
  /\ life = [n \in Nodes |-> "dialling"]
  /\ link = [n \in Nodes |-> FALSE]
  /\ inbox = [n \in Nodes |-> <<>>]
  /\ acks = {}
  /\ have = Holds
  /\ want = [n \in Nodes |-> {}]
  /\ told = {}
  /\ answered = [n \in Nodes |-> {}]
  /\ skipped = [n \in Nodes |-> {}]

-----------------------------------------------------------------------------
(* The worker                                                              *)

\* The dial succeeds, the control stream is opened and Hello sent.
Dial(n) ==
  /\ life[n] = "dialling"
  /\ up
  /\ life' = [life EXCEPT ![n] = "greeting"]
  /\ link' = [link EXCEPT ![n] = TRUE]
  /\ UNCHANGED <<driverVars, inbox, acks, have, want, told, answered, skipped>>

\* Mutant: only the note ends the dialling, never the deadline.
GiveUpWhenTold(n) ==
  /\ life[n] = "dialling"
  /\ note
  /\ life' = [life EXCEPT ![n] = "done"]
  /\ UNCHANGED <<driverVars, link, inbox, acks, have, want, told, answered, skipped>>

\* A dial fails and retry_verdict ends it: the note beats the clock.  (While
\* neither is there, the worker dials again.)
GiveUp(n) ==
  /\ life[n] = "dialling"
  /\ life' = [life EXCEPT ![n] = IF note THEN "done" ELSE "failed"]
  /\ UNCHANGED <<driverVars, link, inbox, acks, have, want, told, answered, skipped>>

\* The process ends, and its endpoint with it.
End(n, how) ==
  /\ life' = [life EXCEPT ![n] = how]
  /\ link' = [link EXCEPT ![n] = FALSE]
  /\ inbox' = [inbox EXCEPT ![n] = <<>>]
  /\ want' = [want EXCEPT ![n] = {}]

\* The loop of run() takes the next frame of the control stream.
Receive(n) ==
  /\ life[n] \in {"greeting", "serving"}
  /\ inbox[n] # <<>>
  /\ LET f == Head(inbox[n])
     IN \/ /\ f.kind = "exit"
           /\ End(n, "done")
        \/ /\ f.kind # "exit"
           /\ life' = [life EXCEPT ![n] = IF f.kind = "welcome" THEN "serving" ELSE "listing"]
           /\ inbox' = [inbox EXCEPT ![n] = Tail(@)]
           /\ UNCHANGED <<link, want>>
  /\ UNCHANGED <<driverVars, acks, have, told, answered, skipped>>

\* 90 s without a frame, which the driver's pings rule out while it lists n.
Watchdog(n) ==
  /\ life[n] = "serving"
  /\ inbox[n] = <<>>
  /\ ~up
  /\ End(n, "done")
  /\ UNCHANGED <<driverVars, acks, have, told, answered, skipped>>

\* The connection breaks.  Outside sync_shard that ends run() with an error; in
\* it, the shard is saved as far as it got and the acknowledgement has no way.
Break(n) ==
  /\ link[n]
  /\ End(n, IF life[n] \in {"listing", "fetching"} THEN "done" ELSE "failed")
  /\ UNCHANGED <<driverVars, acks, have, told, answered, skipped>>

\* What sync_shard was told to sync.
Mine(n) == CHOOSE s \in Slices : <<n, s>> \in told

\* Mutant: the driver lists its own store only.
ListShardAlone(n) ==
  /\ life[n] = "listing"
  /\ up
  /\ \E ps \in SUBSET {v \in Listed : life[v] \notin Ended} :
       /\ answered' = [answered EXCEPT ![n] = ps]
       /\ want' = [want EXCEPT ![n] = (InShard(Mine(n)) \cap depot) \ have[n]]
  /\ life' = [life EXCEPT ![n] = "fetching"]
  /\ UNCHANGED <<driverVars, link, inbox, acks, have, told, skipped>>

\* The driver answers ListShard with the union of its own list and of those of
\* the peers that answer in time; a request that fails leaves nothing to fetch.
ListShard(n) ==
  /\ life[n] = "listing"
  /\ up
  /\ \E ps \in SUBSET {v \in Listed : life[v] \notin Ended}, listed \in BOOLEAN :
       /\ ~listed => ps = {}
       /\ answered' = [answered EXCEPT ![n] = ps]
       /\ want' = [want EXCEPT ![n] =
            IF listed THEN (InShard(Mine(n)) \cap (depot \cup UNION {have[v] : v \in ps})) \ have[n]
            ELSE {}]
  /\ life' = [life EXCEPT ![n] = "fetching"]
  /\ UNCHANGED <<driverVars, link, inbox, acks, have, told, skipped>>

\* One blob of a GetMany: the driver reads it through from whoever has it.  One
\* that nobody has is passed over, and so is one whose fetch fails: sync_shard
\* keeps no account of either and still succeeds.
Fetch(n) ==
  /\ life[n] = "fetching"
  /\ up
  /\ \E d \in want[n] :
       /\ want' = [want EXCEPT ![n] = @ \ {d}]
       /\ \/ /\ d \in depot \/ \E v \in Listed : life[v] \notin Ended /\ d \in have[v]
             /\ depot' = depot \cup {d}
             /\ have' = [have EXCEPT ![n] = @ \cup {d}]
             /\ UNCHANGED skipped
          \/ /\ d \notin depot
             /\ \A v \in Listed : life[v] \in Ended \/ d \notin have[v]
             /\ UNCHANGED <<depot, have, skipped>>
          \/ /\ skipped' = [skipped EXCEPT ![n] = @ \cup {d}]
             /\ UNCHANGED <<depot, have>>
  /\ UNCHANGED <<up, roster, finale, needed, banked, note, life, link, inbox, acks, told, answered>>

\* shard.id is written, Finalized sent, and the process exits: the frame may not
\* make it out.
Acknowledge(n) ==
  /\ life[n] = "fetching"
  /\ want[n] = {}
  /\ \/ acks' = acks \cup {<<n, Mine(n)>>}
     \/ UNCHANGED acks
  /\ End(n, "done")
  /\ UNCHANGED <<driverVars, have, told, answered, skipped>>

-----------------------------------------------------------------------------
(* The driver                                                              *)

\* Mutant: Hello is answered as often as it is looked at.
EnrollAgain(n) ==
  /\ up
  /\ life[n] = "greeting"
  /\ roster' = Append(roster, n)
  /\ Send(n, Welcome)
  /\ UNCHANGED <<up, finale, needed, banked, depot, note, life, link, acks, have, want, told,
                 answered, skipped>>

\* handle_worker answers Hello with Welcome and pushes the worker.
Enroll(n) ==
  /\ up
  /\ life[n] = "greeting"
  /\ n \notin Listed
  /\ roster' = Append(roster, n)
  /\ Send(n, Welcome)
  /\ UNCHANGED <<up, finale, needed, banked, depot, note, life, link, acks, have, want, told,
                 answered, skipped>>

\* Its reader loop takes an acknowledgement, and in the end the disconnect.
TakeAck(n) ==
  /\ up
  /\ \E a \in acks :
       /\ a[1] = n
       /\ acks' = acks \ {a}
       /\ banked' = banked \cup {a[2]}
  /\ UNCHANGED <<up, roster, finale, needed, depot, note, life, link, inbox, have, want, told,
                 answered, skipped>>
Drop(n) ==
  /\ up
  /\ n \in Listed
  /\ ~link[n]
  /\ \A a \in acks : a[1] # n
  /\ roster' = RemoveAt(roster, Place(n))
  /\ UNCHANGED <<up, finale, needed, banked, depot, note, life, link, inbox, acks, have, want,
                 told, answered, skipped>>

\* The finalize file is there; dead rows are scrubbed first.
Signal ==
  /\ up
  /\ finale = "quiet"
  /\ finale' = "signalled"
  /\ UNCHANGED <<up, roster, needed, banked, depot, note, life, link, inbox, acks, have, want,
                 told, answered, skipped>>

\* finalize_shards: every shard goes to the first worker that restored it, and
\* one that nobody restored to the first that restored another and got none;
\* workers without a shard of their own get none.
Restorers(s) == {n \in Listed : Preload[n] = s}
AtHome(s)    == {n \in Restorers(s) : \A m \in Restorers(s) : Place(n) <= Place(m)}
Homed        == UNION {AtHome(s) : s \in Slices}
\* Mutant: a worker that packs the shard it restored counts as spare as well.
SpareAnyway  == {n \in Listed : Preload[n] # NoPreload}
Spare        == {n \in Listed : Preload[n] # NoPreload /\ n \notin Homed}
\* The shards that nobody restored and the spare workers, in their orders.
Before(s)    == {r \in Slices : r < s /\ Restorers(r) = {}}
AheadOf(n)   == {m \in Spare : Place(m) < Place(n)}
Assignee(s)  ==
  IF Restorers(s) # {} THEN AtHome(s)
  ELSE {n \in Spare : Cardinality(AheadOf(n)) = Cardinality(Before(s))}
Assignments == UNION {Assignee(s) \X {s} : s \in Slices}

\* The frames are sent; a send to a connection that has just broken may fail.
Assign ==
  /\ up
  /\ finale = "signalled"
  /\ \E sent \in SUBSET Assignments :
       /\ \A a \in Assignments \ sent : ~link[a[1]]
       /\ told' = sent
       /\ needed' = Cardinality(sent)
       /\ inbox' = [n \in Nodes |->
            IF link[n] /\ \E s \in Slices : <<n, s>> \in sent
            THEN Append(inbox[n], Finalize(CHOOSE s \in Slices : <<n, s>> \in sent)) ELSE inbox[n]]
  /\ finale' = "waiting"
  /\ UNCHANGED <<up, roster, banked, depot, note, life, link, acks, have, want, answered, skipped>>

\* Mutant: the task waits until every shard is in, without a deadline.
WriteDoneWhenAllIn ==
  /\ up
  /\ finale = "waiting"
  /\ Cardinality(banked) >= needed
  /\ finale' = "written"
  /\ UNCHANGED <<up, roster, needed, banked, depot, note, life, link, inbox, acks, have, want,
                 told, answered, skipped>>

\* All the shards are in, or the deadline has passed: the .done file is written.
WriteDone ==
  /\ up
  /\ finale = "waiting"
  /\ finale' = "written"
  /\ UNCHANGED <<up, roster, needed, banked, depot, note, life, link, inbox, acks, have, want,
                 told, answered, skipped>>

\* Whoever is still listed is told to exit.
BroadcastExit ==
  /\ up
  /\ finale = "written"
  /\ finale' = "over"
  /\ inbox' = [n \in Nodes |->
       IF n \in Listed /\ link[n] THEN Append(inbox[n], Exit) ELSE inbox[n]]
  /\ UNCHANGED <<up, roster, needed, banked, depot, note, life, link, acks, have, want, told,
                 answered, skipped>>

\* The driver is killed, or dies: no connection is closed.
DriverDies ==
  /\ up
  /\ up' = FALSE
  /\ UNCHANGED <<roster, finale, needed, banked, depot, note, life, link, inbox, acks, have, want,
                 told, answered, skipped>>

\* The lap is marked finished (driver-finish, and the poller of a late worker).
MarkLapDone ==
  /\ ~up
  /\ ~note
  /\ note' = TRUE
  /\ UNCHANGED <<up, roster, finale, needed, banked, depot, life, link, inbox, acks, have, want,
                 told, answered, skipped>>

SessionNext ==
  \/ \E n \in Nodes :
       \/ Dial(n) \/ GiveUp(n) \/ Receive(n) \/ Watchdog(n) \/ Break(n)
       \/ ListShard(n) \/ Fetch(n) \/ Acknowledge(n)
       \/ Enroll(n) \/ TakeAck(n) \/ Drop(n)
  \/ Signal \/ Assign \/ WriteDone \/ BroadcastExit \/ DriverDies \/ MarkLapDone

\* Tasks that can run do; a dial to a driver that is gone runs into its
\* deadline, a silent session into the watchdog, the finalize task into its own.
\* Nothing says that workers connect, that a lap is finalized or that the driver
\* or a connection dies.
TimeOut(n)  == Watchdog(n) \/ (~up /\ GiveUp(n))
Sync(n)     == ListShard(n) \/ Fetch(n) \/ Acknowledge(n)
Handle(n)   == Enroll(n) \/ TakeAck(n) \/ Drop(n)
FinishLap   == Assign \/ WriteDone \/ BroadcastExit

SessionFairness ==
  /\ \A n \in Nodes :
       /\ WF_sessionVars(Receive(n))
       /\ WF_sessionVars(TimeOut(n))
       /\ WF_sessionVars(Sync(n))
       /\ WF_sessionVars(Handle(n))
  /\ WF_sessionVars(FinishLap)

SessionSpec == SessionInit /\ [][SessionNext]_sessionVars
FairSessionSpec == SessionSpec /\ SessionFairness

-----------------------------------------------------------------------------
(* Properties                                                              *)

Frames == [kind : {"welcome", "exit", "finalize"}, shard : Slices]

SessionTypeOK ==
  /\ up \in BOOLEAN /\ note \in BOOLEAN
  /\ roster \in Seq(Nodes) /\ IsInjective(roster)
  /\ finale \in {"quiet", "signalled", "waiting", "written", "over"}
  /\ needed \in 0 .. Of
  /\ banked \subseteq Slices
  /\ depot \subseteq Digests
  /\ life \in [Nodes -> {"dialling", "greeting", "serving", "listing", "fetching"} \cup Ended]
  /\ link \in [Nodes -> BOOLEAN]
  /\ inbox \in [Nodes -> Seq(Frames)]
  /\ acks \subseteq Nodes \X Slices
  /\ have \in [Nodes -> SUBSET Digests]
  /\ want \in [Nodes -> SUBSET Digests]
  /\ told \subseteq Nodes \X Slices
  /\ answered \in [Nodes -> SUBSET Nodes]
  /\ skipped \in [Nodes -> SUBSET Digests]

\* "One shard, one worker", and a worker packs the shard it restored: when the
\* shards are given out no worker gets two and none is given twice, only workers
\* that restored a shard get one, and nobody gets a shard that somebody else
\* in the pool restored while he did not.
ShardsStayHome ==
  [][told' # told =>
       /\ \A a, b \in told' : a[1] = b[1] <=> a[2] = b[2]
       /\ \A a \in told' :
            /\ Preload[a[1]] # NoPreload
            /\ Preload[a[1]] # a[2] => \A n \in Listed : Preload[n] # a[2]]_sessionVars

\* What a packer that acknowledged lacks of its shard, of all that the peers that
\* answered its listing hold and are still there to give, is what its sync passed
\* over when a fetch failed: nothing is lost between the listings, the fetches of
\* others and the disconnects.  (A peer that packs another shard and exits takes
\* with it what nobody has fetched yet.)
BanksLackOnlyWhatWasSkipped ==
  \A a \in told :
    a \in acks \/ a[2] \in banked =>
      \A v \in answered[a[1]] :
        life[v] \notin Ended => (have[v] \cap InShard(a[2])) \ have[a[1]] \subseteq skipped[a[1]]

\* "Each worker SYNCS its shard to completeness first": a shard that was
\* acknowledged has all that those peers hold of it.
BankedShardsAreReplicas ==
  \A a \in told :
    a \in acks \/ a[2] \in banked =>
      \A v \in answered[a[1]] :
        life[v] \notin Ended => have[v] \cap InShard(a[2]) \subseteq have[a[1]]

\* The lap ends: a worker that is listed while the finalize task runs exits,
\* whether it packs, joined after the shards were given out or waits while the
\* acknowledgement of another is lost, unless the driver dies first.
EveryoneIsReleased ==
  \A n \in Nodes :
    (finale \in {"signalled", "waiting", "written"} /\ n \in Listed) ~> (life[n] \in Ended \/ ~up)

\* Nobody waits for a dead driver: a worker that dials it or serves it exits.
\* (One that packs a shard then has no timeout.)
OrphansGiveUp ==
  \A n \in Nodes :
    (~up /\ life[n] \in {"dialling", "serving"}) ~> life[n] \in Ended \cup {"listing", "fetching"}
=============================================================================
