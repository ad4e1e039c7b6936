---------------------------- MODULE BlobRouting ----------------------------
(***************************************************************************)
(* How the driver finds one blob in the fleet.  Driver::has_blobs answers  *)
(* whether it is there (FindMissingBlobs, and every cache lookup);         *)
(* Driver::ensure_blob_local brings it to the driver's store (reads, the   *)
(* exec inputs of workers).  Both are led by the provider index (one hint  *)
(* per digest), by the blooms the workers gossip (which may claim too much *)
(* and lag behind) and by the range owner or a probe of everybody.         *)
(*                                                                         *)
(* Digests are independent of one another: the module follows one.  Each   *)
(* lock and each round trip to a peer is a step.  Where the code takes the *)
(* first of several peers in join order, or in that of a hash map, the     *)
(* module takes any.                                                       *)
(***************************************************************************)
EXTENDS Naturals

CONSTANTS
  Readers,    \* the tasks that read the blob, one call after another
  Checkers,   \* the tasks that ask for its presence, likewise
  Workers,    \* worker processes; a restarted worker is a new one
  None,       \* no worker, no answer
  First,      \* the workers connected at the start
  Seeded,     \* the workers that start with the blob
  Owners,     \* the workers that preloaded the shard the blob falls in
  Liars,      \* the workers whose blooms claim the blob in any case
  Rounds,     \* rounds of ensure_blob_local, 4 in the code
  Mortal,     \* bound: the workers that may die
  Forgetful,  \* bound: the workers whose copy may go away
  Producers   \* bound: the workers that may build the blob

ASSUME SetsAssumption ==
  /\ None \notin Workers \cup {"yes", "no", "error"}
  /\ First \subseteq Workers /\ Seeded \subseteq Workers /\ Owners \subseteq Workers /\ Liars \subseteq Workers
  /\ Mortal \subseteq Workers /\ Forgetful \subseteq Workers /\ Producers \subseteq Workers
  /\ Rounds \in Nat \ {0} /\ Readers \cap Checkers = {}

VARIABLES
  listed,   \* Driver::workers
  up,       \* the worker processes that run
  holds,    \* those whose store has the blob
  claims,   \* Driver::blooms: the workers whose bloom claims it
  hint,     \* Driver::providers: the worker it was last seen at, or None
  local,    \* whether the driver's store has it
  flaky,    \* whether a peer that is up may fail to answer
  owing,    \* the workers with a Done frame that names it on the way
  call      \* call[c]: what a task is doing

fleetVars == <<listed, up, holds, owing, flaky>>
vars == <<listed, up, holds, claims, hint, local, owing, flaky, call>>

Calls == Readers \cup Checkers

Holders == up \cap holds

\* A call in its first round, or between calls.
Blank(at, said, owner, since, known, seen) ==
  [at |-> at, round |-> 1, lead |-> None, rest |-> {}, asked |-> None, clean |-> TRUE,
   failed |-> FALSE, owner |-> owner, ok |-> FALSE,
   said |-> said, since |-> since, known |-> known, seen |-> seen]

Init ==
  /\ listed = First
  /\ up = Workers
  /\ holds = Seeded
  /\ claims = {}
  /\ hint = None
  /\ local = FALSE
  /\ owing = {}
  /\ flaky \in BOOLEAN
  /\ call = [c \in Calls |-> Blank("idle", None, None, {}, {}, FALSE)]

Step(c, at) == call[c].at = at
Become(c, s) == call' = [call EXCEPT ![c] = s]
Goto(c, at) == Become(c, [call[c] EXCEPT !.at = at])

\* The state of s when it has returned answer.
Returned(s, answer) == Blank("idle", answer, s.owner, s.since, s.known, s.seen)
Say(c, answer) == Become(c, Returned(call[c], answer))

\* A call begins.  since, known and seen are history: the listed workers that
\* have held the blob (and said so when asked) since the call began, those of
\* them that a bloom has claimed it for (in reads), and whether anybody has
\* had it.
Opened(at, owner, known) ==
  Blank(at, None, owner, listed \cap Holders, known, local \/ Holders # {})

----------------------------------------------------------------------------
(* Driver::ensure_blob_local                                               *)

Ensure(c) ==
  /\ c \in Readers /\ Step(c, "idle")
  /\ LET opened == Opened("hint", None, listed \cap Holders \cap claims) IN
     Become(c, IF local THEN Returned(opened, "yes") ELSE opened)
  /\ UNCHANGED <<fleetVars, claims, hint, local>>

\* A round begins with the provider index.
ReadHint(c) ==
  /\ Step(c, "hint")
  /\ Become(c, [call[c] EXCEPT !.at = "blooms", !.lead = hint, !.clean = TRUE])
  /\ UNCHANGED <<fleetVars, claims, hint, local>>

\* Then every bloom claimant, in the order of a hash map.  The list loses only
\* repetitions next to each other, so the hint may come again.
ReadBlooms(c) ==
  /\ Step(c, "blooms")
  /\ \E rest \in {claims, claims \ {call[c].lead}} :
       /\ claims = {call[c].lead} => rest = {}
       /\ Become(c, [call[c] EXCEPT
            !.rest = rest,
            !.at = IF call[c].lead = None /\ rest = {} THEN "probe" ELSE "fetch"])
  /\ UNCHANGED <<fleetVars, claims, hint, local>>

\* probe_workers: with no candidate, everybody is asked.
Probe(c) ==
  /\ Step(c, "probe")
  /\ Become(c, [call[c] EXCEPT !.at = "answers", !.rest = listed])
  /\ UNCHANGED <<fleetVars, claims, hint, local>>

\* One that says yes becomes the candidate; when nobody does the call ends:
\* with Missing, unless a fetch of it failed.
Answers(c) ==
  /\ Step(c, "answers")
  /\ \E yes \in SUBSET (call[c].rest \cap Holders) :
       /\ ~flaky => yes = call[c].rest \cap Holders
       /\ LET heard == [call[c] EXCEPT !.rest = {}, !.since = @ \ (call[c].rest \ yes)] IN
          IF yes = {}
            THEN Become(c, Returned(heard, IF heard.failed THEN "error" ELSE "no"))
            ELSE \E w \in yes : Become(c, [heard EXCEPT !.at = "seed", !.lead = w])
  /\ UNCHANGED <<fleetVars, claims, hint, local>>

Seed(c) ==
  /\ Step(c, "seed")
  /\ hint' = call[c].lead
  /\ Goto(c, "fetch")
  /\ UNCHANGED <<fleetVars, claims, local>>

\* The next candidate: the hint (or the probe's find), then the claimants.
Candidate(c, w) == IF call[c].lead = None THEN w \in call[c].rest ELSE w = call[c].lead

\* fetch_blob_from w, and on to at.
Asking(c, w, at) ==
  [call[c] EXCEPT !.at = at, !.asked = w, !.lead = None,
                  !.rest = IF call[c].lead = None THEN @ \ {w} ELSE @]

FetchFound(c, w) ==
  /\ Step(c, "fetch") /\ Candidate(c, w) /\ w \in Holders
  /\ local' = TRUE
  /\ Become(c, Asking(c, w, "keep"))
  /\ UNCHANGED <<fleetVars, claims, hint>>

Keep(c) ==
  /\ Step(c, "keep")
  /\ hint' = call[c].asked
  /\ Say(c, "yes")
  /\ UNCHANGED <<fleetVars, claims, local>>

FetchDenied(c, w) ==
  /\ Step(c, "fetch") /\ Candidate(c, w) /\ w \in up \ holds
  /\ Become(c, Asking(c, w, "evict"))
  /\ UNCHANGED <<fleetVars, claims, hint, local>>

\* A stale hint is dropped.
Evict(c) ==
  /\ Step(c, "evict")
  /\ hint' = IF hint = call[c].asked THEN None ELSE hint
  /\ Become(c, [call[c] EXCEPT !.at = "fetch", !.asked = None])
  /\ UNCHANGED <<fleetVars, claims, local>>

\* Mutant: a peer that cannot be reached counts as one that denies.
FetchFailsDenied(c, w) ==
  /\ Step(c, "fetch") /\ Candidate(c, w) /\ (w \in up => flaky)
  /\ Become(c, Asking(c, w, "evict"))
  /\ UNCHANGED <<fleetVars, claims, hint, local>>

\* Mutant: a failure ends the round.
FetchFailsRound(c, w) ==
  /\ Step(c, "fetch") /\ Candidate(c, w) /\ (w \in up => flaky)
  /\ Become(c,
       [Asking(c, w, "fetch") EXCEPT !.asked = None, !.failed = TRUE, !.clean = FALSE, !.rest = {}])
  /\ UNCHANGED <<fleetVars, claims, hint, local>>

\* The peer is gone, or fails: the call remembers, the hint stays.
FetchFails(c, w) ==
  /\ Step(c, "fetch") /\ Candidate(c, w) /\ (w \in up => flaky)
  /\ Become(c,
       [Asking(c, w, "fetch") EXCEPT !.asked = None, !.failed = TRUE, !.clean = FALSE])
  /\ UNCHANGED <<fleetVars, claims, hint, local>>

\* Mutant: failures are retried for ever.
EndRoundForever(c) ==
  /\ Step(c, "fetch") /\ call[c].lead = None /\ call[c].rest = {}
  /\ IF call[c].clean
       THEN Say(c, IF call[c].failed THEN "error" ELSE "no")
       ELSE Become(c, [call[c] EXCEPT !.at = "hint", !.round = @ + 1])
  /\ UNCHANGED <<fleetVars, claims, hint, local>>

\* When every candidate of the round denied the blob there is no other round.
EndRound(c) ==
  /\ Step(c, "fetch") /\ call[c].lead = None /\ call[c].rest = {}
  /\ IF call[c].clean \/ call[c].round = Rounds
       THEN Say(c, IF call[c].failed THEN "error" ELSE "no")
       ELSE Become(c, [call[c] EXCEPT !.at = "hint", !.round = @ + 1])
  /\ UNCHANGED <<fleetVars, claims, hint, local>>

----------------------------------------------------------------------------
(* Driver::has_blobs                                                       *)

\* The range owner is a listed worker that preloaded the shard.
Has(c) ==
  /\ c \in Checkers /\ Step(c, "idle")
  /\ \E owner \in IF Owners \cap listed = {} THEN {None} ELSE Owners \cap listed :
       Become(c, Opened("pick", owner, {}))
  /\ UNCHANGED <<fleetVars, claims, hint, local>>

\* Mutant: the provider index is believed.
PickTrusting(c) ==
  /\ Step(c, "pick")
  /\ \/ (local \/ hint # None) /\ Say(c, "yes")
     \/ /\ ~local /\ hint = None
        /\ \E w \in IF claims # {} THEN claims ELSE {call[c].owner} :
             IF w = None THEN Say(c, "no")
                         ELSE Become(c, [call[c] EXCEPT !.at = "ask", !.asked = w])
  /\ UNCHANGED <<fleetVars, claims, hint, local>>

\* The peer to ask: the hint, else a claimant, else the owner.
Pick(c) ==
  /\ Step(c, "pick")
  /\ \/ local /\ Say(c, "yes")
     \/ /\ ~local
        /\ \E w \in IF hint # None THEN {hint} ELSE IF claims # {} THEN claims ELSE {call[c].owner} :
             IF w = None THEN Say(c, "no")
                         ELSE Become(c, [call[c] EXCEPT !.at = "ask", !.asked = w])
  /\ UNCHANGED <<fleetVars, claims, hint, local>>

\* HasMany: a peer that does not answer counts as one that says no.
Ask(c, at, next) ==
  /\ Step(c, at)
  /\ \E ok \in BOOLEAN :
       /\ ok => call[c].asked \in Holders
       /\ ~ok => call[c].asked \notin Holders \/ flaky
       /\ Become(c, [call[c] EXCEPT !.at = next, !.ok = ok,
                               !.since = IF ok THEN @ ELSE @ \ {call[c].asked}])
  /\ UNCHANGED <<fleetVars, claims, hint, local>>

\* Mutant: a denial ends the lookup.
NoteOnce(c) ==
  /\ Step(c, "note")
  /\ hint' = IF call[c].ok THEN call[c].asked
             ELSE IF hint = call[c].asked THEN None ELSE hint
  /\ Say(c, IF call[c].ok THEN "yes" ELSE "no")
  /\ UNCHANGED <<fleetVars, claims, local>>

\* A yes becomes the hint, a no drops it and goes to the owner, unless that
\* is who was asked.
Note(c) ==
  /\ Step(c, "note")
  /\ hint' = IF call[c].ok THEN call[c].asked
             ELSE IF hint = call[c].asked THEN None ELSE hint
  /\ CASE call[c].ok -> Say(c, "yes")
       [] ~call[c].ok /\ call[c].owner \in {None, call[c].asked} -> Say(c, "no")
       [] OTHER -> Become(c, [call[c] EXCEPT !.at = "ask2", !.asked = call[c].owner])
  /\ UNCHANGED <<fleetVars, claims, local>>

\* The second chance does not evict.
NoteOwner(c) ==
  /\ Step(c, "note2")
  /\ hint' = IF call[c].ok THEN call[c].asked ELSE hint
  /\ Say(c, IF call[c].ok THEN "yes" ELSE "no")
  /\ UNCHANGED <<fleetVars, claims, local>>

----------------------------------------------------------------------------
(* The fleet                                                               *)

\* What happens to w ends its part in the history of the running calls.
Lost(w) == call' = [c \in Calls |-> [call[c] EXCEPT !.since = @ \ {w}, !.known = @ \ {w}]]

Join(w) ==
  /\ w \in up \ listed
  /\ listed' = listed \cup {w}
  /\ UNCHANGED <<up, holds, claims, hint, local, owing, flaky, call>>

\* A Holdings frame.  A liar's bloom claims the blob in any case.
Gossip(w) ==
  /\ w \in listed \cap up
  /\ claims' = IF w \in holds \cup Liars THEN claims \cup {w} ELSE claims \ {w}
  /\ UNCHANGED <<fleetVars, hint, local, call>>

\* A worker builds the blob, and keeps it: the outputs of a decentralized
\* fleet stay where they are made.
Produce(w) ==
  /\ w \in (Producers \cap listed \cap up) \ holds
  /\ holds' = holds \cup {w}
  /\ owing' = owing \cup {w}
  /\ call' = [c \in Calls |-> [call[c] EXCEPT !.seen = TRUE]]
  /\ UNCHANGED <<listed, up, claims, hint, local, flaky>>

\* The Done frame of that action: its outputs are to be found at w.
Done(w) ==
  /\ w \in owing \cap listed
  /\ owing' = owing \ {w}
  /\ hint' = w
  /\ UNCHANGED <<listed, up, holds, claims, local, flaky, call>>

\* The copy goes away under the worker.
Forget(w) ==
  /\ w \in Forgetful \cap Holders
  /\ holds' = holds \ {w}
  /\ Lost(w)
  /\ UNCHANGED <<listed, up, claims, hint, local, owing, flaky>>

Die(w) ==
  /\ w \in Mortal \cap up
  /\ up' = up \ {w}
  /\ Lost(w)
  /\ UNCHANGED <<listed, holds, claims, hint, local, owing, flaky>>

\* handle_worker ends: the bloom goes, the hints stay.
Leave(w) ==
  /\ w \in listed \ up
  /\ listed' = listed \ {w}
  /\ claims' = claims \ {w}
  /\ UNCHANGED <<up, holds, hint, local, owing, flaky, call>>

\* The network recovers.
Calm ==
  /\ flaky /\ flaky' = FALSE
  /\ UNCHANGED <<listed, up, holds, claims, hint, local, owing, call>>

----------------------------------------------------------------------------
EnsureStep(c) ==
  \/ ReadHint(c) \/ ReadBlooms(c) \/ Probe(c) \/ Answers(c) \/ Seed(c)
  \/ \E w \in Workers : FetchFound(c, w) \/ FetchDenied(c, w) \/ FetchFails(c, w)
  \/ Keep(c) \/ Evict(c) \/ EndRound(c)

HasStep(c) ==
  \/ Pick(c) \/ Ask(c, "ask", "note") \/ Note(c)
  \/ Ask(c, "ask2", "note2") \/ NoteOwner(c)

FleetStep(w) ==
  \/ Join(w) \/ Gossip(w) \/ Produce(w) \/ Done(w) \/ Forget(w) \/ Die(w) \/ Leave(w)

Next ==
  \/ \E c \in Calls : Ensure(c) \/ EnsureStep(c) \/ Has(c) \/ HasStep(c)
  \/ \E w \in Workers : FleetStep(w)
  \/ Calm

Spec == Init /\ [][Next]_vars

\* A call that has begun goes on; a worker gossips every 30 s.
FairSpec ==
  /\ Spec
  /\ \A c \in Calls : WF_vars(EnsureStep(c) \/ HasStep(c))
  /\ \A w \in Workers : WF_vars(Gossip(w)) /\ WF_vars(Leave(w))

----------------------------------------------------------------------------
(* Properties                                                              *)

Ats == {"idle", "hint", "blooms", "probe", "answers", "seed", "fetch", "keep", "evict",
        "pick", "ask", "note", "ask2", "note2"}

CallState ==
  [at : Ats, round : 1..Rounds, lead : Workers \cup {None},
   rest : SUBSET Workers, asked : Workers \cup {None}, clean : BOOLEAN, failed : BOOLEAN,
   owner : Workers \cup {None}, ok : BOOLEAN, said : {"yes", "no", "error", None},
   since : SUBSET Workers, known : SUBSET Workers, seen : BOOLEAN]

\* Every variable has the type its Rust counterpart has.
TypeOK ==
  /\ listed \subseteq Workers /\ up \subseteq Workers /\ holds \subseteq Workers
  /\ claims \subseteq Workers /\ hint \in Workers \cup {None} /\ local \in BOOLEAN
  /\ owing \subseteq Workers /\ flaky \in BOOLEAN
  /\ call \in [Calls -> CallState]

Answered(c, answer) == Step(c, "idle") /\ call[c].said = answer

\* "A saturated holder's transient fetch error must NOT become Missing": a
\* read never says Missing of a blob that a connected worker has held, and
\* its bloom has claimed, all the while, however its fetches fail and
\* whichever false claimants deny the blob.
KnownHoldersAreNeverMissed ==
  \A c \in Readers : Answered(c, "no") => call[c].known = {}

\* A presence check says no only after the range owner, if it has held the
\* blob all the while and answered, has been asked: a stale hint or a bloom's
\* false positive does not hide it.
OwnerIsConsulted ==
  \A c \in Checkers : Answered(c, "no") => call[c].owner \notin call[c].since

\* "The index is a routing HINT, not a presence oracle": a presence check
\* says yes only if somebody had the blob while it ran.
PresenceIsTestified ==
  \A c \in Checkers : Answered(c, "yes") => call[c].seen

\* Stale hints, dead peers, false claims and failed calls do not hide a blob
\* for ever: when from some time on a connected worker holds it and peers
\* answer, reads that are made again and again bring it to the driver.
ReadsSucceedInTheEnd ==
  (/\ <>[]~flaky
   /\ \E w \in Workers : <>[](w \in listed \cap Holders)
   /\ \E c \in Readers : []<>~Step(c, "idle"))
    => <>local
=============================================================================
