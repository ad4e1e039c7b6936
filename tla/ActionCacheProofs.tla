-------------------------- MODULE ActionCacheProofs --------------------------
(* What TLAPS proves about ActionCache, for any number of calls, keys,     *)
(* results, workers and blobs.                                             *)
EXTENDS ActionCache, TLAPS

CallsTyped == task \in [Calls -> CallState] /\ \A c \in Calls : Sound(task[c])

LEMMA RefsTyped == \A r \in Results : Refs(r) \subseteq Blobs
  BY CacheTables DEF Refs

\* A call that goes to a new place keeps everything else.
LEMMA GotoTyped ==
  ASSUME CallsTyped, NEW c \in Calls, NEW at \in Ats, Goto(c, at), task[c].key \in Keys,
         at = "verdict" => task[c].bytes # Absent,
         at \in Carrying => task[c].bytes \in Results
  PROVE  /\ CallsTyped'
         /\ task'[c] = [task[c] EXCEPT !.at = at]
         /\ \A d \in Calls \ {c} : task'[d] = task[d]
<1>1. /\ task' \in [Calls -> CallState]
      /\ task'[c] = [task[c] EXCEPT !.at = at]
      /\ \A d \in Calls \ {c} : task'[d] = task[d]
  BY DEF Goto, CallState, CallsTyped
<1>2. task[c] \in CallState
  BY DEF CallsTyped
<1>3. Sound(task'[c])
  BY <1>1, <1>2 DEF Sound, CallState
<1> QED
  BY <1>1, <1>3 DEF CallsTyped

\* An answered call validates nothing any more.
LEMMA AnswerTyped ==
  ASSUME CallsTyped, NEW c \in Calls, NEW v \in Said, Answer(c, v), task[c].key \in Keys
  PROVE  /\ CallsTyped'
         /\ task'[c].at \in {"run", "delete", "idle"}
         /\ \A d \in Calls \ {c} : task'[d] = task[d]
<1> DEFINE next == CASE task[c].door = "execute" /\ v # "hit" -> "run"
                     [] task[c].door = "scrub" /\ v = "unservable" -> "delete"
                     [] OTHER -> "idle"
<1>1. next \in {"run", "delete", "idle"}
  OBVIOUS
<1>2. task[c] \in CallState
  BY DEF CallsTyped
<1>3. /\ task'[c] = [task[c] EXCEPT !.said = v, !.at = next]
      /\ task' \in [Calls -> CallState]
      /\ \A d \in Calls \ {c} : task'[d] = task[d]
  BY <1>1, <1>2 DEF Answer, CallsTyped, CallState, Ats
<1> HIDE DEF next
<1>4. task'[c].at = next /\ task'[c].key = task[c].key
  BY <1>2, <1>3 DEF CallState
<1> QED
  BY <1>1, <1>3, <1>4 DEF CallsTyped, Sound, Carrying

\* A call opened through one of the doors.
LEMMA OpenTyped ==
  ASSUME CallsTyped, NEW c \in Calls, Open(c)
  PROVE  /\ CallsTyped'
         /\ task'[c].at \in {"memo", "run", "put"}
         /\ \A d \in Calls \ {c} : task'[d] = task[d]
         /\ UNCHANGED <<row, memoVars, fleetVars>>
<1> PICK k \in Keys : Get(c, k) \/ Execute(c, k) \/ Update(c, k) \/ Scrub(c, k)
  BY DEF Open
<1>1. PICK at \in {"memo", "run", "put"}, door \in Doors, bytes \in Results \cup {Absent} :
        /\ at = "put" => bytes \in Results
        /\ task' = [task EXCEPT ![c] = Opened(at, door, k, bytes)]
  BY CacheTables DEF Get, Execute, Update, Scrub, Doors
<1>2. Opened(at, door, k, bytes) \in CallState /\ Sound(Opened(at, door, k, bytes))
  BY <1>1 DEF Opened, CallState, Sound, Carrying, Ats, Said
<1>3. Opened(at, door, k, bytes).at = at
  BY DEF Opened
<1>4. UNCHANGED <<row, memoVars, fleetVars>>
  BY DEF Get, Execute, Update, Scrub
<1> QED
  BY <1>1, <1>2, <1>3, <1>4 DEF CallsTyped

LEMMA InitTyped == CacheInit => CacheTypeOK
  BY CacheTables
  DEF CacheInit, CacheTypeOK, CallState, Opened, Ats, Doors, Said, Sound, Carrying

\* One step of a lookup.
LEMMA LookupTyped ==
  ASSUME CacheTypeOK, NEW c \in Calls, Lookup(c)
  PROVE  CacheTypeOK'
<1>0. /\ CallsTyped
      /\ task[c].at # "idle" => task[c].key \in Keys
      /\ task[c].at = "verdict" => task[c].bytes \in Results \cup {Corrupt}
      /\ task[c].at \in Carrying => task[c].bytes \in Results
      /\ {"hit", "miss", "unservable"} \subseteq Said
  BY DEF CacheTypeOK, CallsTyped, CallState, Sound, Said
<1> SUFFICES /\ CallsTyped'
             /\ row' \in [Keys -> Results \cup {Corrupt, Absent}]
             /\ servable' \in [Keys -> Results \cup {Absent}]
             /\ refused' \in [Keys -> {"young", "expired", Absent}]
             /\ local' \subseteq Blobs /\ shaky' \subseteq Calls \cup Keys
             /\ UNCHANGED <<held, coming, alive, unnoticed, known>>
  BY DEF CacheTypeOK, CallsTyped
<1> USE DEF memoVars, fleetVars, Step
<1>1. CASE AskMemo(c)
  BY <1>0, <1>1, GotoTyped, AnswerTyped DEF AskMemo, Ats, Carrying, CacheTypeOK
<1>2. CASE ReadRow(c)
  <2>1. CASE row[task[c].key] = Absent
    BY <1>0, <1>2, <2>1, AnswerTyped DEF ReadRow, CacheTypeOK
  <2>2. CASE row[task[c].key] # Absent
    <3> DEFINE b == row[task[c].key]
    <3>1. task[c] \in CallState /\ b \in Results \cup {Corrupt}
      BY <1>0, <1>2, <2>2 DEF CacheTypeOK, ReadRow
    <3>2. task' = [task EXCEPT ![c].at = "verdict", ![c].bytes = b]
      BY <1>2, <2>2 DEF ReadRow
    <3> HIDE DEF b
    <3>3. /\ task' \in [Calls -> CallState]
          /\ task'[c] = [task[c] EXCEPT !.at = "verdict", !.bytes = b]
          /\ \A d \in Calls \ {c} : task'[d] = task[d]
      BY <1>0, <3>1, <3>2 DEF CallsTyped, CallState, Ats
    <3>4. Sound(task'[c])
      BY <1>0, <1>2, <3>1, <3>3, CacheNames DEF Sound, Carrying, CallState, ReadRow
    <3> QED
      BY <1>0, <1>2, <3>3, <3>4 DEF CallsTyped, ReadRow, CacheTypeOK
  <2> QED
    BY <2>1, <2>2
<1>3. CASE AskVerdict(c)
  <2>1. CASE refused[task[c].key] = "young"
    <3>1. Answer(c, "unservable")
      BY <1>3, <2>1 DEF AskVerdict
    <3> QED
      BY <1>0, <1>3, <3>1, AnswerTyped DEF AskVerdict, CacheTypeOK
  <2>2. CASE refused[task[c].key] # "young" /\ task[c].bytes = Corrupt
    <3>1. Answer(c, "miss")
      BY <1>3, <2>2 DEF AskVerdict
    <3> QED
      BY <1>0, <1>3, <3>1, AnswerTyped DEF AskVerdict, CacheTypeOK
  <2>3. CASE refused[task[c].key] # "young" /\ task[c].bytes # Corrupt
    <3>1. Goto(c, "trees")
      BY <1>3, <2>3 DEF AskVerdict
    <3> QED
      BY <1>0, <1>3, <2>3, <3>1, GotoTyped DEF AskVerdict, CacheTypeOK, Ats
  <2> QED
    BY <2>1, <2>2, <2>3
<1>4. CASE FetchTrees(c)
  <2>1. PICK at \in {"blobs", "refuse"} : Goto(c, at)
    BY <1>4 DEF FetchTrees
  <2>2. CallsTyped'
    BY <1>0, <1>4, <2>1, GotoTyped DEF FetchTrees, Ats, Carrying
  <2>3. local' \subseteq Blobs
    BY <1>4, CacheTables DEF FetchTrees, CacheTypeOK
  <2> QED
    BY <1>4, <2>2, <2>3 DEF FetchTrees, CacheTypeOK
<1>5. CASE ProbeBlobs(c)
  BY <1>0, <1>5, GotoTyped DEF ProbeBlobs, Ats, Carrying, CacheTypeOK
<1>6. CASE Refuse(c)
  BY <1>0, <1>6, AnswerTyped DEF Refuse, CacheTypeOK, Carrying
<1>7. CASE Admit(c)
  BY <1>0, <1>7, AnswerTyped DEF Admit, CacheTypeOK, Carrying
<1> QED
  BY <1>1, <1>2, <1>3, <1>4, <1>5, <1>6, <1>7 DEF Lookup

\* One step of an execution, of a write, or of a scrub's deletion.
LEMMA WriteTyped ==
  ASSUME CacheTypeOK, NEW c \in Calls, Write(c)
  PROVE  CacheTypeOK'
<1>0. /\ CallsTyped
      /\ task[c].at # "idle" => task[c].key \in Keys
      /\ task[c].at \in Carrying => task[c].bytes \in Results
  BY DEF CacheTypeOK, CallsTyped, Sound
<1> SUFFICES /\ CallsTyped'
             /\ row' \in [Keys -> Results \cup {Corrupt, Absent}]
             /\ servable' \in [Keys -> Results \cup {Absent}]
             /\ refused' \in [Keys -> {"young", "expired", Absent}]
             /\ held' \in [Peers -> SUBSET Blobs] /\ \A w \in coming : held'[w] = {}
             /\ local' \subseteq Blobs /\ known' \subseteq Blobs
             /\ shaky' \subseteq Calls \cup Keys
             /\ UNCHANGED <<coming, alive, unnoticed>>
  BY DEF CacheTypeOK, CallsTyped
<1> USE DEF memoVars, fleetVars, Step
<1>1. CASE Run(c)
  <2>1. CASE \E r \in Builds[task[c].key] :
               /\ known' = known \cup Refs(r)
               /\ \/ local' = local \cup Refs(r) /\ UNCHANGED held
                  \/ \E w \in alive : held' = [held EXCEPT ![w] = @ \cup Refs(r)] /\ UNCHANGED local
               /\ \E at \in {"put", "idle"} :
                    task' = [task EXCEPT ![c].at = at, ![c].bytes = r]
    <3>1. PICK r \in Results, at \in {"put", "idle"} :
            /\ known' = known \cup Refs(r)
            /\ \/ local' = local \cup Refs(r) /\ UNCHANGED held
               \/ \E w \in alive : held' = [held EXCEPT ![w] = @ \cup Refs(r)] /\ UNCHANGED local
            /\ task' = [task EXCEPT ![c].at = at, ![c].bytes = r]
      BY <1>0, <1>1, <2>1, CacheTables DEF Run
    <3>2. Refs(r) \subseteq Blobs
      BY RefsTyped
    <3>3. /\ task[c] \in CallState /\ at \in Ats
          /\ [task[c] EXCEPT !.at = at, !.bytes = r] \in CallState
      BY <1>0, <3>1 DEF CallsTyped, CallState, Ats
    <3>4. task' \in [Calls -> CallState]
      BY <1>0, <3>1, <3>3 DEF CallsTyped
    <3>5. /\ task'[c] = [task[c] EXCEPT !.at = at, !.bytes = r]
          /\ \A d \in Calls \ {c} : task'[d] = task[d]
      BY <1>0, <3>1, <3>3 DEF CallsTyped
    <3>6. Sound(task'[c])
      BY <1>0, <1>1, <3>1, <3>3, <3>5 DEF Sound, Carrying, CallState, Run
    <3>7. CallsTyped'
      BY <1>0, <3>4, <3>5, <3>6 DEF CallsTyped
    <3>8. /\ held' \in [Peers -> SUBSET Blobs] /\ \A w \in coming : held'[w] = {}
          /\ local' \subseteq Blobs /\ known' \subseteq Blobs
      BY <3>1, <3>2 DEF CacheTypeOK
    <3> QED
      BY <1>1, <3>7, <3>8 DEF Run, CacheTypeOK
  <2>2. CASE Goto(c, "idle") /\ UNCHANGED <<held, local, known>>
    BY <1>0, <1>1, <2>2, GotoTyped DEF Run, Ats, Carrying, CacheTypeOK
  <2> QED
    BY <1>1, <2>1, <2>2 DEF Run
<1>2. CASE PutRow(c)
  <2>1. \E at \in {"note", "idle"} : Goto(c, at)
    BY <1>2 DEF PutRow
  <2>2. CallsTyped'
    BY <1>0, <1>2, <2>1, GotoTyped DEF PutRow, Ats, Carrying
  <2>3. row' \in [Keys -> Results \cup {Corrupt, Absent}]
    BY <1>0, <1>2 DEF PutRow, CacheTypeOK, Carrying
  <2> QED
    BY <1>2, <2>2, <2>3 DEF PutRow, CacheTypeOK
<1>3. CASE NoteUnservable(c)
  BY <1>0, <1>3, GotoTyped DEF NoteUnservable, Ats, Carrying, CacheTypeOK
<1>4. CASE NoteServable(c)
  BY <1>0, <1>4, GotoTyped DEF NoteServable, Ats, Carrying, CacheTypeOK
<1>5. CASE Delete(c)
  BY <1>0, <1>5, GotoTyped DEF Delete, Ats, Carrying, CacheTypeOK
<1> QED
  BY <1>1, <1>2, <1>3, <1>4, <1>5 DEF Write

LEMMA StepTyped == CacheTypeOK /\ [CacheNext]_cacheVars => CacheTypeOK'
<1> SUFFICES ASSUME CacheTypeOK, [CacheNext]_cacheVars PROVE CacheTypeOK'
  OBVIOUS
<1>1. ASSUME NEW c \in Calls, Open(c) PROVE CacheTypeOK'
  BY <1>1, OpenTyped DEF CacheTypeOK, CallsTyped, memoVars, fleetVars
<1>2. ASSUME NEW k \in Keys, Expire(k) PROVE CacheTypeOK'
  BY <1>2 DEF Expire, CacheTypeOK, fleetVars
<1>3. ASSUME NEW w \in Peers, Arrive(w) PROVE CacheTypeOK'
  BY <1>3, CacheTables DEF Arrive, CacheTypeOK, memoVars
<1>4. ASSUME NEW w \in Peers, Die(w) PROVE CacheTypeOK'
  BY <1>4 DEF Die, CacheTypeOK
<1>5. ASSUME NEW w \in Peers, Notice(w) PROVE CacheTypeOK'
  BY <1>5 DEF Notice, CacheTypeOK
<1>6. CASE UNCHANGED cacheVars
  BY <1>6 DEF cacheVars, CacheTypeOK
<1> QED
  BY <1>1, <1>2, <1>3, <1>4, <1>5, <1>6, LookupTyped, WriteTyped DEF CacheNext

\* Whatever is on disk, only results are memoized, and the calls that validate
\* or write carry one.
THEOREM TypeCorrect == CacheSpec => []CacheTypeOK
  BY InitTyped, StepTyped, PTL DEF CacheSpec

----------------------------------------------------------------------------
\* Everything anybody holds, and everything a memoized or about to be memoized
\* result needs, has existed.
Existing ==
  /\ Held \subseteq known
  /\ HitsNameExistingBlobs
  /\ \A c \in Calls : task[c].at = "admit" => Refs(task[c].bytes) \subseteq known

\* Unless a worker died in between, what is about to be memoized is held.
Backed ==
  /\ OnlyRacedVerdictsAreStale
  /\ \A c \in Calls \ shaky : task[c].at = "admit" => Refs(task[c].bytes) \subseteq Held

LEMMA InitMemo == CacheInit => Existing /\ Backed
  BY DEF CacheInit, Existing, Backed, Held, HitsNameExistingBlobs, OnlyRacedVerdictsAreStale, Opened

\* Calls that move on without admitting or being admitted leave both alone.
LEMMA LookupKeeps ==
  ASSUME CacheTypeOK, Existing, Backed, NEW c \in Calls, Lookup(c)
  PROVE  Existing' /\ Backed'
<1>0. /\ CallsTyped /\ task \in [Calls -> CallState]
      /\ task[c].at # "idle" => task[c].key \in Keys
      /\ {"hit", "miss", "unservable"} \subseteq Said
  BY DEF CacheTypeOK, CallsTyped, Sound, Said
<1>1. CASE Admit(c)
  <2> DEFINE k == task[c].key
             r == task[c].bytes
  <2>1. /\ k \in Keys /\ c \notin Keys /\ task[c].at = "admit"
        /\ Refs(r) \subseteq known /\ (c \notin shaky => Refs(r) \subseteq Held)
    BY <1>0, <1>1, CacheNames DEF Admit, Step, Existing, Backed
  <2>2. /\ servable' = [servable EXCEPT ![k] = r]
        /\ shaky' = (shaky \ {c, k}) \cup IF c \in shaky THEN {k} ELSE {}
        /\ Held' = Held /\ known' = known /\ unnoticed' = unnoticed
    BY <1>1 DEF Admit, fleetVars, Held
  <2>3. /\ task'[c].at \in {"run", "delete", "idle"}
        /\ \A d \in Calls \ {c} : task'[d] = task[d]
    BY <1>0, <1>1, AnswerTyped DEF Admit, Step
  <2>4. servable \in [Keys -> Results \cup {Absent}]
    BY DEF CacheTypeOK
  <2> HIDE DEF k, r
  <2>5. HitsNameExistingBlobs'
    BY <2>1, <2>2, <2>4 DEF Existing, HitsNameExistingBlobs, Refs
  <2>6. OnlyRacedVerdictsAreStale'
    BY <2>1, <2>2, <2>4 DEF Backed, OnlyRacedVerdictsAreStale, Refs
  <2>7. \A d \in Calls : task'[d].at = "admit" =>
           d # c /\ Refs(task'[d].bytes) = Refs(task[d].bytes) /\ task[d].at = "admit"
    BY <2>3 DEF Refs
  <2>8. \A d \in Calls \ {c} : d \notin shaky' => d \notin shaky
    BY <2>1, <2>2, CacheNames
  <2> QED
    BY <2>2, <2>5, <2>6, <2>7, <2>8 DEF Existing, Backed
<1>2. CASE ~Admit(c)
  <2>1. /\ UNCHANGED <<servable, shaky, held, unnoticed, known>>
        /\ local \subseteq local' /\ local' \subseteq local \cup Held
    BY <1>2 DEF Lookup, AskMemo, ReadRow, AskVerdict, FetchTrees, ProbeBlobs, Refuse,
                memoVars, fleetVars
  <2>2. Held' = Held
    BY <2>1 DEF Held
  <2>3. /\ \A d \in Calls \ {c} : task'[d] = task[d]
        /\ task'[c].at = "admit" => Refs(task'[c].bytes) \subseteq Held
    <3>1. CASE ProbeBlobs(c)
      <4>1. PICK at \in {"admit", "refuse"} :
              /\ Goto(c, at) /\ (at = "admit" => Refs(task[c].bytes) \subseteq Held)
              /\ at \in Ats /\ task[c].key \in Keys /\ task[c].bytes \in Results
        BY <1>0, <3>1 DEF ProbeBlobs, Ats, CacheTypeOK, Sound, Carrying, Step
      <4>2. /\ \A d \in Calls \ {c} : task'[d] = task[d]
            /\ task'[c].at = at /\ task'[c].bytes = task[c].bytes
        <5>1. task'[c] = [task[c] EXCEPT !.at = at] /\ task[c] \in CallState
          BY <1>0, <4>1, GotoTyped DEF CallState
        <5> QED
          BY <1>0, <4>1, <5>1, GotoTyped DEF CallState
      <4> QED
        BY <4>1, <4>2 DEF Refs
    <3>2. CASE \E at \in {"row", "trees", "blobs", "refuse"} : Goto(c, at)
      BY <1>0, <3>2 DEF Goto, CallState
    <3>3. CASE \E v \in Said : Answer(c, v) /\ task[c].key \in Keys
      <4>1. PICK v \in Said : Answer(c, v) /\ task[c].key \in Keys
        BY <3>3
      <4> QED
        BY <1>0, <4>1, AnswerTyped
    <3>4. CASE ReadRow(c)
      <4>1. CASE Answer(c, "miss")
        <5>1. "miss" \in Said /\ task[c].key \in Keys
          BY <1>0, <3>4 DEF ReadRow, Step
        <5> QED
          BY <1>0, <4>1, <5>1, AnswerTyped
      <4>2. CASE task' = [task EXCEPT ![c].at = "verdict", ![c].bytes = row[task[c].key]]
        <5>1. /\ task'[c] = [task[c] EXCEPT !.at = "verdict", !.bytes = row[task[c].key]]
              /\ \A d \in Calls \ {c} : task'[d] = task[d]
          BY <1>0, <4>2
        <5> QED
          BY <1>0, <5>1 DEF CallState
      <4> QED
        BY <3>4, <4>1, <4>2 DEF ReadRow
    <3> QED
      BY <1>0, <1>2, <3>1, <3>2, <3>3, <3>4
      DEF Lookup, AskMemo, AskVerdict, FetchTrees, Refuse, Step
  <2> QED
    BY <2>1, <2>2, <2>3
    DEF Existing, Backed, HitsNameExistingBlobs, OnlyRacedVerdictsAreStale, Refs
<1> QED
  BY <1>1, <1>2

LEMMA WriteKeeps ==
  ASSUME CacheTypeOK, Existing, Backed, NEW c \in Calls, Write(c)
  PROVE  Existing' /\ Backed'
<1>0. CallsTyped /\ (task[c].at # "idle" => task[c].key \in Keys)
  BY DEF CacheTypeOK, CallsTyped, Sound
<1>1. /\ Held \subseteq Held' /\ known \subseteq known' /\ Held' \subseteq known'
      /\ unnoticed' = unnoticed
  <2>1. CASE Run(c)
    BY <2>1 DEF Run, Held, Existing, CacheTypeOK
  <2>2. CASE ~Run(c)
    BY <2>2 DEF Write, PutRow, NoteUnservable, NoteServable, Delete, fleetVars, Held, Existing
  <2> QED
    BY <2>1, <2>2
<1>2. /\ \A k \in Keys : servable'[k] # Absent => servable'[k] = servable[k]
      /\ \A k \in Keys : k \in shaky /\ k \notin shaky' => servable'[k] = Absent
      /\ shaky \cap Calls = shaky' \cap Calls
  BY <1>0, CacheNames
  DEF Write, Run, PutRow, NoteUnservable, NoteServable, Delete, memoVars, CacheTypeOK, Step
<1>3. /\ \A d \in Calls \ {c} : task'[d] = task[d]
      /\ task'[c].at # "admit"
  BY <1>0 DEF Write, Run, PutRow, NoteUnservable, NoteServable, Delete, Goto, CallsTyped, CallState
<1> QED
  BY <1>1, <1>2, <1>3
  DEF Existing, Backed, HitsNameExistingBlobs, OnlyRacedVerdictsAreStale, Refs

LEMMA StepKeeps == CacheTypeOK /\ Existing /\ Backed /\ [CacheNext]_cacheVars => Existing' /\ Backed'
<1> SUFFICES ASSUME CacheTypeOK, Existing, Backed, [CacheNext]_cacheVars PROVE Existing' /\ Backed'
  OBVIOUS
<1> USE DEF Existing, Backed, HitsNameExistingBlobs, OnlyRacedVerdictsAreStale, Refs
<1>1. ASSUME NEW c \in Calls, Open(c) PROVE Existing' /\ Backed'
  BY <1>1, OpenTyped DEF CacheTypeOK, CallsTyped, memoVars, fleetVars, Held
<1>2. ASSUME NEW k \in Keys, Expire(k) PROVE Existing' /\ Backed'
  BY <1>2 DEF Expire, fleetVars, Held
<1>3. ASSUME NEW w \in Peers, Arrive(w) PROVE Existing' /\ Backed'
  <2>1. Held \subseteq Held' /\ Held' \subseteq known' /\ known \subseteq known'
    BY <1>3 DEF Arrive, Held, CacheTypeOK
  <2> QED
    BY <1>3, <2>1 DEF Arrive, memoVars
<1>4. ASSUME NEW w \in Peers, Die(w) PROVE Existing' /\ Backed'
  <2>1. Held' \subseteq Held
    BY <1>4 DEF Die, Held, CacheTypeOK
  <2> QED
    BY <1>4, <2>1 DEF Die, Step
<1>5. ASSUME NEW w \in Peers, Notice(w) PROVE Existing' /\ Backed'
  BY <1>5, CacheNames DEF Notice, Held
<1>6. CASE UNCHANGED cacheVars
  BY <1>6 DEF cacheVars, Held
<1> QED
  BY <1>1, <1>2, <1>3, <1>4, <1>5, <1>6, LookupKeeps, WriteKeeps DEF CacheNext

\* Neither memo nor row nor the bank makes the cache promise a blob, at the
\* top level or inside a directory output, that nobody has ever had.
THEOREM PromisesExist == CacheSpec => []HitsNameExistingBlobs
<1>1. Existing => HitsNameExistingBlobs
  BY DEF Existing
<1> QED
  BY <1>1, InitTyped, StepTyped, InitMemo, StepKeeps, PTL DEF CacheSpec

\* Clearing the memo at each disconnect leaves one way for a verdict to be
\* stale: it was probed before a worker died and admitted after the clearing.
THEOREM StaleOnlyByRace == CacheSpec => []OnlyRacedVerdictsAreStale
<1>1. Backed => OnlyRacedVerdictsAreStale
  BY DEF Backed
<1> QED
  BY <1>1, InitTyped, StepTyped, InitMemo, StepKeeps, PTL DEF CacheSpec
=============================================================================
