----------------------------- MODULE ActionCache -----------------------------
(***************************************************************************)
(* The driver's action cache: rows on disk (Store::ac_put, ac_get), the    *)
(* two memos of Driver::validated_ac_get, and the handlers that use it.    *)
(* GetActionResult looks a key up; Execute looks it up and, unless it      *)
(* hits, runs the action and writes a row; UpdateActionResult writes the   *)
(* row a client brings; scrub_ac looks every suspect row up and deletes    *)
(* the unservable ones.                                                    *)
(*                                                                         *)
(* validated_ac_get takes a lock for each access to a memo and awaits the  *)
(* disk and the fleet in between: each such access is a step of its own,   *)
(* and anything can happen between two of them.                            *)
(***************************************************************************)
CONSTANTS
  Calls,      \* the tasks that serve requests, each one call after another
  Keys,       \* action digests
  Results,    \* encoded ActionResults
  Corrupt,    \* bytes that do not decode to one
  Absent,
  Peers,      \* worker processes; a restarted worker is a new one
  Blobs,      \* CAS digests
  Outputs,    \* Outputs[r]: the digests r names, its trees included
  Trees,      \* those of them that are Tree protos
  Inside,     \* Inside[t]: the files and child directories of tree t
  Seed,       \* Seed[w]: the blobs worker w starts with
  Late,       \* the workers that join when the driver is already serving
  Builds,     \* Builds[k]: the results a run of action k may end with
  Uploads,    \* the results clients bring to UpdateActionResult
  ProbesFail  \* whether a blob that is held may go unfound: its holder is not
              \* asked, or does not answer

ASSUME CacheTables ==
  /\ DOMAIN Outputs = Results /\ \A r \in Results : Outputs[r] \subseteq Blobs
  /\ Trees \subseteq Blobs
  /\ DOMAIN Inside = Trees /\ \A t \in Trees : Inside[t] \subseteq Blobs
  /\ Late \subseteq Peers /\ DOMAIN Seed = Peers /\ \A w \in Peers : Seed[w] \subseteq Blobs
  /\ DOMAIN Builds = Keys /\ \A k \in Keys : Builds[k] \subseteq Results
  /\ Uploads \subseteq Results
  /\ ProbesFail \in BOOLEAN
ASSUME CacheNames ==
  /\ Corrupt \notin Results /\ Absent \notin Results \cup {Corrupt} \cup Keys
  /\ Calls \cap Keys = {}

VARIABLES
  row,       \* row[k]: the bytes in ac/<k>, or Absent
  servable,  \* memo_servable: key -> result
  refused,   \* memo_unservable: age of the verdict, "young" below 120 s
  held,      \* held[w]: the blobs of a worker's store
  coming,    \* the workers that have yet to join
  alive,     \* the worker processes that have joined
  unnoticed, \* the dead ones whose disconnect handle_worker has yet to handle
  local,     \* the blobs of the driver's store
  known,     \* history: the blobs anybody has ever had
  shaky,     \* history: the calls about to admit a result probed before a death,
             \* and the keys that have been admitted so
  task       \* task[c]: what a task is doing

cacheVars == <<row, servable, refused, held, coming, alive, unnoticed, local, known,
               shaky, task>>

memoVars  == <<servable, refused, shaky>>
fleetVars == <<held, coming, alive, unnoticed, local, known>>

\* What a result needs to be materialised: the digests it names and the
\* contents of its trees.
Refs(r) == Outputs[r] \cup UNION {Inside[t] : t \in Outputs[r] \cap Trees}

\* What the driver can lay its hands on.
Held == local \cup UNION {held[w] : w \in Peers}

Opened(at, door, k, bytes) ==
  [at |-> at, door |-> door, key |-> k, bytes |-> bytes, said |-> Absent]

CacheInit ==
  /\ row \in [Keys -> Results \cup {Corrupt, Absent}]
  /\ servable = [k \in Keys |-> Absent]
  /\ refused = [k \in Keys |-> Absent]
  /\ held = [w \in Peers |-> IF w \in Late THEN {} ELSE Seed[w]]
  /\ coming = Late
  /\ alive = Peers \ Late
  /\ unnoticed = {}
  /\ local = {}
  /\ known = UNION {Seed[w] : w \in Peers \ Late}
  /\ shaky = {}
  /\ task = [c \in Calls |-> Opened("idle", "get", Absent, Absent)]

Step(c, at) == task[c].at = at
Goto(c, at) == task' = [task EXCEPT ![c].at = at]

\* The verdict of validated_ac_get, and what its caller does with it: Execute
\* runs the action unless it hit, scrub deletes what is unservable.
Answer(c, verdict) ==
  task' = [task EXCEPT
    ![c].said = verdict,
    ![c].at = CASE task[c].door = "execute" /\ verdict # "hit" -> "run"
                [] task[c].door = "scrub" /\ verdict = "unservable" -> "delete"
                [] OTHER -> "idle"]

----------------------------------------------------------------------------
(* The doors                                                               *)

Get(c, k) ==
  /\ Step(c, "idle")
  /\ task' = [task EXCEPT ![c] = Opened("memo", "get", k, Absent)]
  /\ UNCHANGED <<row, memoVars, fleetVars>>

\* With skip_cache_lookup the row is not asked for.
Execute(c, k) ==
  /\ Step(c, "idle")
  /\ \E at \in {"memo", "run"} :
       task' = [task EXCEPT ![c] = Opened(at, "execute", k, Absent)]
  /\ UNCHANGED <<row, memoVars, fleetVars>>

Update(c, k) ==
  /\ Step(c, "idle")
  /\ \E r \in Uploads :
       task' = [task EXCEPT ![c] = Opened("put", "update", k, r)]
  /\ UNCHANGED <<row, memoVars, fleetVars>>

\* scrub_ac lists the rows and leaves out those with a servable verdict.
Scrub(c, k) ==
  /\ Step(c, "idle") /\ row[k] # Absent /\ servable[k] = Absent
  /\ task' = [task EXCEPT ![c] = Opened("memo", "scrub", k, Absent)]
  /\ UNCHANGED <<row, memoVars, fleetVars>>

----------------------------------------------------------------------------
(* Driver::validated_ac_get                                                *)

AskMemo(c) ==
  /\ Step(c, "memo")
  /\ IF servable[task[c].key] # Absent THEN Answer(c, "hit") ELSE Goto(c, "row")
  /\ UNCHANGED <<row, memoVars, fleetVars>>

ReadRow(c) ==
  /\ Step(c, "row")
  /\ IF row[task[c].key] = Absent
       THEN Answer(c, "miss")
       ELSE task' = [task EXCEPT ![c].at = "verdict", ![c].bytes = row[task[c].key]]
  /\ UNCHANGED <<row, memoVars, fleetVars>>

\* Mutant: an unservable verdict holds for the session.
AskVerdictForever(c) ==
  /\ Step(c, "verdict")
  /\ CASE refused[task[c].key] # Absent -> Answer(c, "unservable")
       [] refused[task[c].key] = Absent /\ task[c].bytes = Corrupt -> Answer(c, "miss")
       [] OTHER -> Goto(c, "trees")
  /\ UNCHANGED <<row, memoVars, fleetVars>>

\* Mutant: bytes that do not decode are served as an empty result.
AskVerdictUndecoded(c) ==
  /\ Step(c, "verdict")
  /\ CASE refused[task[c].key] = "young" -> Answer(c, "unservable")
       [] refused[task[c].key] # "young" /\ task[c].bytes = Corrupt -> Goto(c, "admit")
       [] OTHER -> Goto(c, "trees")
  /\ UNCHANGED <<row, memoVars, fleetVars>>

\* A young unservable verdict stands; bytes that do not decode are a miss.
AskVerdict(c) ==
  /\ Step(c, "verdict")
  /\ CASE refused[task[c].key] = "young" -> Answer(c, "unservable")
       [] refused[task[c].key] # "young" /\ task[c].bytes = Corrupt -> Answer(c, "miss")
       [] OTHER -> Goto(c, "trees")
  /\ UNCHANGED <<row, memoVars, fleetVars>>

\* Each tree is fetched into the driver's store (also when another one cannot
\* be); one that cannot be fetched, or does not decode, refuses the result.
FetchTrees(c) ==
  LET trees == Outputs[task[c].bytes] \cap Trees IN
  /\ Step(c, "trees")
  /\ \E got \in SUBSET (trees \cap Held) :
       /\ ~ProbesFail => got = trees \cap Held
       /\ local' = local \cup got
       /\ Goto(c, IF got = trees THEN "blobs" ELSE "refuse")
  /\ UNCHANGED <<row, memoVars, held, coming, alive, unnoticed, known>>

\* Mutant: the trees are demanded, not what is in them.
ProbeOutputs(c) ==
  /\ Step(c, "blobs")
  /\ Goto(c, IF Outputs[task[c].bytes] \subseteq Held THEN "admit" ELSE "refuse")
  /\ UNCHANGED <<row, memoVars, fleetVars>>

\* has_blobs: every digest is in the driver's store or a peer says it has it.
ProbeBlobs(c) ==
  /\ Step(c, "blobs")
  /\ \/ Refs(task[c].bytes) \subseteq Held /\ Goto(c, "admit")
     \/ (Refs(task[c].bytes) \subseteq Held => ProbesFail) /\ Goto(c, "refuse")
  /\ UNCHANGED <<row, memoVars, fleetVars>>

Refuse(c) ==
  /\ Step(c, "refuse")
  /\ refused' = [refused EXCEPT ![task[c].key] = "young"]
  /\ Answer(c, "unservable")
  /\ UNCHANGED <<row, servable, shaky, fleetVars>>

Admit(c) ==
  /\ Step(c, "admit")
  /\ servable' = [servable EXCEPT ![task[c].key] = task[c].bytes]
  /\ shaky' = (shaky \ {c, task[c].key}) \cup IF c \in shaky THEN {task[c].key} ELSE {}
  /\ Answer(c, "hit")
  /\ UNCHANGED <<row, refused, fleetVars>>

\* The 120 s of an unservable verdict pass.
Expire(k) ==
  /\ refused[k] = "young"
  /\ refused' = [refused EXCEPT ![k] = "expired"]
  /\ UNCHANGED <<row, servable, shaky, fleetVars, task>>

----------------------------------------------------------------------------
(* Running an action and writing a row                                     *)

\* The outputs stay with the worker that ran the action, or are uploaded to
\* the driver.  A result that may not be cached, or an error, writes no row.
Run(c) ==
  /\ Step(c, "run")
  /\ \/ \E r \in Builds[task[c].key] :
          /\ known' = known \cup Refs(r)
          /\ \/ /\ local' = local \cup Refs(r)
                /\ UNCHANGED held
             \/ \E w \in alive : /\ held' = [held EXCEPT ![w] = @ \cup Refs(r)]
                                 /\ UNCHANGED local
          /\ \E at \in {"put", "idle"} :
               task' = [task EXCEPT ![c].at = at, ![c].bytes = r]
     \/ /\ Goto(c, "idle")
        /\ UNCHANGED <<held, local, known>>
  /\ UNCHANGED <<row, memoVars, coming, alive, unnoticed>>

\* Execute goes on to note_ac_written also when the row cannot be written,
\* UpdateActionResult does not.
PutRow(c) ==
  /\ Step(c, "put")
  /\ \/ /\ row' = [row EXCEPT ![task[c].key] = task[c].bytes]
        /\ Goto(c, "note")
     \/ /\ Goto(c, IF task[c].door = "update" THEN "idle" ELSE "note")
        /\ UNCHANGED row
  /\ UNCHANGED <<memoVars, fleetVars>>

\* note_ac_written drops the unservable verdict, then the servable one.
NoteUnservable(c) ==
  /\ Step(c, "note")
  /\ refused' = [refused EXCEPT ![task[c].key] = Absent]
  /\ Goto(c, "note2")
  /\ UNCHANGED <<row, servable, shaky, fleetVars>>

NoteServable(c) ==
  /\ Step(c, "note2")
  /\ servable' = [servable EXCEPT ![task[c].key] = Absent]
  /\ shaky' = shaky \ {task[c].key}
  /\ Goto(c, "idle")
  /\ UNCHANGED <<row, refused, fleetVars>>

Delete(c) ==
  /\ Step(c, "delete")
  /\ row' = [row EXCEPT ![task[c].key] = Absent]
  /\ Goto(c, "idle")
  /\ UNCHANGED <<memoVars, fleetVars>>

----------------------------------------------------------------------------
(* Workers                                                                 *)

\* A worker joins with what was banked for it.
Arrive(w) ==
  /\ w \in coming
  /\ coming' = coming \ {w}
  /\ alive' = alive \cup {w}
  /\ held' = [held EXCEPT ![w] = Seed[w]]
  /\ known' = known \cup Seed[w]
  /\ UNCHANGED <<row, memoVars, unnoticed, local, task>>

\* A worker process ends, and its store with it.
Die(w) ==
  /\ w \in alive
  /\ alive' = alive \ {w}
  /\ held' = [held EXCEPT ![w] = {}]
  /\ unnoticed' = unnoticed \cup {w}
  /\ shaky' = shaky \cup {c \in Calls : Step(c, "admit")}
  /\ UNCHANGED <<row, servable, refused, coming, local, known, task>>

\* Mutant: the memo survives a disconnect.
NoticeKeepingMemo(w) ==
  /\ w \in unnoticed
  /\ unnoticed' = unnoticed \ {w}
  /\ UNCHANGED <<row, memoVars, held, coming, alive, local, known, task>>

\* handle_worker's reader ends: every servable verdict is dropped.
Notice(w) ==
  /\ w \in unnoticed
  /\ unnoticed' = unnoticed \ {w}
  /\ servable' = [k \in Keys |-> Absent]
  /\ shaky' = shaky \ Keys
  /\ UNCHANGED <<row, refused, held, coming, alive, local, known, task>>

----------------------------------------------------------------------------
Lookup(c) == \/ AskMemo(c) \/ ReadRow(c) \/ AskVerdict(c) \/ FetchTrees(c)
             \/ ProbeBlobs(c) \/ Refuse(c) \/ Admit(c)
Write(c)  == \/ Run(c) \/ PutRow(c) \/ NoteUnservable(c) \/ NoteServable(c) \/ Delete(c)
Open(c)   == \E k \in Keys : Get(c, k) \/ Execute(c, k) \/ Update(c, k) \/ Scrub(c, k)

CacheNext ==
  \/ \E c \in Calls : Open(c) \/ Lookup(c) \/ Write(c)
  \/ \E k \in Keys : Expire(k)
  \/ \E w \in Peers : Arrive(w) \/ Die(w) \/ Notice(w)

CacheSpec == CacheInit /\ [][CacheNext]_cacheVars

\* A call that has begun goes on, time passes, disconnects are noticed.
CacheFairness ==
  /\ \A c \in Calls : WF_cacheVars(Lookup(c) \/ Write(c))
  /\ \A k \in Keys : WF_cacheVars(Expire(k))
  /\ \A w \in Peers : WF_cacheVars(Notice(w))

----------------------------------------------------------------------------
(* Properties                                                              *)

Ats   == {"idle", "memo", "row", "verdict", "trees", "blobs", "refuse", "admit",
          "run", "put", "note", "note2", "delete"}
Doors == {"get", "execute", "update", "scrub"}
Said  == {"hit", "miss", "unservable", Absent}

CallState == [at : Ats, door : Doors, key : Keys \cup {Absent},
              bytes : Results \cup {Corrupt, Absent}, said : Said]

\* A call knows its key, and the bytes it works on where it needs them.
Carrying == {"trees", "blobs", "refuse", "admit", "put"}
Sound(s) ==
  /\ s.at # "idle" => s.key \in Keys
  /\ s.at = "verdict" => s.bytes # Absent
  /\ s.at \in Carrying => s.bytes \in Results

\* Every variable has the type its Rust counterpart has: whatever is on disk,
\* a memo holds only results, and so does a call that validates or writes.
CacheTypeOK ==
  /\ row \in [Keys -> Results \cup {Corrupt, Absent}]
  /\ servable \in [Keys -> Results \cup {Absent}]
  /\ refused \in [Keys -> {"young", "expired", Absent}]
  /\ held \in [Peers -> SUBSET Blobs] /\ \A w \in coming : held[w] = {}
  /\ coming \subseteq Peers /\ alive \subseteq Peers \ coming
  /\ unnoticed \subseteq Peers \ (alive \cup coming)
  /\ local \subseteq Blobs /\ known \subseteq Blobs /\ shaky \subseteq Calls \cup Keys
  /\ task \in [Calls -> CallState]
  /\ \A c \in Calls : Sound(task[c])

\* A hit never names a blob that nobody has ever had, top-level or inside a
\* directory output: rows from an older bank whose blobs were lost are not
\* served, through either door, nor memoized.
HitsNameExistingBlobs ==
  \A k \in Keys : servable[k] # Absent => Refs(servable[k]) \subseteq known

\* Once every disconnect has been handled, what the memo serves is held by
\* somebody, save for a result that was probed before a worker died and
\* admitted after its disconnect was handled.
OnlyRacedVerdictsAreStale ==
  unnoticed = {} => \A k \in Keys \ shaky : servable[k] # Absent => Refs(servable[k]) \subseteq Held

\* Some call on k is told that its row is unservable.
RefusedNow(k) == \E c \in Calls : /\ task[c].key = k
                                  /\ task[c].said # "unservable"
                                  /\ task'[c].said = "unservable"

\* "Staleness there is over-conservative": refusals end.  When probes are
\* answered and from some time on the row of k can be delivered, then from
\* some time on no call on k is refused.
RefusalsEnd ==
  \A k \in Keys :
    (<>[](row[k] \in Results /\ Refs(row[k]) \subseteq Held))
      => <>[][~RefusedNow(k)]_cacheVars
=============================================================================
