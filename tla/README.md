# Verification of rebuck2

rebuck2 is a remote-execution cluster that lives for the length of one CI run.
The *driver* serves buck2's Remote Execution API, keeps the queue of actions
and the index of who holds which blob; *workers* on other runners dial it
through an iroh mesh, execute actions and keep the blobs they produce or
preloaded; a *bank* carries blobs and action results from one run to the next as
GitHub artifacts. This directory has TLA+ models of the parts whose correctness
depends on the order of things, TLC runs on small instances of them, and proofs
checked by TLAPS for all instances.

Paths are relative to `src/`; `driver.rs` and the like are in
`rebuck2/src/`.

## 1. The system

| Component | Code | State | Operations |
|---|---|---|---|
| Pool barrier | `driver.rs` `await_pool_formed`, `handle_worker` | `workers`, latch `pool_formed`, `Notify` | wait for heads and shards; push a worker and notify; drop one |
| Scheduler | `driver.rs` `execute`, `pump`, `handle_worker`, `complete` | `jobs`, `queue` per platform, `affinity_owner`, `workers` with `inflight` and a channel each | submit, assign, send, settle `Done`/`Failed`, speculate, requeue after a disconnect, run in-process |
| Action cache | `driver.rs` `validated_ac_get`, `note_ac_written`, `scrub_ac`; `rpc.rs` `Ac`, `Exec::execute` | rows on disk, `memo_servable`, `memo_unservable` | look up and validate, execute and write, upload, scrub |
| Blob routing | `driver.rs` `has_blobs`, `ensure_blob_local`, `probe_workers`; `mesh.rs` `Bloom`; `worker.rs` `serve_get` | `providers`, `blooms`, the workers' preloaded shards | presence check, fetch, gossip, seeding and eviction of hints |
| Content store | `store.rs` | files `cas/`, `ac/`, `acn/`, `tmp/` | put, stream in, adopt an output, stage an input, write and delete rows |
| Worker session | `worker.rs` `run`, `retry_verdict`, `sync_shard` | connection, control stream, watchdog | dial, hello, serve, finalize, give up |
| Finalize | `driver.rs` 402-460, `finalize_shards`, `ListShard` | `finalized_shards`, signal files | scrub, give each shard to one worker, wait for a deadline, Exit to all |
| Worker blob access | `worker.rs` `RemoteBlobs`, `TrackingBlobs` | local store, blooms of the others | local, then peer by bloom, then driver, then redirect |
| Canonical cache | `norm.rs`, `driver.rs` 1803-1960 | `memo_canonical`, `acn/` rows | key an action, probe, rewrite, put |
| Execution | `exec.rs` | a directory per action or per crate, `crate_lock`, trash | clear, stage inputs, run, collect outputs, reclaim |
| Blob bank | `bank/cas.rs`, `bank/pack.rs` | one manifest per lineage and hash range, containers, spills | restore, absorb spills, pack, compact, publish |
| Action-cache bank | `bank/ac.rs` | one manifest per lineage and role, containers of rows | restore in order, purge, collapse, publish |
| Graph-state bank | `bank/dice.rs` | rows of buck2's value store, a skeleton | restore and merge, or start cold; pack, publish |
| GitHub client | `github.rs` | the shelf of artifacts | by name, by prefix, download |
| CI glue | `rebuck2/actions/*`, `src/*.ts`, `main.rs` | | |

How they interact: an RPC handler of the driver asks the action cache; on a miss
it calls `execute`, which inserts a job, queues it and calls `pump`; the worker's
reader task turns a `Done` frame into a provider hint, a completed job and another
`pump`. The action cache asks blob routing whether the blobs a row names
are held; blob routing asks the workers, whose `serve_get` looks at the store.
The store is under the driver and under every worker. All of it is tokio tasks
over mutexes that are *not* held across the awaits that matter. Around a lap the
composite actions run the banks: restore before the build, publish after it, in every
job and without any lock between the jobs.

What is hard in it:

- **Gaps between locks.** Almost every handler reads one map, awaits, and writes
  another: barrier count and wait, probe and memo, hint and fetch, the three
  critical sections of a disconnect.
- **Peers that go away** at any point, with or without the driver noticing, and
  peers that come back as new ones.
- **Knowledge that is stale by design**: hints, blooms, memoized verdicts. The code
  must treat it as a route and never as an answer, in either direction.
- **Two copies of one job**, by speculation or requeueing, answering, failing and
  disconnecting in every order.
- **Liveness without timeouts**: `execute` waits on its channel for ever, so a
  lost job hangs a build.
- **A shared inode**: a file of the store is the file an action has as its input.
- **A shared directory**: all commands of a crate run in one path, on every machine,
  whatever a dead predecessor left there.
- **Newest wins**: a manifest is replaced by whoever publishes last, from the head it
  happened to restore, with steps that fail one by one and artifacts that expire.

What makes each component correct:

- *Barrier*: nothing is dispatched before the quorum; a formed pool releases everybody.
- *Scheduler*: every submitted job is owed by somebody until it is answered, once;
  never in two queue places; credits equal outstanding frames; a job goes only
  to a host of its platform; twins of one rustc crate go to one machine.
- *Action cache*: no hit names a blob that is lost; memoized verdicts are
  revalidated when a worker leaves; refusals end.
- *Blob routing*: a blob a known worker holds is never reported missing by a read,
  nor by a presence check whose range owner holds it; a presence check never says
  yes on hearsay; reads get past stale hints.
- *Store*: the file under a digest has that digest; what was reported stored stays;
  rows are whole; through crashes, races and careless actions.
- *Worker session and Finalize*: every shard goes to one worker, if possible one that
  restored it; a banked shard lacks nothing of what the fleet listed but what its sync
  passed over; everybody exits in the end, driver or no driver.
- *Canonical cache*: a hit is what the requester's own run would have made, under its
  own paths.
- *Execution*: a command sees its inputs and nothing of another call, and what is
  collected is its own.
- *Banks*: a manifest names only what landed; an owner that restored its range holds
  it; the newest manifest names no less than the one before; spills are absorbed;
  the rows a lap leaves are the rows the next lap restores; the engine starts whole
  or cold.

## 2. Modules

| Module | Models |
|---|---|
| `PoolBarrier` | the barrier, with the gap between the count and the wait |
| `WorkerSession` | a worker from dialling to exit, and the end of a lap |
| `WorkQueue` | what the scheduler promises, abstractly |
| `Dispatch` | the scheduler; implements `WorkQueue` |
| `ActionCache` | rows, memos, validation and the doors to it |
| `BlobRouting` | presence checks and fetches of one blob in the fleet |
| `AtomicStore` | what the store promises, abstractly |
| `Store` | files, modes and names of one blob and one row; implements `AtomicStore` |
| `Execution` | directories, locks, commands and outputs of `run_action` |
| `Canonical` | the canonical key, and the cache that uses it |
| `Laps` | the jobs of consecutive CI laps, and the lineages they bank into |
| `CasBank` | the blob bank |
| `RowBank` | the action-cache bank |
| `GraphBank` | the graph-state bank |
| `Banks` | the three banks in one specification |
| `*Proofs` | the theorems: `FleetProofs` of the barrier and the sessions, `BankProofs` of the three banks, the others of the module they are named after |
| `MC*` | the tables, hosts and symmetries of the TLC instances; `MCDriver`, `MCSession` and `MCExecution` put several modules in one run |

### PoolBarrier

`pc[c]` is where a call is in `await_pool_formed`: it loads the latch
(`LoadLatch`), counts under the workers lock (`CheckQuorum`), releases it and only
then creates its `Notified` future (`Park`), and sets the latch on its way out
(`SetLatch`). `conn[w]` separates `handle_worker`'s push from its
`notify_waiters()`, which reaches those that are parked and nobody else.
The quorum has two parts, heads (`--min-workers`) and distinct preloaded
shards (`--require-shards`).

### WorkerSession

`life[n]` is where a worker is: `dialling`, `greeting` (Hello sent), `serving`,
`listing` and `fetching` (the two halves of `sync_shard`), `done` or `failed`. `Receive` is
the loop of `run()` taking one frame; `GiveUp` is `retry_verdict`; `Watchdog` its 90 s
without a frame. The driver's side is `Enroll`, `TakeAck` and `Drop` of
`handle_worker`, and the finalize task: `Signal`, `Assign` (`finalize_shards`),
`WriteDone` (all in, or the deadline) and `BroadcastExit`. `ListShard` takes the
answer of any set of peers, because each has a timeout of its own; `Fetch` reads one
blob of a `GetMany` through the driver, which keeps a copy, or passes over it, because nobody
has it or because the fetch failed: `sync_shard` says nothing of either and the shard is
acknowledged all the same. `skipped` is a history of the second kind. A driver
that dies closes no connection; `MarkLapDone` is the poller that writes the note.

### Dispatch and WorkQueue

One action per critical section. `execute` is `Insert` (the table), `Enqueue`
(the queue), a pump and the wait. `pump` holds its locks throughout: it is a
*turn* (`pump.by`) that other steps cannot enter, except those that need no lock
(a channel closing, a frame or a reply in flight, time passing); inside a turn the
code's order is kept: workers in join order, queue places by `pull_order`, `Pulls`
of one job after the other (`PullGone`, `GiveUp`, `DispatchRun` or `SendFails`),
rounds until nothing was assigned, then `Speculate`. `handle_worker` is
`Recv`, `Settle`, a pump for a reply, and `Retain`, `Collect`, `Requeue`, a pump
for a disconnect. `ConnLost` and `WriterFails` are separate: a writer task that
ends makes sends fail while the worker is still listed.

Abstractions: the per-platform queues are one sequence, in which a worker takes
the first job of its most specific key; tasks that only observe (heartbeats,
summaries) are left out; the `n` of the headroom is the code's clamp, 1
in these instances; 500 ms of patience and the age of a straggler are booleans that
become true when time passes. An infrastructure `Failed` settles the job, as in the
code (a comment at `driver.rs:1315-1316` calls such errors retryable at the job
layer: nothing there retries them).

`WorkQueue` has jobs that are open, queued, held by a present worker or answered,
with their attempts; it says that an answer is given once, that a job is given up
only when its attempts are used up, and that no two jobs of a group have two
present holders. `Dispatch` implements it by the mapping at the end of
`Dispatch.tla`.

### ActionCache

`task[c]` is a call in one of the doors (`GetActionResult`, `Execute`,
`UpdateActionResult`, `scrub_ac`) and in `validated_ac_get`, one action
for each access to a memo, the disk or the fleet: `AskMemo`, `ReadRow`, `AskVerdict`,
`FetchTrees`, `ProbeBlobs`, then `Refuse` or `Admit`. Workers join, die, and have
their disconnect handled (`Notice`, which clears `memo_servable`) as separate steps.
Results name outputs, some of them trees, whose contents must be fetched to be
known. Names that `Dispatch` and the barrier also have are different here (`CacheInit`,
`Peers`, `Arrive`), so that one run can hold both. With `ProbesFail` a blob that is held may go unfound. A tree that does not
decode is a missing tree; rows are written in one step (`Store` has how).

### BlobRouting

One digest. `ensure_blob_local` is `ReadHint`, `ReadBlooms`, `Probe` (fan-out when
there is no candidate), `Answers`, `Seed`, the fetches (`FetchFound`, `FetchDenied`,
`FetchFails`), `Keep`, `Evict`, `EndRound`, for up to `Rounds` rounds. `has_blobs` is
`Pick`, `Ask`, `Note`, and the second chance `Ask`, `NoteOwner` at the range owner.
`Liars` are false positives of blooms; blooms lag (`Gossip`); a worker joins late,
builds the blob, loses it, dies, and leaves the list afterwards.
Where the code takes the first of several peers, the module takes any; batching
(digests do not affect each other), the retry of a request on a fresh connection
and the semaphore on fetches are left out.

### Store and AtomicStore

A file is an inode with content and mode; names refer to inodes. One action per
system call. `Create` takes an inode nobody uses. Blobs' temporary names are private
to a call (`TMP_SEQ`), the row's is not (`ac-{hash}.{pid}`): `rowTmp` is a variable.
`StageLink` shares the inode with an action, `StageCopy` does not;
`Scribble` is an action that writes to what it was given, if the mode lets it.
`Crash` loses the tasks, not the files, and the next process may have the same
id. The store starts as a bank or an earlier process left it: the blob may be there,
in any of the three modes. The cached probe of clone support is a nondeterministic clone; a source of
`adopt` is a file the finished action made, which nobody writes to any more; the
relink over an existing destination and the length comparison in `has` are left out.

Two histories carry what the code does not keep to. `banked` is the blob's file, if a bank
brought one that its owner may write to: containers have mode 0o755, `tar -x` keeps the
owner's bit, and nothing seals the file afterwards. `mixed` are the tasks whose `ac_put`
overlaps another one of the same row.

`AtomicStore` has a blob that is there or not and never goes, whether anybody was told
that it is there, and a row that holds what was last put; a put ends in one step, and a
crash loses those under way. It does not promise that a *soft* blob stays as it is, nor what a
row holds that is put twice at a time (`Garble`). By the mapping at the end of `Store.tla` what a
reader of a name gets is the content of the inode behind it.

### Execution

A directory is an inode, a file in it a name and the call that put it there. `place` says
which directory a crate's canonical path leads to, `bin` what was renamed aside, under names
that a new process counts from zero again; both may hold what earlier runs left. `Clear` is the
rename with its ways to fail, `DeleteInline` the fallback whose errors `run_action` ignores,
`Sweep` the detached deletion. `Stage` is one file of `materialize`, and `MakeAgain` the
`create_dir_all`s before and after. `Produce` writes where the *process* is (`cwd`), also
after `Die`, when nobody waits for it any more; `Stage` and `Collect` go by path, so they
meet whatever the path leads to by then.

`Lock` is the lock of one process, as in the code. Nothing keeps two processes of a box from
making calls of one crate at the same time; `met` is the history of the calls that held the
lock of a path while another process held its own.

### Canonical

A token is its work-relevant part, its label and whether it refers to a file, and a reference goes by its
place in the command or file; a key
is the class of actions that hash alike (`Hashed`). `CanonicalKey` follows argsfiles for two
levels as the code does; `Work`, the reference definition, follows them all (`Closure`, the
least set that has the references of its own files). Files of deeper levels (`Deep`) go by their labels into
the key, so the property excepts actions that differ in which files these are. `Enter`,
`MakeKey`, `Probe`, `Check`, `RunAction`, `OpenRow`, `WriteRow`, `RenameRow`, `Memoize` are the path
of a request through `execute`; `Restart` loses the memo and keeps the disk.

### Laps, CasBank, RowBank, GraphBank

A job restores a bank, builds and publishes; the upload steps of the composite actions
come after that, one by one, each of which may fail or never be reached. A container or a manifest
goes by the job that uploaded it, `created_at` is a count of uploads, and of a
container's age only the two limits matter.

- `CasBank`: `LookUp` and `Inherit` go through the ranges, with the `unknown` marker when the
  own lookup fails; `Seed` fetches one container; `Absorb` the waiting spills;
  `Publish` is delta or compaction with the policy's gates; then `UploadContainer`,
  `UploadManifest` (only if the container landed), `UploadSpill` (whatever happened).
  `Abort` is a restore that fails, after which `bank-publish` runs all the same
  (`if: always()`).
- `RowBank`: `FindOwn`, `ListTrunk` and `ListRoles` (one page of the newest artifacts),
  `MakePlan`, `LayNext` in the order of `sort_key`, `PurgeRestored`; `PublishRows`
  compares names *with* contents, collapses, compacts.
- `GraphBank`: `OpenGraph` brings list and skeleton, `MergeVolume` the rows, `ColdLoad` drops
  both; `RunEngine` is buck2; `PublishGraph` packs what is not banked.

Thresholds on sizes and seconds are choices. Archives, compression and sqlite are
what they do: a set of blobs, a function from names to rows, a union of rows.

## 3. Runs

| Run | Instance | Shows |
|---|---|---|
| `Session` | barrier: 2 calls, 4 workers (two with one shard, one without), quorum 2 and 2; sessions: 2 workers that restored one shard of two, a blob of each | `TypeOK`, `DispatchOnlyAfterQuorum`, `ParkedCallsAreReleased`, `SessionTypeOK`, `ShardsStayHome`, `BanksLackOnlyWhatWasSkipped`, `EveryoneIsReleased`, `OrphansGiveUp` |
| `Session_BankedShardsAreReplicas` | the same | **violated**: a blob that is passed over, and a shard acknowledged without it |
| `PoolBarrier_FormedPoolReleasesEveryCall` | the barrier alone | **violated**: lost wake-up, re-count after the latch |
| `Driver` | scheduler: 2 twins and 2 workers that may die, or 1 unpinned linux job, the same workers and a windows one, 2 attempts; action cache: 2 calls, 1 key, a whole and a torn row, 2 mortal peers, probes may fail | `TypeOK`, `CreditsMatchFrames`, `FramesReachAdmittingWorkers`, `JobsHaveOnePlace`, `TwinsShareOneWorker`, `AnsweredJobsStayAnswered`, `ImplementsWorkQueue`, `CacheTypeOK`, `HitsNameExistingBlobs`, `OnlyRacedVerdictsAreStale` |
| `Driver_Liveness` | scheduler: 1 pinned job with a locality preference, 1 mortal and 1 lasting worker, in-process execution; action cache: 1 call, a holder that joins late | `EveryJobIsAnswered`, `RefusalsEnd` |
| `BlobRouting` | 1 reader, 1 checker, a liar that forgets and rebuilds, an owner that joins late and may die, 2 rounds | `TypeOK`, `KnownHoldersAreNeverMissed`, `OwnerIsConsulted`, `PresenceIsTestified`, `ReadsSucceedInTheEnd` |
| `Store` | 2 blob tasks, 2 row tasks, 2 results, 4 files, at most 2 tasks at work at a time; a banked file of any mode | `TypeOK`, `OnlyBankedFilesAreSpoilt`, `StoredBlobsStay`, `ImplementsAtomicStore` |
| `Store_RowsAreWhole` | the 2 row tasks alone | **violated**: a shared temporary name |
| `Store_BlobsMatchTheirNames` | the 2 blob tasks alone | **violated**: an action writes to a banked file through its input |
| `Execution` | directories: 2 calls of one crate or 1 without, 2 processes of 2 slots on a box, 1 death, whatever was left there, 3 directories; cache: 7 actions (a pair of twins, and five that differ from one of them in one respect each), 3 requests | `ExecTypeOK`, `LoneCommandsRunAlone`, `CanonicalHitsAreTwins` |
| `Execution_CommandsRunAlone` | the same | **violated**: the second process clears the directory of the first |
| `Banks` | a lap of the trunk, two overlapping laps of a branch and a node of the second; a page of 3, 1 spill per restore, 1 container that expires; 3 blobs, 1 row with 3 contents, 3 graph keys | `BanksTypeOK`, `NamedBlobsArePacked`, `OwnersHoldTheirRange`, `HistoryIsKept`, `WaitingSpillsAreAbsorbed`, `ListsMatchSegments`, `RowsSurviveTheLap`, `HydrationIsWhole` |

The runs `Driver`, `Driver_Liveness`, `Session`, `Execution` and `Banks` each hold two or three
modules that share no variable:
whichever moves first is the one that moves, so the run explores the union of their
behaviours and not the product. For the banks that is the module `Banks`, and
`BanksStandAlone` proves that each of them still does its own part in it. Fairness is stated accordingly.

Why the bounds suffice: every hazard in `PROJECT.json` needs at most two calls or
jobs and two or three workers, of which at least one leaves. Two twins and two workers are enough
for an owner to die, be usurped and be replaced; two linux workers and one of
another kind for a straggler to be raced and for a wrong host to be offered it. Two attempts
instead of three reach the limit sooner and take the same branch; two
rounds instead of four have a first, a last and a retry. In `Driver` a behaviour has either the
twins or the raced job (`TwinsOrOne`): a worker's queue treats the two alike, and each has its own
workers. `MaxBusy` lets two tasks of the store work at a time: two with the blob, two with the row or
one of each, which all meet every pair of steps; four files serve two tasks with a file of their own
each, a staged one that outlives them and one more. Two workers with one shard leave another that is nobody's and must be given to the
second. Calls with a canonical directory and calls without share none, so a behaviour of
`Execution` has either (`OneKind`); of three directories one can be in use, one renamed aside
and one new. One death leaves a directory, a half-emptied trash and a surviving
command to one successor, which may be the other process or a new one of the same
number. Three laps are what compaction, chaining, overlap and expiry need: one that wrote,
one that restores, one that publishes meanwhile. The blob bank has one range: ranges do
not affect one another, and to the node, which owns none, it is another's. Where a
bound would have decided a property, the theorem below has no bound.
Deadlock is checked in every run but those of the barrier, of sessions, of executions and
of laps, which come to rest when all calls are past it, all workers have exited, all
commands have ended or all jobs are over.

### Fairness

Safety runs assume none. `PoolBarrier`: a call that runs goes on, a pushed worker
notifies. `Dispatch`: a turn of the pump ends; the 5 s timer, a connection's
handler and a call waiting for the queue get their lock in the end, since tokio's
mutexes are FIFO, which is strong fairness of the steps that take them; a local run
ends; 500 ms pass. No fairness is assumed of workers answering, frames arriving,
new workers joining or dying ones being noticed. `EveryJobIsAnswered` assumes
that an admitting worker stays in the end, and lets it fail a job, which is an answer.
`ActionCache`: a lookup goes on, 120 s pass, a broken connection is noticed.
`BlobRouting`: a call goes on; workers gossip every 30 s (`worker.rs`), broken
connections are noticed; that the network calms down is a hypothesis of the property.
`WorkerSession`: a task that can run does; a dial to a driver that is gone meets its
deadline and a silent session its watchdog, the finalize task its 180 s. Nothing says
that workers connect or that a connection or the driver dies, and a worker in
`sync_shard` has no timeout of its own: `OrphansGiveUp` excepts it.

### What the violated runs say

Each property states a comment of the code or a line of its docs; TLC finds what the code does
instead. Where a passing run has a weaker property beside it, that one says how far the statement
goes wrong and no further.

- `FormedPoolReleasesEveryCall` (`driver.rs:1962-1964`, "a latch, not a level check"):
  the lock is released before `notified()` exists and `notify_waiters` stores no
  permit, so a call can park for good with a formed pool; and a woken call re-counts.
- `RowsAreWhole` (`store.rs:4-5`): two `ac_put` of one key share a temporary file, which one
  truncates while the other renames it. `ImplementsAtomicStore` says that puts that do not overlap
  are whole.
- `BlobsMatchTheirNames` (`store.rs:226-230`, "no write bit means a careless action writing
  through a hardlinked input gets EACCES"): a bank's container has mode 0o755 for every blob
  (`bank/mod.rs:526`), and `link_out` hard-links what it finds. `OnlyBankedFilesAreSpoilt` says that
  no other file ever is.
- `BankedShardsAreReplicas` (`docs/re-engine-plan.md:244`, "SYNCS its shard to completeness
  first"; `worker.rs:741`): `sync_shard` passes over every answer that is not `Found`
  (`worker.rs:787-797`), only logs a chunk that breaks off (801-803), and the shard is acknowledged
  whatever it returned (279-293). `BanksLackOnlyWhatWasSkipped` says that nothing is lost any other way.
- `CommandsRunAlone` (`exec.rs:105-107`, "Affinity routing pins a key to one process, so an
  in-process lock suffices (a usurped owner's old action is already dead)"): the lock is one of the
  process and the directory one of the machine. The in-process fallback records no owner
  (`driver.rs:1640-1665`), and a worker that the driver has dropped goes on with what it runs until
  its watchdog ends it; a box with one process makes up for both. `LoneCommandsRunAlone` says
  that a call that meets no other process's has its directory to itself.

Disagreements that have no run of their own, because the cost is small or the
statement loose:

- a servable verdict is memoized after awaits (`driver.rs:1133`), possibly after the
  disconnect that should have cleared it (comment at 659-660); `OnlyRacedVerdictsAreStale`
  says that this is the only way;
- attempts are burned by sends that failed (`driver.rs:1727`, against
  `docs/re-engine-plan.md`); a read whose candidates all deny stops before the
  fan-out probe (`driver.rs:1309`, against 1226-1229); a verdict about an old row
  may land after the new row was announced; `scrub_ac` may delete a row rewritten
  after it looked; `Execute`'s own lookup is not behind the pool barrier; twins may be
  split between the driver's own process and a worker;
- spills that land before the owner's manifest of the same lap are never absorbed
  (`cas.rs:286-292`), nor are those beyond 40 (294) or while the bank is cold (152);
  the exceptions of `WaitingSpillsAreAbsorbed` name them;
- blobs of a container that expired stay in the list of what is banked (`cas.rs:235-239`)
  and are not banked again until a compaction; `would_shed` compares numbers of blobs, not the blobs;
- rows are compared as pairs of name and content with everything any restored manifest names
  (`pack.rs:168-172`, "must re-bank"): a row rewritten to a content that is banked already is not
  banked again, and what another manifest laid over it comes back; `RowsSurviveTheLap` excepts these
  pairs and so says nothing of them;
- `acn_put` (`store.rs:634`) has the shared temporary name of `ac_put`: two executions of one canonical
  key may publish an empty row. `CanonicalHitsAreTwins` excepts rows that two calls wrote at once
  and so says nothing of them;
- a value store with a missing container starts cold but keeps its head
  (`dice.rs:326-333`), so every lap that chains from it starts cold again;
- `actions/driver-finish/action.yml:18` says that killing the driver broadcasts exit to the
  fleet; only the finalize file does (`driver.rs:444-457`), and workers of a killed
  driver leave by their watchdog and their deadline.

## 4. Proofs

The theorems hold for all values of the constants that the assumptions allow, so
for any number of calls, jobs, workers, blobs and files.

| Module | Theorem | Says |
|---|---|---|
| `FleetProofs` | `TypeCorrect`, `BarrierHolds` | the barrier: types; nothing passes before the quorum |
| `FleetProofs` | `SessionTypeCorrect`, `ShardsGoHome`, `BanksLackOnlySkipped` | sessions: types; a shard has one finalizer, its restorer if that one is there; a banked shard lacks only what was passed over |
| `DispatchProofs` | `TypeCorrect`, `CreditsBalance`, `TwinsStayTogether`, `PlatformsRespected` | types; credits are unanswered frames; twins on one worker; platform demands |
| `WorkQueueProofs` | `SchedulerImplementsQueue`, `AnswersAreFinal`, `JobsKeepTheirPlace` | the refinement of `WorkQueue`; answers are final; no job is lost or in two places |
| `ActionCacheProofs` | `TypeCorrect`, `PromisesExist`, `StaleOnlyByRace` | types; hits name existing blobs; only raced verdicts are stale |
| `BlobRoutingProofs` | `TypeCorrect`, `KnownHoldersFound`, `OwnerIsAsked`, `YesIsTestified` | types; reads; denials; confirmations |
| `StoreProofs` | `TypeCorrect`, `OnlyBankedSpoilt`, `StoredForGood`, `StoreIsAtomic` | types; blobs; permanence; the refinement of `AtomicStore` |
| `ExecutionProofs` | `ExecTypeCorrect`, `CallsKeepApart`, `CanonicalHitsShareWork` | types; calls that no other process meets do not share a directory; a canonical hit is the requester's own work |
| `BankProofs` | `CasTypeCorrect`, `ManifestsAreTrue`, `OwnersKeepTheirRange` | the blob bank: types; manifests name what landed; a primary holds its range |
| `BankProofs` | `HistoryKept`, `SpillsGoHome` | the blob bank: newest wins and forgets nothing; waiting spills are absorbed |
| `BankProofs` | `RowTypeCorrect`, `ListsAreTrue`, `RowsComeBack` | the action-cache bank: types; lists say what containers give; rows survive the lap |
| `BankProofs` | `GraphTypeCorrect`, `EngineStartsWhole` | the graph bank: types; the engine starts whole or cold |
| `BankProofs` | `BanksStandAlone`, `BanksTypeCorrect` | the three together: each keeps its specification, and its types |

Assumptions are the named `ASSUME`s of the modules (disjoint name spaces, domains of
tables, finitely many jobs and, at the barrier, workers, a positive number of rounds
and attempts), evaluated in the runs. No theorem has another hypothesis: what banks leave, who
writes a row and which processes share a machine is as free as in the code, and where the code
does not keep to something, the property names the history in which it did not (`banked`, `mixed`,
`met`, `soiled`, `skipped`).

The arguments:

- *Barrier.* A property of states that lasts only while workers stay is not
  inductive, so the history `reached` remembers that the quorum was met; a call
  about to set the latch has seen it, and the latch implies it.
- *Twins.* "Two twins are not assigned to two connected workers" is not inductive.
  The invariant: a job with an assignee that is connected has that worker as its
  affinity's recorded owner; hence two of them share it. Frames, requeueing and the
  turn of the pump are tracked so that nobody is assigned behind the owner's back.
- *Credits.* A worker's unanswered frames are a set of pairs of job and number. A step that hands
  over a frame adds one pair and takes a credit, a reply removes one and returns
  it, and nothing else touches either; a lost connection ends the claim, since frames
  queued for it are never answered. So the count of the set is the credits in use.
- *Platforms.* The key by which a job is pulled comes from `pull_order`; each key of
  that order is admitted by the host, which is what `PlatKey::admits` tests; so
  frames sent by either path go to admitting hosts.
- *Jobs.* The refinement needs to know where a job can be: not yet submitted, queued once
  and with nobody, run by the driver, owed by one worker, or answered. The job that
  the task inside `pump` has in hand is still at its call, a worker whose reader has ended is
  off the roster, and a job collected from a departed worker stays that worker's
  until it is requeued. With that, each step is a step of the queue or a stutter, and
  no step touches an answer. For `JobsKeepTheirPlace` two facts are added: a job of
  the table waits to be queued, is queued, is run by the driver or is owed by its
  assignee, by a frame or by what its reader still has to do; and a connected
  worker with a frame of a pinned job is its assignee and has one.
- *Hits.* Every call between probe and memo carries the fact that all blobs of its
  result have been seen (`known`, which only grows).
- *Stale verdicts.* A memoized result whose blobs are not held, with no unhandled
  death, was admitted by a call marked when a worker died during it.
- *Known holders.* While a round has had no failed fetch, each worker that
  has held and claimed the blob since the read began is still among the candidates; a round
  without failure that ends in a denial therefore had none.
- *Owner.* Between picking and noting, the asked workers and the recorded owner are related,
  so that a denial by another leads to the second round.
- *Blobs.* Unless a bank brought a writable file, which then keeps the name since everybody who
  would store the blob finds one there, the name's file has the blob's content and no write bit. A
  file on its way to the name is held by exactly one task, staged for no action and not the row's;
  from its verification on it has the content, from its sealing on the mode. All that the
  code does with shared inodes keeps a sealed file sealed.
- *Rows.* The temporary file of a writer whose put overlaps no other is that writer's alone, is
  neither the row nor staged, and has the whole result between writing and renaming. For those
  that overlap it is only known that their files are no blob's.
- *Atomic store.* Under the two invariants above only the steps that give a name an inode are to
  be seen (a blob's link, copy or rename, the row's rename or deletion), and the inode is
  complete by then; writing, sealing, staging and what an action scribbles on its inputs are
  stutters, but for a scribble on a banked file, which spoils a soft blob, and a write of an
  overlapping put, which may go to the row that another has renamed. A writer
  between choosing its file and its rename is the abstract put under way.
- *Shards.* Unclaimed shards and workers without one are paired by their rank, and ranks
  differ, so no two shards go to one worker and no shard to two; an acknowledgement comes
  from somebody who was told. What an answering peer has of the shard, a worker
  that packs it has, still has to fetch, or has passed over: a peer that syncs
  meanwhile gains only blobs of other shards, and a living one is still listed.
- *Directories.* Two calls of different processes that hold the lock of one path have met, so a
  call that met nobody is alone on its path while it holds the lock. A directory is on one path,
  and not among what was renamed aside. Unless the path could not be cleared (`soiled`), the call then
  finds it free and gets a directory that no command works in that is not over; a command that
  survived its process keeps to the directory it was started in. So all the call staged is there, and
  nothing else but what it writes itself.
- *Canonical hits.* Equal keys mean equal normal forms of the command with its outputs, of the
  argsfiles of two levels, place by place, and equal sources. Commands divided at the same
  place agree on both sides of it; a file that is read is an argsfile, a deep one or a source; so,
  with the exceptions of the property, `Work` is equal. None of it is an induction: tokens and
  files are compared one by one, and an output is renamed by the only place that has its normal
  form. A row in the memo, on disk or in a file goes by its key and is whole, made by an action
  of that key, or it is the empty row of a collision; a writer that met no other has its
  temporary file to itself.
- *Manifests.* A container is written once, by the job it is called after, and before
  anything names it; so a manifest is true of what its containers hold from the upload
  on, and a head that was restored is as true as the one it came from.
- *Ranges.* Every container of a solid manifest meets the manifest's range, so the skip of
  containers outside the range leaves out none of them. While a primary seeds,
  each blob of its range is held, or in a container still to be fetched, or
  the container has expired; when nothing is left to be fetched, it is held.
- *History.* A manifest older than the author's lookup is the one the author found there: it
  chained to it, which keeps all it names, or packed its own store again, which held
  all that manifest lists unless the restore broke off or a container had expired.
- *Spills.* A spill that was listed is in the author's store from then on, for a store only
  grows; the pack of the store leaves out only what a restored manifest names.
- *Rows.* Among containers of one role the laying order is the order of runs. A chained
  list is the head's with the newest pairs on top, and the newest container is laid last
  if no run overtook an older one. A pair that is not staged is known from some manifest;
  if no other manifest names its row, only the own one decides, and its list is true.
- *Engine.* A manifest lists what its volumes hold and a volume named once never changes.
  While volumes are merged, the rows of those already merged are there; a missing volume
  empties the engine, so a skeleton that is loaded has all its rows.

Model-checked and not proved: the six liveness properties, since fairness and ENABLED are out of the
prover's reach. They are `ParkedCallsAreReleased`, `EveryoneIsReleased`, `OrphansGiveUp`,
`EveryJobIsAnswered`, `RefusalsEnd` and `ReadsSucceedInTheEnd`. Every invariant and every other action or
refinement property of the passing runs is stated by a theorem.

## 5. Plan

Done: the barrier, the scheduler with its abstract queue, the action cache, blob
routing, the store, sessions and the end of a lap, execution, the canonical cache, the three
banks; proved: types, all safety properties, and that the scheduler implements its queue and
the store its atomic one.

1. `RemoteBlobs` and `TrackingBlobs` over `BlobRouting`'s fleet, provider
   redirects included, and `record_local_ac`.
2. The scheduler and a worker's executions in one model: the frame that `Dispatch` sends is
   the call that `Execution` begins. Its proofs would rest on those of the two parts.

## 6. Not modelled

`RemoteBlobs` and `record_local_ac` repeat the driver's routing from the worker's end and are
next in the plan. The framing of the RE and mesh protocols and the HTTP of `github.rs` are
encodings; what the banks see of GitHub (newest by name, one page by prefix, failures,
expiry) is in the bank modules. The first-generation sidecar (`src/*.ts`), the command
line, the benchmark and the hole-punching experiment are sequential I/O or glue; of the composite
actions only the order and the gates of the upload steps and the end of a lap matter, and
those are modelled. Of the wire format only what a bloom claims matters. `PROJECT.json`
lists each part with its status and each hazard with the property that covers it or the
reason none does.
