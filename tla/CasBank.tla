------------------------------ MODULE CasBank ------------------------------
(* The federated blob bank (bank/cas.rs): one manifest per lineage and hash *)
(* range, written only by the job that owns the range; everything outside   *)
(* that range is spilled for its owner to absorb on a later restore.        *)
(*                                                                          *)
(* A manifest is modelled by the containers its segments are in and by its  *)
(* list of blobs; a container by the blobs packed into it, under the name   *)
(* of the job that uploaded it.  Of the manifests with one name only the    *)
(* newest is kept: by_name never returns another.  created_at is a count of *)
(* the uploads so far, and of a container's age only whether it is past the *)
(* rewarm and the retention limit matters.  Sizes, seconds, tar and zstd    *)
(* are abstracted: how much is too much for the thresholds is a choice.     *)
EXTENDS Laps

CONSTANTS
  Blobs,        \* content addresses
  NumRanges,    \* how many ranges the hash space is cut into (8 in the code)
  RangeOf,      \* RangeOf[b]: the range of b's first hex digit
  Shard,        \* Shard[j]: the range j is primary for, or None (spill-only)
  Disk,         \* Disk[j]: what j's store holds before the lap
  Makes,        \* Makes[j]: what j's build may add to its store
  MaxSpills,    \* how many spills one restore absorbs (40 in the code)
  MaxGone       \* bound: how many containers expire

Ranges    == 0 .. (NumRanges - 1)
Manifests == [by : Jobs, segs : SUBSET Jobs, full : SUBSET Jobs, list : SUBSET Blobs, at : Nat]

ASSUME CasAssumption ==
  /\ NumRanges \in Nat \ {0}
  /\ RangeOf \in [Blobs -> Ranges]
  /\ None \notin Ranges /\ None \notin Manifests
  /\ Shard \in [Jobs -> Ranges \cup {None}]
  /\ Disk \in [Jobs -> SUBSET Blobs]
  /\ Makes \in [Jobs -> SUBSET Blobs]
  /\ MaxSpills \in Nat
  /\ MaxGone \in Nat

VARIABLES
  heads,     \* the shelf: heads[l, r], the newest manifest of lineage l and range r
  packs,     \* the shelf: packs[j], the container j uploaded
  spills,    \* the shelf: spills[j], the spill j uploaded and when
  old,       \* containers past REWARM_DAYS
  gone,      \* containers past their retention
  clock,     \* uploads so far: the created_at of the next one
  pc,        \* where each job is
  look,      \* the range whose manifest the job looks up next
  work,      \* the job's work directory: own-range, .own-range-unknown, bank-blobs.txt, ...
  todo,      \* containers the restore has still to seed: the trunk's, then its own
  store,     \* the blobs in the job's store
  staged,    \* what publish left for the upload steps
  trace      \* for the properties only: what the job missed, and when it read the shelf

shelf == <<heads, packs, spills, old, gone, clock>>
local == <<look, work, todo, store, staged, trace>>
casVars == <<heads, packs, spills, old, gone, clock, pc, look, work, todo, store, staged, trace>>

\* own and mother: the manifest of the job's range, and the trunk's; known: what
\* they and the other ranges' list; seen: the containers fetched; slow: one of
\* them was a delta.
Cold     == [own |-> None, mother |-> None, known |-> {}, warm |-> FALSE,
             unknown |-> FALSE, seen |-> {}, slow |-> FALSE]
Untraced == [missed |-> {}, crowded |-> {}, looked |-> 0, listed |-> 0, broken |-> FALSE]
Unstaged == [pack |-> {}, head |-> None, spill |-> {}]
Unspilt  == [blobs |-> {}, at |-> 0]
Nothing  == [trunk |-> {}, own |-> {}]

Owned(r)      == {b \in Blobs : RangeOf[b] = r}
Mother(l, r)  == IF Trunk[l] = None THEN None ELSE heads[<<Trunk[l], r>>]

\* Mutant: only what a compaction packed is fetched.
FullSegments(m, r) == IF m = None THEN {} ELSE m.full
\* Segments of a manifest whose prefixes meet the range; an absent one names none.
SegmentsToFetch(m, r) ==
  IF m = None THEN {} ELSE {c \in m.segs : \E b \in packs[c] : RangeOf[b] = r}

CasInit ==
  /\ heads = [lr \in Lines \X Ranges |-> None]
  /\ packs = [j \in Jobs |-> {}]
  /\ spills = [j \in Jobs |-> Unspilt]
  /\ old = {}
  /\ gone = {}
  /\ clock = 1
  /\ pc = [j \in Jobs |-> "waiting"]
  /\ look = [j \in Jobs |-> 0]
  /\ work = [j \in Jobs |-> Cold]
  /\ todo = [j \in Jobs |-> Nothing]
  /\ store = Disk
  /\ staged = [j \in Jobs |-> Unstaged]
  /\ trace = [j \in Jobs |-> Untraced]

-----------------------------------------------------------------------------
(* Restore                                                                 *)

\* The lap starts: the marker of an earlier failed lookup is removed.
Start(j) ==
  /\ Ready(pc, j)
  /\ pc' = [pc EXCEPT ![j] = "looking"]
  /\ UNCHANGED <<shelf, local>>

\* Mutant: the loop over the ranges runs once too often.
PastLastRange(j) == look[j] = NumRanges
LastRange(j) == look[j] = NumRanges - 1
\* What follows the lookup of a range: the next range, then the trunk's
\* ranges, then the seeding of a job that owns a range and found anything.
AfterLookup(j, w) ==
  LET last == LastRange(j)
      seeds == w.warm /\ Shard[j] # None
  IN /\ look' = [look EXCEPT ![j] = IF last THEN 0 ELSE @ + 1]
     /\ work' = [work EXCEPT ![j] = w]
     /\ pc' = [pc EXCEPT ![j] =
          IF ~last THEN @
          ELSE IF @ = "looking" /\ Trunk[Line[j]] # None THEN "inheriting"
          ELSE IF seeds THEN "seeding" ELSE "building"]
     /\ todo' = [todo EXCEPT ![j] =
          IF pc'[j] # "seeding" THEN @
          ELSE [trunk |-> SegmentsToFetch(w.mother, Shard[j]),
                own   |-> SegmentsToFetch(w.own, Shard[j])]]

\* The newest manifest of the lineage's next range is downloaded, or is not
\* there, or its lookup fails.  A failed lookup of another's range reads as
\* absent; of the own range it must not, so it leaves a marker.
LookUp(j) ==
  LET r == look[j]
      h == heads[<<Line[j], r>>]
      own == Shard[j] = r
      w == work[j]
  IN /\ pc[j] = "looking"
     /\ \/ /\ h # None
           /\ AfterLookup(j, [w EXCEPT !.own = IF own THEN h ELSE @,
                                       !.known = @ \cup h.list, !.warm = TRUE])
        \/ /\ h = None
           /\ AfterLookup(j, w)
        \/ AfterLookup(j, [w EXCEPT !.unknown = @ \/ own])
     /\ trace' = [trace EXCEPT ![j].looked = IF own THEN clock ELSE @]
     /\ UNCHANGED <<shelf, store, staged>>

\* The same for the trunk's manifests, which join the list of what is banked
\* and are never written.  Here a failed lookup ends the restore: see Abort.
Inherit(j) ==
  LET r == look[j]
      h == Mother(Line[j], r)
      w == work[j]
  IN /\ pc[j] = "inheriting"
     /\ AfterLookup(j, IF h = None THEN w
                       ELSE [w EXCEPT !.mother = IF Shard[j] = r THEN h ELSE @,
                                      !.known = @ \cup h.list, !.warm = TRUE])
     /\ UNCHANGED <<shelf, store, staged, trace>>

\* seed_store unpacks a container over what is there.
Seeded(blobs, c) == blobs \cup packs[c]

Source(j, side) == IF side = "own" THEN work[j].own ELSE work[j].mother

\* seed_from_manifest fetches one container, the trunk's first.  One that is
\* not on the shelf any more is passed over: its blobs are to re-derive.
Seed(j) ==
  /\ pc[j] = "seeding"
  /\ \E side \in {"trunk", "own"} : \E c \in todo[j][side] :
       /\ side = "own" => todo[j].trunk = {}
       /\ todo' = [todo EXCEPT ![j][side] = @ \ {c}]
       /\ IF c \in gone
          THEN /\ trace' = [trace EXCEPT ![j].missed = @ \cup packs[c]]
               /\ UNCHANGED <<store, work>>
          ELSE /\ store' = [store EXCEPT ![j] = Seeded(@, c)]
               /\ work' = [work EXCEPT ![j].seen = @ \cup {c},
                                       ![j].slow = @ \/ c \notin Source(j, side).full]
               /\ UNCHANGED trace
  /\ UNCHANGED <<shelf, pc, look, staged>>

\* Mutant: spills younger than the lookup, not than the manifest it found.
AwaitingSinceLookup(j) ==
  LET since == IF work[j].own = None THEN 0 ELSE trace[j].looked - 1
  IN {k \in Jobs : Line[k] = Line[j] /\ spills[k].at > since}
\* The spills of the lineage younger than the own manifest; of those that the
\* listing of the repository's newest artifacts has, the newest MaxSpills.
Awaiting(j) ==
  LET since == IF work[j].own = None THEN 0 ELSE work[j].own.at
  IN {k \in Jobs : Line[k] = Line[j] /\ spills[k].at > since}
Recent(j) ==
  LET listed == {k \in Awaiting(j) : clock - spills[k].at <= Page}
  IN {k \in listed : Cardinality({i \in listed : spills[i].at > spills[k].at}) < MaxSpills}

\* absorb_spills copies what lies in the own range into the store.
Absorb(j) ==
  /\ pc[j] = "seeding"
  /\ todo[j] = Nothing
  /\ store' = [store EXCEPT ![j] =
       @ \cup (Owned(Shard[j]) \cap UNION {spills[k].blobs : k \in Recent(j)})]
  /\ trace' = [trace EXCEPT ![j].listed = clock, ![j].crowded = Awaiting(j) \ Recent(j)]
  /\ pc' = [pc EXCEPT ![j] = "building"]
  /\ UNCHANGED <<shelf, look, work, todo, staged>>

\* A download or a listing that must not fail does: restore returns the error,
\* the build is skipped, and the publish step runs all the same (always()).
Abort(j) ==
  /\ pc[j] \in {"looking", "inheriting", "seeding"}
  /\ pc' = [pc EXCEPT ![j] = "built"]
  /\ trace' = [trace EXCEPT ![j].broken = TRUE]
  /\ UNCHANGED <<shelf, look, work, todo, store, staged>>

Build(j) ==
  /\ pc[j] = "building"
  /\ \E new \in SUBSET Makes[j] : store' = [store EXCEPT ![j] = @ \cup new]
  /\ pc' = [pc EXCEPT ![j] = "built"]
  /\ UNCHANGED <<shelf, look, work, todo, staged, trace>>

-----------------------------------------------------------------------------
(* Publish                                                                 *)

\* A job whose own lookup failed owns nothing for the rest of the lap.
Primary(j) == IF work[j].unknown THEN None ELSE Shard[j]

\* write_manifest: the head's segments and list and the new ones, or, for a cold
\* range or a compaction, the new ones alone.
\* Mutant: every manifest starts anew.
Unchained(j, head, new) == [by |-> j, segs |-> {j}, full |-> {}, list |-> new, at |-> 0]
Chained(j, head, new) ==
  [by |-> j, segs |-> head.segs \cup {j}, full |-> head.full, list |-> head.list \cup new, at |-> 0]
Rebased(j, new, full) ==
  [by |-> j, segs |-> {j}, full |-> IF full THEN {j} ELSE {}, list |-> new, at |-> 0]

\* needs_compaction: the thresholds count a manifest's delta segments.
NeedsCompaction(m) == m.segs # m.full

\* CompactPolicy::decide: never without a head; then by the thresholds, by the time
\* the delta containers took, or because the oldest container fetched, whichever
\* lineage it belongs to, nears its retention.
MayCompact(j) ==
  LET w == work[j]
  IN /\ w.own # None
     /\ NeedsCompaction(w.own) \/ w.slow \/ w.seen \cap old # {}
MustCompact(j) == work[j].own # None /\ work[j].seen \cap old # {}

\* policy::would_shed compares how many blobs there are, not which.
WouldShed(named, packed) == Cardinality(packed) < Cardinality(named)

\* pack_segments: of the blobs in the ranges asked for, those that are not banked.
PackSegments(blobs, ranges, banked) == {b \in blobs : RangeOf[b] \in ranges} \ banked

\* What the owner of r stages: a full re-pack of its range, if the policy asks
\* for one and it would not shed blobs, and else what no manifest named.
StagedPack(j, compact) ==
  LET r     == Primary(j)
      head  == work[j].own
      all   == PackSegments(store[j], {r}, {})
      delta == PackSegments(store[j], {r}, work[j].known)
  IN IF r = None THEN Unstaged
     ELSE IF compact /\ all = {} THEN Unstaged
     ELSE IF compact /\ ~WouldShed(head.list, all)
          THEN [Unstaged EXCEPT !.pack = all, !.head = Rebased(j, all, TRUE)]
     ELSE IF delta = {} THEN Unstaged
     ELSE [Unstaged EXCEPT !.pack = delta,
             !.head = IF head = None THEN Rebased(j, delta, FALSE) ELSE Chained(j, head, delta)]

StagedSpill(j) == PackSegments(store[j], Ranges \ {Primary(j)}, work[j].known)

Publish(j) ==
  /\ pc[j] = "built"
  /\ \E compact \in BOOLEAN :
       /\ compact => MayCompact(j)
       /\ MustCompact(j) => compact
       /\ staged' = [staged EXCEPT ![j] =
                    [StagedPack(j, compact) EXCEPT !.spill = StagedSpill(j)]]
  /\ pc' = [pc EXCEPT ![j] = "staged"]
  /\ UNCHANGED <<shelf, look, work, todo, store, trace>>

\* The job ends and its runner with it.
Leave(j) ==
  /\ pc' = [pc EXCEPT ![j] = "over"]
  /\ look' = [look EXCEPT ![j] = 0]
  /\ work' = [work EXCEPT ![j] = Cold]
  /\ todo' = [todo EXCEPT ![j] = Nothing]
  /\ store' = [store EXCEPT ![j] = Disk[j]]
  /\ staged' = [staged EXCEPT ![j] = Unstaged]
  /\ trace' = [trace EXCEPT ![j] = Untraced]

\* Mutant: the manifest follows whatever became of the container.
UploadContainerUngated(j) ==
  /\ pc[j] = "staged"
  /\ \/ /\ staged[j].pack # {}
        /\ packs' = [packs EXCEPT ![j] = staged[j].pack]
        /\ clock' = clock + 1
        /\ pc' = [pc EXCEPT ![j] = "packed"]
     \/ /\ pc' = [pc EXCEPT ![j] = IF staged[j].pack = {} THEN "spilling" ELSE "packed"]
        /\ UNCHANGED <<packs, clock>>
  /\ UNCHANGED <<heads, spills, old, gone, local>>
\* The upload steps of the bank-publish action, in order.
UploadContainer(j) ==
  /\ pc[j] = "staged"
  /\ \/ /\ staged[j].pack # {}
        /\ packs' = [packs EXCEPT ![j] = staged[j].pack]
        /\ clock' = clock + 1
        /\ pc' = [pc EXCEPT ![j] = "packed"]
     \/ /\ pc' = [pc EXCEPT ![j] = "spilling"]
        /\ UNCHANGED <<packs, clock>>
  /\ UNCHANGED <<heads, spills, old, gone, local>>

\* Only if the container landed.
UploadManifest(j) ==
  /\ pc[j] = "packed"
  /\ \/ /\ heads' = [heads EXCEPT ![<<Line[j], Shard[j]>>] = [staged[j].head EXCEPT !.at = clock]]
        /\ clock' = clock + 1
     \/ UNCHANGED <<heads, clock>>
  /\ pc' = [pc EXCEPT ![j] = "spilling"]
  /\ UNCHANGED <<packs, spills, old, gone, local>>

\* Whatever became of the container.
UploadSpill(j) ==
  /\ pc[j] = "spilling"
  /\ \/ /\ staged[j].spill # {}
        /\ spills' = [spills EXCEPT ![j] = [blobs |-> staged[j].spill, at |-> clock]]
        /\ clock' = clock + 1
     \/ UNCHANGED <<spills, clock>>
  /\ Leave(j)
  /\ UNCHANGED <<heads, packs, old, gone>>

-----------------------------------------------------------------------------
(* The world                                                               *)

\* The runner is lost or the job is killed.
Die(j) ==
  /\ pc[j] \notin {"waiting", "over"}
  /\ Leave(j)
  /\ UNCHANGED shelf

\* A container passes the rewarm limit, and later its retention; manifests are
\* younger than what they name.
Age(c) ==
  /\ packs[c] # {}
  /\ c \notin old
  /\ Cardinality(old) < MaxGone
  /\ old' = old \cup {c}
  /\ UNCHANGED <<heads, packs, spills, gone, clock, pc, local>>
Expire(c) ==
  /\ c \in old \ gone
  /\ gone' = gone \cup {c}
  /\ UNCHANGED <<heads, packs, spills, old, clock, pc, local>>

CasNext ==
  \E j \in Jobs :
    \/ Start(j) \/ LookUp(j) \/ Inherit(j) \/ Seed(j) \/ Absorb(j) \/ Abort(j)
    \/ Build(j) \/ Publish(j)
    \/ UploadContainer(j) \/ UploadManifest(j) \/ UploadSpill(j)
    \/ Die(j) \/ Age(j) \/ Expire(j)

CasSpec == CasInit /\ [][CasNext]_casVars

-----------------------------------------------------------------------------
(* Properties                                                              *)

CasTypeOK ==
  /\ heads \in [Lines \X Ranges -> Manifests \cup {None}]
  /\ \A lr \in Lines \X Ranges : heads[lr] # None => heads[lr].full \subseteq heads[lr].segs
  /\ packs \in [Jobs -> SUBSET Blobs]
  /\ spills \in [Jobs -> [blobs : SUBSET Blobs, at : Nat]]
  /\ old \in SUBSET Jobs
  /\ gone \in SUBSET old
  /\ clock \in Nat \ {0}
  /\ pc \in [Jobs -> {"waiting", "looking", "inheriting", "seeding", "building", "built",
                      "staged", "packed", "spilling", "over"}]
  /\ look \in [Jobs -> Ranges]
  /\ work \in [Jobs -> [own : Manifests \cup {None}, mother : Manifests \cup {None},
                        known : SUBSET Blobs, warm : BOOLEAN, unknown : BOOLEAN,
                        seen : SUBSET Jobs, slow : BOOLEAN]]
  /\ todo \in [Jobs -> [trunk : SUBSET Jobs, own : SUBSET Jobs]]
  /\ store \in [Jobs -> SUBSET Blobs]
  /\ staged \in [Jobs -> [pack : SUBSET Blobs, head : Manifests \cup {None}, spill : SUBSET Blobs]]
  /\ trace \in [Jobs -> [missed : SUBSET Blobs, crowded : SUBSET Jobs, looked : Nat,
                         listed : Nat, broken : BOOLEAN]]

\* A manifest only names containers that landed, and its list is what they hold:
\* the order of the upload steps is the only check there is.
NamedBlobsArePacked ==
  \A lr \in Lines \X Ranges :
    LET m == heads[lr]
    IN m # None => /\ \A c \in m.segs : packs[c] # {}
                   /\ m.list = UNION {packs[c] : c \in m.segs}
                   /\ m.list \subseteq Owned(lr[2])

\* After its restore a primary holds everything its range's manifest names, but
\* for what was in a container that is gone: a full re-pack of its store is then
\* a full re-pack of the range.
OwnersHoldTheirRange ==
  \A j \in Jobs :
    work[j].own # None /\ pc[j] \notin {"looking", "inheriting", "seeding"} =>
      \/ trace[j].broken
      \/ work[j].own.list \subseteq store[j] \cup trace[j].missed

\* Newest wins, and the newest never names less: a manifest drops a blob only if
\* the old one was published after its author had looked it up (overlapping
\* laps), or in a compaction after a restore that missed the blob or broke off.
HistoryIsKept ==
  [][\A lr \in Lines \X Ranges :
       heads[lr] # None /\ heads'[lr] # heads[lr] =>
         LET j == heads'[lr].by
         IN \A b \in heads[lr].list \ heads'[lr].list :
              \/ heads[lr].at >= trace[j].looked
              \/ j \in heads'[lr].full /\ (trace[j].broken \/ b \in trace[j].missed)]_casVars

\* Spills wait for the owner of the range, who passes none over: when its next
\* manifest comes, a blob spilled since the last one is named by it or was
\* already named by another, unless the spill landed after the owner listed
\* them, there were too many or other artifacts crowded it out of the listing,
\* or the restore broke off or found no manifest.
WaitingSpillsAreAbsorbed ==
  [][\A lr \in Lines \X Ranges :
       heads'[lr] # heads[lr] =>
         LET j == heads'[lr].by
             since == IF heads[lr] = None THEN 0 ELSE heads[lr].at
         IN \A k \in Jobs :
              Line[k] = lr[1] /\ spills[k].at > since =>
                \/ spills[k].blobs \cap Owned(lr[2]) \subseteq heads'[lr].list \cup work[j].known
                \/ trace[j].listed # 0 /\ spills[k].at >= trace[j].listed
                \/ k \in trace[j].crowded
                \/ trace[j].broken \/ ~work[j].warm]_casVars
=============================================================================
