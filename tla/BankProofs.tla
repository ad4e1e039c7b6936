----------------------------- MODULE BankProofs -----------------------------
(* Theorems about the banks, for any lineages, overlaps, failures and       *)
(* expiries.  The blob bank: a manifest names only containers that landed   *)
(* and lists exactly what is in them, and an owner that restored its range  *)
(* holds it; a container is written once, before anything names it, so what *)
(* was solid when it was restored is solid when it is chained to.  A newer  *)
(* manifest forgets nothing its author could have known, and the spills     *)
(* that waited for it are in it.                                            *)
(* The action-cache bank: what a manifest lists is what its containers lay  *)
(* down, so a row a lap leaves unstaged is named by a manifest that brings  *)
(* it back, or that another manifest lies over.                             *)
(* The graph-state bank: the engine never starts with a skeleton that       *)
(* refers to a row it does not have; the list of a manifest is what its     *)
(* containers hold, and while containers are merged every row of those      *)
(* already merged is in the value store.                                    *)
EXTENDS Banks, TLAPS

-----------------------------------------------------------------------------
(* The blob bank                                                           *)

\* What a manifest of range r promises, given what the containers hold.
Solid(m, r, held) ==
  /\ m.full \subseteq m.segs
  /\ \A c \in m.segs : held[c] # {}
  /\ m.list = UNION {held[c] : c \in m.segs}
  /\ m.list \subseteq Owned(r)

ShelfSolid == \A lr \in Lines \X Ranges : heads[lr] # None => Solid(heads[lr], lr[2], packs)

\* A container is written when the job has got that far.
Unwritten(j) == pc[j] \notin {"packed", "spilling", "over"} => packs[j] = {}

\* The manifest of the own range, as long as the job knows one.
OwnSolid(j) ==
  work[j].own # None =>
    Shard[j] \in Ranges /\ work[j].warm /\ Solid(work[j].own, Shard[j], packs)

\* What publish staged is solid once its own container is on the shelf.
StagedSolid(j) ==
  /\ staged[j].pack # {} =>
       /\ Shard[j] \in Ranges
       /\ staged[j].head \in Manifests
       /\ staged[j].head.full \subseteq staged[j].head.segs
       /\ j \in staged[j].head.segs
       /\ \A c \in staged[j].head.segs \ {j} : packs[c] # {}
       /\ staged[j].head.list
            = staged[j].pack \cup UNION {packs[c] : c \in staged[j].head.segs \ {j}}
       /\ staged[j].head.list \subseteq Owned(Shard[j])
  /\ pc[j] = "packed" => staged[j].pack # {} /\ packs[j] = staged[j].pack

\* While a range is seeded, what is not there is still to be fetched.
SeedingOwed(j) ==
  pc[j] = "seeding" /\ work[j].own # None =>
    /\ todo[j].own \subseteq work[j].own.segs
    /\ work[j].own.list \subseteq
         store[j] \cup trace[j].missed \cup UNION {packs[c] : c \in todo[j].own}

RangeHeld(j) ==
  work[j].own # None /\ pc[j] \notin {"looking", "inheriting", "seeding"} =>
    \/ trace[j].broken
    \/ work[j].own.list \subseteq store[j] \cup trace[j].missed

JobInv(j) ==
  Unwritten(j) /\ OwnSolid(j) /\ StagedSolid(j) /\ SeedingOwed(j) /\ RangeHeld(j)

CasInv == CasTypeOK /\ ShelfSolid /\ \A j \in Jobs : JobInv(j)

Places  == {"waiting", "looking", "inheriting", "seeding", "building", "built",
            "staged", "packed", "spilling", "over"}
Works   == [own : Manifests \cup {None}, mother : Manifests \cup {None},
            known : SUBSET Blobs, warm : BOOLEAN, unknown : BOOLEAN,
            seen : SUBSET Jobs, slow : BOOLEAN]
Todos   == [trunk : SUBSET Jobs, own : SUBSET Jobs]
Stages  == [pack : SUBSET Blobs, head : Manifests \cup {None}, spill : SUBSET Blobs]
Traces  == [missed : SUBSET Blobs, crowded : SUBSET Jobs, looked : Nat,
            listed : Nat, broken : BOOLEAN]
Spills  == [blobs : SUBSET Blobs, at : Nat]

ShelfTypes ==
  /\ heads \in [Lines \X Ranges -> Manifests \cup {None}]
  /\ \A lr \in Lines \X Ranges : heads[lr] # None => heads[lr].full \subseteq heads[lr].segs
  /\ packs \in [Jobs -> SUBSET Blobs]
  /\ spills \in [Jobs -> Spills]
  /\ old \in SUBSET Jobs
  /\ gone \in SUBSET old
  /\ clock \in Nat \ {0}
LocalTypes ==
  /\ pc \in [Jobs -> Places]
  /\ look \in [Jobs -> Ranges]
  /\ work \in [Jobs -> Works]
  /\ todo \in [Jobs -> Todos]
  /\ store \in [Jobs -> SUBSET Blobs]
  /\ staged \in [Jobs -> Stages]
  /\ trace \in [Jobs -> Traces]

LEMMA CasTypes == CasTypeOK <=> ShelfTypes /\ LocalTypes
BY DEF CasTypeOK, ShelfTypes, LocalTypes, Places, Works, Todos, Stages, Traces, Spills

LEMMA CasTypesKept == ShelfTypes' /\ LocalTypes' => CasTypeOK'
BY DEF CasTypeOK, ShelfTypes, LocalTypes, Places, Works, Todos, Stages, Traces, Spills

\* The empty records have their types.
LEMMA Vacant ==
  /\ Cold \in Works /\ Cold.own = None
  /\ Nothing \in Todos /\ Nothing.own = {} /\ Nothing.trunk = {}
  /\ Unstaged \in Stages /\ Unstaged.pack = {} /\ Unstaged.head = None
  /\ Untraced \in Traces
  /\ Unspilt \in Spills
BY DEF Cold, Nothing, Unstaged, Untraced, Unspilt, Works, Todos, Stages, Traces, Spills

-----------------------------------------------------------------------------
LEMMA CasInitially == CasInit => CasInv
<1> SUFFICES ASSUME CasInit PROVE CasInv
  OBVIOUS
<1>1. /\ \A lr \in Lines \X Ranges : heads[lr] = None
      /\ \A j \in Jobs : /\ packs[j] = {} /\ pc[j] = "waiting" /\ work[j] = Cold
                         /\ staged[j] = Unstaged
  BY DEF CasInit
<1>2. CasTypeOK
  <2>1. /\ heads \in [Lines \X Ranges -> Manifests \cup {None}]
        /\ packs \in [Jobs -> SUBSET Blobs] /\ spills \in [Jobs -> Spills]
        /\ old \in SUBSET Jobs /\ gone \in SUBSET old /\ clock \in Nat \ {0}
    BY Vacant DEF CasInit
  <2>2. /\ work \in [Jobs -> Works] /\ todo \in [Jobs -> Todos]
        /\ staged \in [Jobs -> Stages] /\ trace \in [Jobs -> Traces]
    BY Vacant DEF CasInit
  <2>3. 0 \in Ranges
    BY CasAssumption DEF CasAssumption, Ranges
  <2>4. pc \in [Jobs -> Places] /\ look \in [Jobs -> Ranges] /\ store \in [Jobs -> SUBSET Blobs]
    BY <2>3, CasAssumption DEF CasInit, Places, CasAssumption
  <2> QED
    BY <1>1, <2>1, <2>2, <2>4, CasTypes DEF ShelfTypes, LocalTypes
<1>3. ShelfSolid
  BY <1>1 DEF ShelfSolid
<1>4. ASSUME NEW j \in Jobs PROVE JobInv(j)
  BY <1>1, Vacant DEF JobInv, Unwritten, OwnSolid, StagedSolid, SeedingOwed, RangeHeld
<1> QED
  BY <1>2, <1>3, <1>4 DEF CasInv

-----------------------------------------------------------------------------
(* What every step of one job leaves alone.                                *)

\* The other jobs stay as they are, and a container that was written does.
Moves(j) ==
  /\ \A k \in Jobs \ {j} :
       /\ pc'[k] = pc[k] /\ work'[k] = work[k] /\ todo'[k] = todo[k] /\ store'[k] = store[k]
       /\ staged'[k] = staged[k] /\ trace'[k] = trace[k] /\ packs'[k] = packs[k]
  /\ packs[j] # {} => packs'[j] = packs[j]

LEMMA SolidStays ==
  ASSUME NEW m, NEW r, NEW held, NEW more, Solid(m, r, held),
         \A c \in m.segs : held[c] # {} => more[c] = held[c]
  PROVE  Solid(m, r, more)
BY DEF Solid

LEMMA OthersStay ==
  ASSUME CasInv, NEW j \in Jobs, Moves(j)
  PROVE  /\ \A c \in Jobs : packs[c] # {} => packs'[c] = packs[c]
         /\ \A k \in Jobs \ {j} : JobInv(k)'
<1>1. \A c \in Jobs : packs[c] # {} => packs'[c] = packs[c]
  BY DEF Moves
<1>2. ASSUME NEW k \in Jobs \ {j} PROVE JobInv(k)'
  <2>1. /\ pc'[k] = pc[k] /\ work'[k] = work[k] /\ todo'[k] = todo[k] /\ store'[k] = store[k]
        /\ staged'[k] = staged[k] /\ trace'[k] = trace[k] /\ packs'[k] = packs[k]
    BY DEF Moves
  <2>2. JobInv(k) /\ work[k] \in Works /\ todo[k] \in Todos /\ staged[k] \in Stages
    BY CasTypes DEF CasInv, LocalTypes
  <2>3. Unwritten(k)'
    BY <2>1, <2>2 DEF Unwritten, JobInv
  <2>4. OwnSolid(k)'
    <3> SUFFICES ASSUME work[k].own # None
                 PROVE  Shard[k] \in Ranges /\ work[k].warm /\ Solid(work[k].own, Shard[k], packs')
      BY <2>1 DEF OwnSolid
    <3>1. Shard[k] \in Ranges /\ work[k].warm /\ Solid(work[k].own, Shard[k], packs)
      BY <2>2 DEF OwnSolid, JobInv
    <3>2. work[k].own.segs \subseteq Jobs
      BY <2>2 DEF Works, Manifests
    <3> QED
      BY <1>1, <3>1, <3>2, SolidStays
  <2>5. StagedSolid(k)'
    <3>1. CASE staged[k].pack = {}
      BY <2>1, <2>2, <3>1 DEF StagedSolid, JobInv
    <3>2. CASE staged[k].pack # {}
      <4>1. StagedSolid(k)
        BY <2>2 DEF JobInv
      <4>2. staged[k].head.segs \subseteq Jobs
        BY <3>2, <4>1 DEF StagedSolid, Manifests
      <4>3. \A c \in staged[k].head.segs \ {k} : packs'[c] = packs[c]
        BY <1>1, <3>2, <4>1, <4>2 DEF StagedSolid
      <4> QED
        BY <2>1, <4>1, <4>3 DEF StagedSolid
    <3> QED
      BY <3>1, <3>2
  <2>6. SeedingOwed(k)'
    <3> SUFFICES ASSUME pc[k] = "seeding", work[k].own # None
                 PROVE  SeedingOwed(k)'
      BY <2>1 DEF SeedingOwed
    <3>1. \A c \in todo[k].own : packs[c] \subseteq packs'[c]
      BY <1>1, <2>2 DEF Todos
    <3> QED
      BY <2>1, <2>2, <3>1 DEF SeedingOwed, JobInv
  <2>7. RangeHeld(k)'
    BY <2>1, <2>2 DEF RangeHeld, JobInv
  <2> QED
    BY <2>3, <2>4, <2>5, <2>6, <2>7 DEF JobInv
<1> QED
  BY <1>1, <1>2

\* A step that leaves the shelf's manifests alone.
LEMMA ShelfStays ==
  ASSUME CasInv, NEW j \in Jobs, Moves(j), UNCHANGED heads
  PROVE  ShelfSolid'
<1> SUFFICES ASSUME NEW lr \in Lines \X Ranges, heads[lr] # None
             PROVE  Solid(heads[lr], lr[2], packs')
  BY DEF ShelfSolid
<1>1. Solid(heads[lr], lr[2], packs) /\ heads[lr].segs \subseteq Jobs
  BY CasTypes DEF CasInv, ShelfSolid, ShelfTypes, Manifests
<1> QED
  BY <1>1, OthersStay, SolidStays

\* So it is enough to look at the job that moves.
LEMMA OneJobMoves ==
  ASSUME CasInv, NEW j \in Jobs, Moves(j), UNCHANGED heads, CasTypeOK', JobInv(j)'
  PROVE  CasInv'
BY OthersStay, ShelfStays DEF CasInv

\* What is known of the job that moves.
LEMMA TheJob ==
  ASSUME CasInv, NEW j \in Jobs
  PROVE  /\ ShelfTypes /\ LocalTypes
         /\ pc[j] \in Places /\ look[j] \in Ranges /\ work[j] \in Works /\ todo[j] \in Todos
         /\ store[j] \in SUBSET Blobs /\ staged[j] \in Stages /\ trace[j] \in Traces
         /\ Unwritten(j) /\ OwnSolid(j) /\ StagedSolid(j) /\ SeedingOwed(j) /\ RangeHeld(j)
BY CasTypes DEF CasInv, JobInv, LocalTypes

-----------------------------------------------------------------------------
(* Restore                                                                 *)

LEMMA StartKeeps ==
  ASSUME CasInv, NEW j \in Jobs, Start(j)
  PROVE  CasInv'
<1>1. /\ pc[j] = "waiting" /\ pc' = [pc EXCEPT ![j] = "looking"]
      /\ UNCHANGED <<heads, packs, spills, old, gone, clock, look, work, todo, store, staged, trace>>
  BY DEF Start, Ready, shelf, local
<1>2. pc'[j] = "looking" /\ pc' \in [Jobs -> Places]
  BY <1>1, TheJob DEF LocalTypes, Places
<1>3. CasTypeOK'
  BY <1>1, <1>2, TheJob, CasTypesKept DEF ShelfTypes, LocalTypes
<1>4. Moves(j)
  BY <1>1, TheJob DEF Moves, LocalTypes
<1>5. JobInv(j)'
  BY <1>1, <1>2, TheJob DEF JobInv, Unwritten, OwnSolid, StagedSolid, SeedingOwed, RangeHeld
<1> QED
  BY <1>1, <1>3, <1>4, <1>5, OneJobMoves

\* Every container of a solid manifest meets its range.
LEMMA AllSegmentsMeet ==
  ASSUME CasInv, NEW m, NEW r \in Ranges, m # None, Solid(m, r, packs)
  PROVE  SegmentsToFetch(m, r) = m.segs
BY DEF SegmentsToFetch, Solid, Owned

LEMMA SegmentsAreJobs ==
  ASSUME NEW m \in Manifests \cup {None}, NEW r
  PROVE  SegmentsToFetch(m, r) \in SUBSET Jobs
BY DEF SegmentsToFetch, Manifests

LEMMA AfterLookupKeeps ==
  ASSUME CasInv, NEW j \in Jobs, pc[j] \in {"looking", "inheriting"},
         NEW w \in Works,
         w.own # None => Shard[j] \in Ranges /\ w.warm /\ Solid(w.own, Shard[j], packs),
         AfterLookup(j, w), UNCHANGED <<shelf, store, staged>>,
         trace' \in [Jobs -> Traces], \A k \in Jobs \ {j} : trace'[k] = trace[k]
  PROVE  CasInv'
<1> DEFINE last == LastRange(j)
           seeds == w.warm /\ Shard[j] # None
           place == IF ~last THEN pc[j]
                    ELSE IF pc[j] = "looking" /\ Trunk[Line[j]] # None THEN "inheriting"
                    ELSE IF seeds THEN "seeding" ELSE "building"
           next == IF last THEN 0 ELSE look[j] + 1
           fetch == [trunk |-> SegmentsToFetch(w.mother, Shard[j]),
                     own   |-> SegmentsToFetch(w.own, Shard[j])]
           rest == IF place # "seeding" THEN todo[j] ELSE fetch
<1>1. /\ UNCHANGED <<heads, packs, spills, old, gone, clock, store, staged>>
      /\ pc \in [Jobs -> Places] /\ look \in [Jobs -> Ranges] /\ work \in [Jobs -> Works]
      /\ todo \in [Jobs -> Todos]
  BY TheJob DEF shelf, LocalTypes
<1>2. /\ look' = [look EXCEPT ![j] = next] /\ work' = [work EXCEPT ![j] = w]
      /\ pc' = [pc EXCEPT ![j] = place] /\ todo' = [todo EXCEPT ![j] = rest]
  <2>1. /\ look' = [look EXCEPT ![j] = next] /\ work' = [work EXCEPT ![j] = w]
        /\ pc' = [pc EXCEPT ![j] = place]
    BY <1>1 DEF AfterLookup
  <2>2. pc'[j] = place
    BY <1>1, <2>1
  <2>3. todo' = [todo EXCEPT ![j] = IF pc'[j] # "seeding" THEN todo[j] ELSE fetch]
    BY <1>1 DEF AfterLookup
  <2> QED
    BY <2>1, <2>2, <2>3
<1>3. next \in Ranges
  BY TheJob, CasAssumption DEF CasAssumption, Ranges, LastRange
<1>4. place \in Places /\ place \notin {"packed", "spilling", "over"}
  BY DEF Places
<1>5. fetch \in Todos /\ fetch.own = SegmentsToFetch(w.own, Shard[j])
  BY SegmentsAreJobs DEF Todos, Works
<1>6. rest \in Todos /\ (place = "seeding" => rest = fetch)
  BY <1>5, TheJob
<1>7. /\ place = "building" => ~seeds
      /\ place \in {"looking", "inheriting", "seeding", "building"}
  OBVIOUS
<1> HIDE DEF next, place, rest, fetch
<1>8. work'[j] = w /\ pc'[j] = place /\ todo'[j] = rest
  BY <1>1, <1>2
<1>9. CasTypeOK'
  <2>1. /\ look' \in [Jobs -> Ranges] /\ work' \in [Jobs -> Works]
        /\ pc' \in [Jobs -> Places] /\ todo' \in [Jobs -> Todos]
    BY <1>1, <1>2, <1>3, <1>4, <1>6
  <2> QED
    BY <1>1, <2>1, TheJob, CasTypesKept DEF ShelfTypes, LocalTypes
<1>10. Moves(j)
  BY <1>1, <1>2 DEF Moves
<1>11. JobInv(j)'
  <2>1. Unwritten(j)'
    BY <1>1, TheJob DEF Unwritten
  <2>2. OwnSolid(j)'
    BY <1>1, <1>8 DEF OwnSolid
  <2>3. StagedSolid(j)'
    BY <1>1, <1>4, <1>8, TheJob DEF StagedSolid
  <2>4. SeedingOwed(j)'
    <3> SUFFICES ASSUME place = "seeding", w.own # None
                 PROVE  /\ rest.own \subseteq w.own.segs
                        /\ w.own.list \subseteq UNION {packs[c] : c \in rest.own}
      BY <1>1, <1>8 DEF SeedingOwed
    <3>1. rest.own = w.own.segs
      BY <1>5, <1>6, AllSegmentsMeet
    <3> QED
      BY <3>1 DEF Solid
  <2>5. RangeHeld(j)'
    <3>1. place = "building" => w.own = None
      BY <1>7, CasAssumption DEF CasAssumption
    <3> QED
      BY <1>7, <1>8, <3>1 DEF RangeHeld
  <2> QED
    BY <2>1, <2>2, <2>3, <2>4, <2>5 DEF JobInv
<1> QED
  BY <1>1, <1>9, <1>10, <1>11, OneJobMoves

LEMMA LookUpKeeps ==
  ASSUME CasInv, NEW j \in Jobs, LookUp(j)
  PROVE  CasInv'
<1> DEFINE r == look[j]
           h == heads[<<Line[j], r>>]
           mine == Shard[j] = r
           w == work[j]
           found == [w EXCEPT !.own = IF mine THEN h ELSE @,
                              !.known = @ \cup h.list, !.warm = TRUE]
           lost == [w EXCEPT !.unknown = @ \/ mine]
<1>1. /\ pc[j] = "looking" /\ UNCHANGED <<shelf, store, staged>>
      /\ trace' = [trace EXCEPT ![j].looked = IF mine THEN clock ELSE @]
      /\ \/ h # None /\ AfterLookup(j, found)
         \/ AfterLookup(j, w)
         \/ AfterLookup(j, lost)
  BY DEF LookUp
<1>2. r \in Ranges /\ Line[j] \in Lines /\ w \in Works
  BY TheJob, LapsAssumption DEF LapsAssumption
<1>3. h \in Manifests \cup {None} /\ (h # None => Solid(h, r, packs))
  BY <1>2, TheJob DEF CasInv, ShelfSolid, ShelfTypes
<1>4. /\ trace' \in [Jobs -> Traces] /\ \A k \in Jobs \ {j} : trace'[k] = trace[k]
  <2>1. trace \in [Jobs -> Traces] /\ clock \in Nat
    BY TheJob DEF LocalTypes, ShelfTypes
  <2>2. [trace[j] EXCEPT !.looked = IF mine THEN clock ELSE @] \in Traces
    BY <2>1 DEF Traces
  <2> QED
    BY <1>1, <2>1, <2>2
<1>5. w.own # None => Shard[j] \in Ranges /\ w.warm /\ Solid(w.own, Shard[j], packs)
  BY TheJob DEF OwnSolid
<1> HIDE DEF h, r
<1>6. CASE h # None /\ AfterLookup(j, found)
  <2>1. found \in Works /\ found.own = (IF mine THEN h ELSE w.own) /\ found.warm = TRUE
    BY <1>2, <1>3, <1>6 DEF Works, Manifests
  <2>2. found.own # None => Shard[j] \in Ranges /\ found.warm /\ Solid(found.own, Shard[j], packs)
    BY <1>2, <1>3, <1>5, <2>1
  <2> HIDE DEF found, w, mine
  <2> QED
    BY <1>1, <1>4, <1>6, <2>1, <2>2, AfterLookupKeeps
<1>7. CASE AfterLookup(j, w)
  BY <1>1, <1>2, <1>4, <1>5, <1>7, AfterLookupKeeps
<1>8. CASE AfterLookup(j, lost)
  <2>1. lost \in Works /\ lost.own = w.own /\ lost.warm = w.warm
    BY <1>2 DEF Works
  <2> HIDE DEF lost, w, mine
  <2> QED
    BY <1>1, <1>4, <1>5, <1>8, <2>1, AfterLookupKeeps
<1> QED
  BY <1>1, <1>6, <1>7, <1>8

LEMMA InheritKeeps ==
  ASSUME CasInv, NEW j \in Jobs, Inherit(j)
  PROVE  CasInv'
<1> DEFINE h == Mother(Line[j], look[j])
           w == work[j]
           v == IF h = None THEN w
                ELSE [w EXCEPT !.mother = IF Shard[j] = look[j] THEN h ELSE @,
                               !.known = @ \cup h.list, !.warm = TRUE]
<1>1. pc[j] = "inheriting" /\ AfterLookup(j, v) /\ UNCHANGED <<shelf, store, staged, trace>>
  BY DEF Inherit
<1>2. h \in Manifests \cup {None} /\ w \in Works
  <2>1. look[j] \in Ranges /\ Line[j] \in Lines /\ Trunk[Line[j]] \in Lines \cup {None}
    BY TheJob, LapsAssumption DEF LapsAssumption
  <2> QED
    BY <2>1, TheJob DEF Mother, ShelfTypes
<1>3. w.own # None => Shard[j] \in Ranges /\ w.warm /\ Solid(w.own, Shard[j], packs)
  BY TheJob DEF OwnSolid
<1> HIDE DEF h
<1>4. v \in Works /\ v.own = w.own /\ (w.warm => v.warm)
  BY <1>2 DEF Works, Manifests
<1>5. trace \in [Jobs -> Traces]
  BY TheJob DEF LocalTypes
<1> HIDE DEF v, w
<1> QED
  BY <1>1, <1>3, <1>4, <1>5, AfterLookupKeeps

\* A container is unpacked or passed over; but for that the job keeps what it has.
LEMMA SeedDoes ==
  ASSUME CasInv, NEW j \in Jobs, Seed(j)
  PROVE  /\ Moves(j)
         /\ todo' \in [Jobs -> Todos] /\ store' \in [Jobs -> SUBSET Blobs]
         /\ work' \in [Jobs -> Works] /\ trace' \in [Jobs -> Traces]
         /\ todo'[j].own \subseteq todo[j].own
         /\ \E c \in Jobs :
              /\ todo[j].own \subseteq todo'[j].own \cup {c}
              /\ store[j] \cup trace[j].missed \cup packs[c] \subseteq store'[j] \cup trace'[j].missed
         /\ store[j] \subseteq store'[j]
         /\ work'[j].own = work[j].own /\ work'[j].warm = work[j].warm
         /\ work'[j].unknown = work[j].unknown
         /\ trace'[j].looked = trace[j].looked /\ trace'[j].listed = trace[j].listed
         /\ trace'[j].crowded = trace[j].crowded /\ trace'[j].broken = trace[j].broken
<1>1. /\ pc[j] = "seeding"
      /\ UNCHANGED <<heads, packs, spills, old, gone, clock, pc, look, staged>>
  BY DEF Seed, shelf
<1> DEFINE Fetched(side, c) ==
        /\ todo' = [todo EXCEPT ![j][side] = @ \ {c}]
        /\ IF c \in gone
           THEN /\ trace' = [trace EXCEPT ![j].missed = @ \cup packs[c]]
                /\ UNCHANGED <<store, work>>
           ELSE /\ store' = [store EXCEPT ![j] = Seeded(@, c)]
                /\ work' = [work EXCEPT ![j].seen = @ \cup {c},
                                        ![j].slow = @ \/ c \notin Source(j, side).full]
                /\ UNCHANGED trace
<1>2. PICK side \in {"trunk", "own"} : \E c \in todo[j][side] : Fetched(side, c)
  BY DEF Seed
<1>2a. PICK c \in todo[j][side] : Fetched(side, c)
  BY <1>2
<1>3. /\ store \in [Jobs -> SUBSET Blobs] /\ work \in [Jobs -> Works] /\ todo \in [Jobs -> Todos]
      /\ trace \in [Jobs -> Traces] /\ pc \in [Jobs -> Places] /\ packs \in [Jobs -> SUBSET Blobs]
  BY TheJob DEF LocalTypes, ShelfTypes
<1>4. c \in Jobs /\ packs[c] \in SUBSET Blobs
  BY <1>2a, <1>3 DEF Todos
<1>5. /\ todo' \in [Jobs -> Todos]
      /\ \A k \in Jobs \ {j} : todo'[k] = todo[k]
      /\ todo'[j].own \subseteq todo[j].own
      /\ todo[j].own \subseteq todo'[j].own \cup {c}
  <2>1. CASE side = "trunk"
    <3>0. todo' = [todo EXCEPT ![j].trunk = @ \ {c}]
      BY <1>2a, <2>1
    <3> DEFINE t == [todo[j] EXCEPT !.trunk = @ \ {c}]
    <3>1. todo' = [todo EXCEPT ![j] = t]
      BY <1>3, <3>0
    <3>2. t \in Todos /\ t.own = todo[j].own
      BY TheJob DEF Todos
    <3> HIDE DEF t
    <3> QED
      BY <1>3, <3>1, <3>2
  <2>2. CASE side = "own"
    <3>0. todo' = [todo EXCEPT ![j].own = @ \ {c}]
      BY <1>2a, <2>2
    <3> DEFINE t == [todo[j] EXCEPT !.own = @ \ {c}]
    <3>1. todo' = [todo EXCEPT ![j] = t]
      BY <1>3, <3>0
    <3>2. t \in Todos /\ t.own = todo[j].own \ {c}
      BY TheJob DEF Todos
    <3> HIDE DEF t
    <3> QED
      BY <1>3, <3>1, <3>2
  <2> QED
    BY <2>1, <2>2
<1>6. /\ store' \in [Jobs -> SUBSET Blobs] /\ work' \in [Jobs -> Works] /\ trace' \in [Jobs -> Traces]
      /\ \A k \in Jobs \ {j} : store'[k] = store[k] /\ work'[k] = work[k] /\ trace'[k] = trace[k]
      /\ work'[j].own = work[j].own /\ work'[j].warm = work[j].warm
      /\ work'[j].unknown = work[j].unknown /\ store[j] \subseteq store'[j]
      /\ trace'[j].looked = trace[j].looked /\ trace'[j].listed = trace[j].listed
      /\ trace'[j].crowded = trace[j].crowded /\ trace'[j].broken = trace[j].broken
      /\ store[j] \cup trace[j].missed \cup packs[c] \subseteq store'[j] \cup trace'[j].missed
  <2>1. CASE c \in gone
    <3>1. trace' = [trace EXCEPT ![j].missed = @ \cup packs[c]] /\ UNCHANGED <<store, work>>
      BY <1>2a, <2>1
    <3>2. [trace[j] EXCEPT !.missed = @ \cup packs[c]] \in Traces
      BY <1>3, <1>4 DEF Traces
    <3>3. /\ trace'[j].missed = trace[j].missed \cup packs[c]
          /\ trace'[j].looked = trace[j].looked /\ trace'[j].listed = trace[j].listed
          /\ trace'[j].crowded = trace[j].crowded /\ trace'[j].broken = trace[j].broken
      BY <1>3, <3>1 DEF Traces
    <3> QED
      BY <1>3, <3>1, <3>2, <3>3
  <2>2. CASE c \notin gone
    <3> DEFINE tardy == work[j].slow \/ c \notin Source(j, side).full
               w == [work[j] EXCEPT !.seen = @ \cup {c}, !.slow = tardy]
    <3>1. /\ store' = [store EXCEPT ![j] = @ \cup packs[c]] /\ UNCHANGED trace
          /\ work' = [work EXCEPT ![j] = w]
      BY <1>2a, <1>3, <2>2 DEF Seeded
    <3>2. tardy \in BOOLEAN
      BY <1>3 DEF Works
    <3> HIDE DEF tardy
    <3>3. w \in Works /\ w.own = work[j].own /\ w.warm = work[j].warm /\ w.unknown = work[j].unknown
      <4>1. work[j].seen \cup {c} \in SUBSET Jobs
        BY <1>3, <1>4 DEF Works
      <4>2. ASSUME NEW x \in Works, NEW cs \in SUBSET Jobs, NEW b \in BOOLEAN
            PROVE  [x EXCEPT !.seen = cs, !.slow = b] \in Works
        <5> DEFINE y == [x EXCEPT !.seen = cs]
        <5>1. y \in Works
          BY DEF Works
        <5>2. [x EXCEPT !.seen = cs, !.slow = b] = [y EXCEPT !.slow = b]
          OBVIOUS
        <5> HIDE DEF y
        <5> QED
          BY <5>1, <5>2 DEF Works
      <4>3. w.own = work[j].own /\ w.warm = work[j].warm /\ w.unknown = work[j].unknown
        BY <1>3 DEF Works
      <4> QED
        BY <3>2, <4>1, <4>2, <4>3, TheJob
    <3> HIDE DEF w
    <3> QED
      BY <1>3, <1>4, <3>1, <3>3
  <2> QED
    BY <2>1, <2>2
<1>7. Moves(j)
  BY <1>1, <1>5, <1>6 DEF Moves
<1> QED
  BY <1>4, <1>5, <1>6, <1>7

LEMMA SeedKeeps ==
  ASSUME CasInv, NEW j \in Jobs, Seed(j)
  PROVE  CasInv'
<1>1. /\ pc[j] = "seeding"
      /\ UNCHANGED <<heads, packs, spills, old, gone, clock, pc, look, staged>>
  BY DEF Seed, shelf
<1>2. PICK c \in Jobs :
        /\ todo[j].own \subseteq todo'[j].own \cup {c}
        /\ store[j] \cup trace[j].missed \cup packs[c] \subseteq store'[j] \cup trace'[j].missed
  BY SeedDoes
<1>3. CasTypeOK'
  BY <1>1, SeedDoes, TheJob, CasTypesKept DEF ShelfTypes, LocalTypes
<1>4. JobInv(j)'
  <2>1. Unwritten(j)' /\ OwnSolid(j)' /\ StagedSolid(j)' /\ RangeHeld(j)'
    BY <1>1, SeedDoes, TheJob DEF Unwritten, OwnSolid, StagedSolid, RangeHeld
  <2>2. SeedingOwed(j)'
    BY <1>1, <1>2, SeedDoes, TheJob DEF SeedingOwed
  <2> QED
    BY <2>1, <2>2 DEF JobInv
<1> QED
  BY <1>1, <1>3, <1>4, SeedDoes, OneJobMoves

LEMMA AbsorbKeeps ==
  ASSUME CasInv, NEW j \in Jobs, Absorb(j)
  PROVE  CasInv'
<1> DEFINE taken == Owned(Shard[j]) \cap UNION {spills[k].blobs : k \in Recent(j)}
           left == Awaiting(j) \ Recent(j)
<1>1. /\ pc[j] = "seeding" /\ todo[j] = Nothing
      /\ store' = [store EXCEPT ![j] = @ \cup taken]
      /\ trace' = [trace EXCEPT ![j].listed = clock, ![j].crowded = left]
      /\ pc' = [pc EXCEPT ![j] = "building"]
      /\ UNCHANGED <<heads, packs, spills, old, gone, clock, look, work, todo, staged>>
  BY DEF Absorb, shelf
<1>2. taken \in SUBSET Blobs /\ left \in SUBSET Jobs
  BY DEF Owned, Awaiting
<1> HIDE DEF taken, left
<1>3. /\ store \in [Jobs -> SUBSET Blobs] /\ trace \in [Jobs -> Traces] /\ pc \in [Jobs -> Places]
      /\ clock \in Nat
  BY TheJob DEF LocalTypes, ShelfTypes
<1> DEFINE noted == [trace[j] EXCEPT !.listed = clock, !.crowded = left]
<1>4. /\ noted \in Traces /\ noted.missed = trace[j].missed
      /\ trace' = [trace EXCEPT ![j] = noted] /\ trace'[j] = noted
      /\ pc'[j] = "building" /\ store'[j] = store[j] \cup taken
  <2>1. noted \in Traces /\ noted.missed = trace[j].missed
    <3>1. ASSUME NEW x \in Traces
          PROVE  [x EXCEPT !.listed = clock, !.crowded = left] \in Traces
      <4> DEFINE y == [x EXCEPT !.listed = clock]
      <4>1. y \in Traces
        BY <1>3 DEF Traces
      <4>2. [x EXCEPT !.listed = clock, !.crowded = left] = [y EXCEPT !.crowded = left]
        OBVIOUS
      <4> HIDE DEF y
      <4> QED
        BY <1>2, <4>1, <4>2 DEF Traces
    <3>2. noted.missed = trace[j].missed
      BY TheJob DEF Traces
    <3> QED
      BY <3>1, <3>2, TheJob
  <2>2. trace' = [trace EXCEPT ![j] = noted]
    BY <1>1, <1>3
  <2> HIDE DEF noted
  <2> QED
    BY <1>1, <1>3, <2>1, <2>2
<1> HIDE DEF noted
<1>5. CasTypeOK'
  <2>1. /\ store' \in [Jobs -> SUBSET Blobs] /\ trace' \in [Jobs -> Traces]
        /\ pc' \in [Jobs -> Places]
    BY <1>1, <1>2, <1>3, <1>4 DEF Places
  <2> QED
    BY <1>1, <2>1, TheJob, CasTypesKept DEF ShelfTypes, LocalTypes
<1>6. Moves(j)
  BY <1>1, <1>3 DEF Moves
<1>7. JobInv(j)'
  <2>1. Unwritten(j)' /\ OwnSolid(j)' /\ StagedSolid(j)' /\ SeedingOwed(j)'
    BY <1>1, <1>4, TheJob DEF Unwritten, OwnSolid, StagedSolid, SeedingOwed
  <2>2. RangeHeld(j)'
    BY <1>1, <1>4, TheJob, Vacant DEF SeedingOwed, RangeHeld
  <2> QED
    BY <2>1, <2>2 DEF JobInv
<1> QED
  BY <1>1, <1>5, <1>6, <1>7, OneJobMoves

LEMMA AbortKeeps ==
  ASSUME CasInv, NEW j \in Jobs, Abort(j)
  PROVE  CasInv'
<1>1. /\ pc[j] \in {"looking", "inheriting", "seeding"} /\ pc' = [pc EXCEPT ![j] = "built"]
      /\ trace' = [trace EXCEPT ![j].broken = TRUE]
      /\ UNCHANGED <<heads, packs, spills, old, gone, clock, look, work, todo, store, staged>>
  BY DEF Abort, shelf
<1>2. trace \in [Jobs -> Traces] /\ pc \in [Jobs -> Places]
  BY TheJob DEF LocalTypes
<1> DEFINE noted == [trace[j] EXCEPT !.broken = TRUE]
<1>3. /\ noted \in Traces /\ noted.broken = TRUE
      /\ trace' = [trace EXCEPT ![j] = noted] /\ trace'[j] = noted /\ pc'[j] = "built"
  <2>1. noted \in Traces /\ noted.broken = TRUE
    BY TheJob DEF Traces
  <2>2. trace' = [trace EXCEPT ![j] = noted]
    BY <1>1, <1>2
  <2> HIDE DEF noted
  <2> QED
    BY <1>1, <1>2, <2>1, <2>2
<1> HIDE DEF noted
<1>4. CasTypeOK'
  <2>1. trace' \in [Jobs -> Traces] /\ pc' \in [Jobs -> Places]
    BY <1>1, <1>2, <1>3 DEF Places
  <2> QED
    BY <1>1, <2>1, TheJob, CasTypesKept DEF ShelfTypes, LocalTypes
<1>5. Moves(j)
  BY <1>1, <1>2 DEF Moves
<1>6. JobInv(j)'
  BY <1>1, <1>3, TheJob DEF JobInv, Unwritten, OwnSolid, StagedSolid, SeedingOwed, RangeHeld
<1> QED
  BY <1>1, <1>4, <1>5, <1>6, OneJobMoves

LEMMA BuildKeeps ==
  ASSUME CasInv, NEW j \in Jobs, Build(j)
  PROVE  CasInv'
<1>1. PICK new \in SUBSET Makes[j] : store' = [store EXCEPT ![j] = @ \cup new]
  BY DEF Build
<1>2. /\ pc[j] = "building" /\ pc' = [pc EXCEPT ![j] = "built"]
      /\ UNCHANGED <<heads, packs, spills, old, gone, clock, look, work, todo, staged, trace>>
  BY DEF Build, shelf
<1>3. /\ store \in [Jobs -> SUBSET Blobs] /\ pc \in [Jobs -> Places] /\ new \in SUBSET Blobs
  BY TheJob, CasAssumption DEF LocalTypes, CasAssumption
<1>4. pc'[j] = "built" /\ store'[j] = store[j] \cup new
  BY <1>1, <1>2, <1>3
<1>5. CasTypeOK'
  <2>1. store' \in [Jobs -> SUBSET Blobs] /\ pc' \in [Jobs -> Places]
    BY <1>1, <1>2, <1>3 DEF Places
  <2> QED
    BY <1>2, <2>1, TheJob, CasTypesKept DEF ShelfTypes, LocalTypes
<1>6. Moves(j)
  BY <1>1, <1>2, <1>3 DEF Moves
<1>7. JobInv(j)'
  BY <1>2, <1>4, TheJob DEF JobInv, Unwritten, OwnSolid, StagedSolid, SeedingOwed, RangeHeld
<1> QED
  BY <1>2, <1>5, <1>6, <1>7, OneJobMoves

-----------------------------------------------------------------------------
(* Publish                                                                 *)

\* What is asked of a staged container and its manifest before the upload.
Stageable(j, pack, m) ==
  /\ pack \in SUBSET Blobs
  /\ m \in Manifests
  /\ m.full \subseteq m.segs
  /\ j \in m.segs
  /\ \A c \in m.segs \ {j} : packs[c] # {}
  /\ m.list = pack \cup UNION {packs[c] : c \in m.segs \ {j}}
  /\ m.list \subseteq Owned(Shard[j])

LEMMA RebasedIsStageable ==
  ASSUME NEW j \in Jobs, NEW pack \in SUBSET Owned(Shard[j]), NEW full \in BOOLEAN
  PROVE  Stageable(j, pack, Rebased(j, pack, full))
<1> DEFINE m == Rebased(j, pack, full)
<1>1. /\ m \in Manifests /\ m.segs = {j} /\ m.full \subseteq {j} /\ m.list = pack
      /\ pack \in SUBSET Blobs
  BY DEF Rebased, Manifests, Owned
<1> HIDE DEF m
<1>2. Stageable(j, pack, m)
  BY <1>1 DEF Stageable
<1> QED
  BY <1>2 DEF m

LEMMA ChainedIsStageable ==
  ASSUME CasInv, NEW j \in Jobs, NEW pack \in SUBSET Owned(Shard[j]), NEW h \in Manifests,
         packs[j] = {}, Solid(h, Shard[j], packs)
  PROVE  Stageable(j, pack, Chained(j, h, pack))
<1> DEFINE m == Chained(j, h, pack)
<1>1. pack \in SUBSET Blobs
  BY DEF Owned
<1>2. h.segs \in SUBSET Jobs /\ h.full \in SUBSET Jobs /\ h.list \in SUBSET Blobs
  BY DEF Manifests
<1>3. /\ m.segs = h.segs \cup {j} /\ m.full = h.full /\ m.list = h.list \cup pack
      /\ m \in Manifests
  BY <1>1, <1>2 DEF Chained, Manifests
<1> HIDE DEF m
<1>4. m.segs \ {j} = h.segs
  BY <1>3 DEF Solid
<1>5. Stageable(j, pack, m)
  BY <1>1, <1>3, <1>4 DEF Stageable, Solid
<1> QED
  BY <1>5 DEF m

LEMMA StagedPackIsStageable ==
  ASSUME CasInv, NEW j \in Jobs, NEW compact \in BOOLEAN, pc[j] = "built",
         compact => work[j].own # None
  PROVE  /\ StagedPack(j, compact) \in Stages
         /\ StagedPack(j, compact).pack # {} =>
              /\ Shard[j] \in Ranges
              /\ Stageable(j, StagedPack(j, compact).pack, StagedPack(j, compact).head)
<1> DEFINE r == Primary(j)
           head == work[j].own
           all == PackSegments(store[j], {r}, {})
           delta == PackSegments(store[j], {r}, work[j].known)
           shed == WouldShed(head.list, all)
           first == [Unstaged EXCEPT !.pack = all, !.head = Rebased(j, all, TRUE)]
           m == IF head = None THEN Rebased(j, delta, FALSE) ELSE Chained(j, head, delta)
           more == [Unstaged EXCEPT !.pack = delta, !.head = m]
<1>1. \/ StagedPack(j, compact) = Unstaged
      \/ r # None /\ StagedPack(j, compact) = first
      \/ r # None /\ StagedPack(j, compact) = more
  BY DEF StagedPack
<1>2. CASE StagedPack(j, compact) = Unstaged
  BY <1>2, Vacant
<1>3. ASSUME r # None
      PROVE  /\ Shard[j] \in Ranges /\ all \in SUBSET Owned(Shard[j])
             /\ delta \in SUBSET Owned(Shard[j])
  BY <1>3, TheJob, CasAssumption DEF Primary, PackSegments, Owned, CasAssumption
<1>4. ASSUME NEW pack, NEW n, Stageable(j, pack, n)
      PROVE  /\ [Unstaged EXCEPT !.pack = pack, !.head = n] \in Stages
             /\ [Unstaged EXCEPT !.pack = pack, !.head = n].pack = pack
             /\ [Unstaged EXCEPT !.pack = pack, !.head = n].head = n
  <2> DEFINE y == [Unstaged EXCEPT !.pack = pack]
  <2>0. y = [pack |-> pack, head |-> None, spill |-> {}]
    BY DEF Unstaged
  <2>1. [Unstaged EXCEPT !.pack = pack, !.head = n] = [pack |-> pack, head |-> n, spill |-> {}]
    <3>1. [Unstaged EXCEPT !.pack = pack, !.head = n] = [y EXCEPT !.head = n]
      OBVIOUS
    <3> HIDE DEF y
    <3> QED
      BY <2>0, <3>1
  <2> QED
    BY <1>4, <2>1 DEF Stages, Stageable
<1>5. r # None => Stageable(j, all, Rebased(j, all, TRUE))
  BY <1>3, RebasedIsStageable
<1>6. ASSUME r # None PROVE Stageable(j, delta, m)
  <2> HIDE DEF delta, r
  <2>1. CASE head = None
    BY <1>3, <1>6, <2>1, RebasedIsStageable
  <2>2. CASE head # None
    <3>1. head \in Manifests /\ Solid(head, Shard[j], packs) /\ packs[j] = {}
      BY <2>2, TheJob DEF Works, OwnSolid, Unwritten
    <3> QED
      BY <1>3, <1>6, <2>2, <3>1, ChainedIsStageable
  <2> QED
    BY <2>1, <2>2
<1>7. CASE r # None /\ StagedPack(j, compact) = first
  <2> DEFINE n == Rebased(j, all, TRUE)
  <2>1. Stageable(j, all, n) /\ Shard[j] \in Ranges
    BY <1>3, <1>5, <1>7
  <2> HIDE DEF n, all
  <2>2. first \in Stages /\ first.pack = all /\ first.head = n
    BY <1>4, <2>1 DEF n
  <2> HIDE DEF first
  <2> QED
    BY <1>7, <2>1, <2>2
<1>8. CASE r # None /\ StagedPack(j, compact) = more
  <2>1. Stageable(j, delta, m) /\ Shard[j] \in Ranges
    BY <1>3, <1>6, <1>8
  <2> HIDE DEF m, delta
  <2>2. more \in Stages /\ more.pack = delta /\ more.head = m
    BY <1>4, <2>1
  <2> HIDE DEF more
  <2> QED
    BY <1>8, <2>1, <2>2
<1> QED
  BY <1>1, <1>2, <1>7, <1>8

LEMMA PublishKeeps ==
  ASSUME CasInv, NEW j \in Jobs, Publish(j)
  PROVE  CasInv'
<1> DEFINE spill == StagedSpill(j)
<1>1. PICK compact \in BOOLEAN :
        /\ compact => MayCompact(j)
        /\ staged' = [staged EXCEPT ![j] = [StagedPack(j, compact) EXCEPT !.spill = spill]]
  BY DEF Publish
<1>2. /\ pc[j] = "built" /\ pc' = [pc EXCEPT ![j] = "staged"]
      /\ UNCHANGED <<heads, packs, spills, old, gone, clock, look, work, todo, store, trace>>
  BY DEF Publish, shelf
<1> DEFINE new == StagedPack(j, compact)
           done == [new EXCEPT !.spill = spill]
<1>3. /\ new \in Stages
      /\ new.pack # {} => Shard[j] \in Ranges /\ Stageable(j, new.pack, new.head)
  BY <1>1, <1>2, StagedPackIsStageable DEF MayCompact
<1>4. spill \in SUBSET Blobs
  BY TheJob DEF StagedSpill, PackSegments
<1> HIDE DEF new, spill
<1>5. done \in Stages /\ done.pack = new.pack /\ done.head = new.head
  BY <1>3, <1>4 DEF Stages
<1>6. staged' = [staged EXCEPT ![j] = done]
  BY <1>1 DEF new
<1> HIDE DEF done
<1>7. staged \in [Jobs -> Stages] /\ pc \in [Jobs -> Places]
  BY TheJob DEF LocalTypes
<1>8. staged'[j] = done /\ pc'[j] = "staged"
  BY <1>2, <1>6, <1>7
<1>9. CasTypeOK'
  <2>1. staged' \in [Jobs -> Stages] /\ pc' \in [Jobs -> Places]
    BY <1>2, <1>5, <1>6, <1>7 DEF Places
  <2> QED
    BY <1>2, <2>1, TheJob, CasTypesKept DEF ShelfTypes, LocalTypes
<1>10. Moves(j)
  BY <1>2, <1>6, <1>7 DEF Moves
<1>11. JobInv(j)'
  <2>1. Unwritten(j)' /\ OwnSolid(j)' /\ SeedingOwed(j)' /\ RangeHeld(j)'
    BY <1>2, <1>8, TheJob DEF Unwritten, OwnSolid, SeedingOwed, RangeHeld
  <2>2. StagedSolid(j)'
    BY <1>2, <1>3, <1>5, <1>8 DEF StagedSolid, Stageable
  <2> QED
    BY <2>1, <2>2 DEF JobInv
<1> QED
  BY <1>2, <1>9, <1>10, <1>11, OneJobMoves

LEMMA UploadContainerKeeps ==
  ASSUME CasInv, NEW j \in Jobs, UploadContainer(j)
  PROVE  CasInv'
<1>1. pc[j] = "staged" /\ UNCHANGED <<heads, spills, old, gone, look, work, todo, store, staged, trace>>
  BY DEF UploadContainer, local
<1>2. /\ packs \in [Jobs -> SUBSET Blobs] /\ pc \in [Jobs -> Places] /\ clock \in Nat \ {0}
      /\ staged[j].pack \in SUBSET Blobs /\ packs[j] = {}
  BY <1>1, TheJob DEF LocalTypes, ShelfTypes, Stages, Unwritten
<1>3. CASE /\ staged[j].pack # {} /\ packs' = [packs EXCEPT ![j] = staged[j].pack]
           /\ clock' = clock + 1 /\ pc' = [pc EXCEPT ![j] = "packed"]
  <2>1. packs'[j] = staged[j].pack /\ pc'[j] = "packed"
    BY <1>2, <1>3
  <2>2. CasTypeOK'
    <3>1. /\ packs' \in [Jobs -> SUBSET Blobs] /\ pc' \in [Jobs -> Places]
          /\ clock' \in Nat \ {0}
      BY <1>2, <1>3 DEF Places
    <3> QED
      BY <1>1, <3>1, TheJob, CasTypesKept DEF ShelfTypes, LocalTypes
  <2>3. Moves(j)
    BY <1>1, <1>2, <1>3 DEF Moves
  <2>4. \A c \in Jobs : packs[c] # {} => packs'[c] = packs[c]
    BY <2>3, OthersStay
  <2>5. JobInv(j)'
    <3>1. Unwritten(j)' /\ SeedingOwed(j)' /\ RangeHeld(j)'
      BY <1>1, <2>1, TheJob DEF Unwritten, SeedingOwed, RangeHeld
    <3>2. OwnSolid(j)'
      <4> SUFFICES ASSUME work[j].own # None
                   PROVE  Shard[j] \in Ranges /\ work[j].warm /\ Solid(work[j].own, Shard[j], packs')
        BY <1>1 DEF OwnSolid
      <4>1. Shard[j] \in Ranges /\ work[j].warm /\ Solid(work[j].own, Shard[j], packs)
        BY TheJob DEF OwnSolid
      <4>2. work[j].own.segs \subseteq Jobs
        BY TheJob DEF Works, Manifests
      <4> QED
        BY <2>4, <4>1, <4>2, SolidStays
    <3>3. StagedSolid(j)'
      <4>1. staged[j].head.segs \subseteq Jobs /\ StagedSolid(j)
        BY <1>3, TheJob DEF StagedSolid, Manifests
      <4>2. \A c \in staged[j].head.segs \ {j} : packs'[c] = packs[c]
        BY <1>3, <2>4, <4>1 DEF StagedSolid
      <4> QED
        BY <1>1, <1>3, <2>1, <4>1, <4>2 DEF StagedSolid
    <3> QED
      BY <3>1, <3>2, <3>3 DEF JobInv
  <2> QED
    BY <1>1, <2>2, <2>3, <2>5, OneJobMoves
<1>4. CASE pc' = [pc EXCEPT ![j] = "spilling"] /\ UNCHANGED <<packs, clock>>
  <2>1. pc'[j] = "spilling" /\ pc' \in [Jobs -> Places]
    BY <1>2, <1>4 DEF Places
  <2>2. CasTypeOK'
    BY <1>1, <1>4, <2>1, TheJob, CasTypesKept DEF ShelfTypes, LocalTypes
  <2>3. Moves(j)
    BY <1>1, <1>2, <1>4 DEF Moves
  <2>4. JobInv(j)'
    BY <1>1, <1>4, <2>1, TheJob DEF JobInv, Unwritten, OwnSolid, StagedSolid, SeedingOwed, RangeHeld
  <2> QED
    BY <1>1, <2>2, <2>3, <2>4, OneJobMoves
<1> QED
  BY <1>3, <1>4 DEF UploadContainer

LEMMA UploadManifestKeeps ==
  ASSUME CasInv, NEW j \in Jobs, UploadManifest(j)
  PROVE  CasInv'
<1> DEFINE m == [staged[j].head EXCEPT !.at = clock]
           line == <<Line[j], Shard[j]>>
<1>1. /\ pc[j] = "packed" /\ pc' = [pc EXCEPT ![j] = "spilling"]
      /\ \/ heads' = [heads EXCEPT ![line] = m] /\ clock' = clock + 1
         \/ UNCHANGED <<heads, clock>>
      /\ UNCHANGED <<packs, spills, old, gone, look, work, todo, store, staged, trace>>
  BY DEF UploadManifest, local
<1>2. /\ heads \in [Lines \X Ranges -> Manifests \cup {None}] /\ clock \in Nat \ {0}
      /\ pc \in [Jobs -> Places] /\ packs \in [Jobs -> SUBSET Blobs] /\ Line[j] \in Lines
  BY TheJob, LapsAssumption DEF ShelfTypes, LocalTypes, LapsAssumption
<1>3. /\ staged[j].pack # {} /\ packs[j] = staged[j].pack /\ Shard[j] \in Ranges
      /\ staged[j].head \in Manifests /\ Stageable(j, packs[j], staged[j].head)
  BY <1>1, <1>2, TheJob DEF StagedSolid, Stageable
<1>4. /\ m \in Manifests /\ m.segs = staged[j].head.segs /\ m.full = staged[j].head.full
      /\ m.list = staged[j].head.list
  BY <1>2, <1>3 DEF Manifests
<1> HIDE DEF m
<1>5. Solid(m, Shard[j], packs)
  BY <1>3, <1>4 DEF Stageable, Solid
<1>6. /\ heads' \in [Lines \X Ranges -> Manifests \cup {None}] /\ clock' \in Nat \ {0}
      /\ \A lr \in Lines \X Ranges : heads'[lr] = heads[lr] \/ (lr = line /\ heads'[lr] = m)
  BY <1>1, <1>2, <1>4
<1>7. Moves(j)
  BY <1>1, <1>2 DEF Moves
<1>8. ShelfSolid'
  <2> SUFFICES ASSUME NEW lr \in Lines \X Ranges, heads'[lr] # None
               PROVE  Solid(heads'[lr], lr[2], packs)
    BY <1>1 DEF ShelfSolid
  <2>1. CASE heads'[lr] = heads[lr]
    BY <2>1 DEF CasInv, ShelfSolid
  <2>2. CASE lr = line /\ heads'[lr] = m
    <3>1. lr[2] = Shard[j]
      BY <2>2
    <3> QED
      BY <1>5, <2>2, <3>1
  <2> QED
    BY <1>6, <2>1, <2>2
<1>9. CasTypeOK'
  <2>1. pc' \in [Jobs -> Places]
    BY <1>1, <1>2 DEF Places
  <2>2. \A lr \in Lines \X Ranges : heads'[lr] # None => heads'[lr].full \subseteq heads'[lr].segs
    BY <1>8 DEF ShelfSolid, Solid
  <2> QED
    BY <1>1, <1>6, <2>1, <2>2, TheJob, CasTypesKept DEF ShelfTypes, LocalTypes
<1>10. JobInv(j)'
  <2>1. pc'[j] = "spilling"
    BY <1>1, <1>2
  <2> QED
    BY <1>1, <2>1, TheJob DEF JobInv, Unwritten, OwnSolid, StagedSolid, SeedingOwed, RangeHeld
<1> QED
  BY <1>7, <1>8, <1>9, <1>10, OthersStay DEF CasInv

\* A job that ends owes nothing.
LEMMA LeaveKeeps ==
  ASSUME CasInv, NEW j \in Jobs, Leave(j), UNCHANGED <<heads, packs, old, gone>>,
         spills' \in [Jobs -> Spills], clock' \in Nat \ {0}
  PROVE  CasInv'
<1>1. /\ pc \in [Jobs -> Places] /\ look \in [Jobs -> Ranges] /\ work \in [Jobs -> Works]
      /\ todo \in [Jobs -> Todos] /\ store \in [Jobs -> SUBSET Blobs]
      /\ staged \in [Jobs -> Stages] /\ trace \in [Jobs -> Traces]
  BY TheJob DEF LocalTypes
<1>2. 0 \in Ranges /\ Disk[j] \in SUBSET Blobs
  BY CasAssumption DEF CasAssumption, Ranges
<1>3. LocalTypes'
  <2>1. pc' \in [Jobs -> Places] /\ look' \in [Jobs -> Ranges] /\ store' \in [Jobs -> SUBSET Blobs]
    BY <1>1, <1>2 DEF Leave, Places
  <2>2. work' \in [Jobs -> Works] /\ todo' \in [Jobs -> Todos]
    BY <1>1, Vacant DEF Leave
  <2>3. staged' \in [Jobs -> Stages] /\ trace' \in [Jobs -> Traces]
    BY <1>1, Vacant DEF Leave
  <2> QED
    BY <2>1, <2>2, <2>3 DEF LocalTypes
<1>4. CasTypeOK'
  BY <1>3, TheJob, CasTypesKept DEF ShelfTypes
<1>5. Moves(j)
  BY <1>1 DEF Moves, Leave
<1>6. pc'[j] = "over" /\ work'[j] = Cold /\ staged'[j] = Unstaged
  BY <1>1 DEF Leave
<1>7. JobInv(j)'
  BY <1>6, Vacant DEF JobInv, Unwritten, OwnSolid, StagedSolid, SeedingOwed, RangeHeld
<1> QED
  BY <1>4, <1>5, <1>7, OneJobMoves

LEMMA UploadSpillKeeps ==
  ASSUME CasInv, NEW j \in Jobs, UploadSpill(j)
  PROVE  CasInv'
<1>1. /\ Leave(j) /\ UNCHANGED <<heads, packs, old, gone>>
      /\ \/ /\ spills' = [spills EXCEPT ![j] = [blobs |-> staged[j].spill, at |-> clock]]
            /\ clock' = clock + 1
         \/ UNCHANGED <<spills, clock>>
  BY DEF UploadSpill
<1>2. /\ spills \in [Jobs -> Spills] /\ clock \in Nat \ {0}
      /\ [blobs |-> staged[j].spill, at |-> clock] \in Spills
  BY TheJob DEF ShelfTypes, Stages, Spills
<1>3. spills' \in [Jobs -> Spills] /\ clock' \in Nat \ {0}
  BY <1>1, <1>2
<1> QED
  BY <1>1, <1>3, LeaveKeeps

LEMMA DieKeeps ==
  ASSUME CasInv, NEW j \in Jobs, Die(j)
  PROVE  CasInv'
<1>1. Leave(j) /\ UNCHANGED <<heads, packs, spills, old, gone, clock>>
  BY DEF Die, shelf
<1>2. spills' \in [Jobs -> Spills] /\ clock' \in Nat \ {0}
  BY <1>1, TheJob DEF ShelfTypes
<1> QED
  BY <1>1, <1>2, LeaveKeeps

-----------------------------------------------------------------------------
(* The world                                                               *)

\* Containers grow old and expire; nothing else changes.
LEMMA ClockKeeps ==
  ASSUME CasInv, UNCHANGED <<heads, packs, spills, clock, pc, look, work, todo, store, staged, trace>>,
         old' \in SUBSET Jobs, gone' \in SUBSET old'
  PROVE  CasInv'
<1>1. ShelfTypes /\ LocalTypes /\ ShelfSolid /\ \A j \in Jobs : JobInv(j)
  BY CasTypes DEF CasInv
<1>2. CasTypeOK'
  BY <1>1, CasTypesKept DEF ShelfTypes, LocalTypes
<1>3. ShelfSolid'
  BY <1>1 DEF ShelfSolid
<1>4. ASSUME NEW j \in Jobs PROVE JobInv(j)'
  BY <1>1 DEF JobInv, Unwritten, OwnSolid, StagedSolid, SeedingOwed, RangeHeld
<1> QED
  BY <1>2, <1>3, <1>4 DEF CasInv

LEMMA AgeKeeps ==
  ASSUME CasInv, NEW c \in Jobs, Age(c)
  PROVE  CasInv'
<1>1. /\ old' = old \cup {c} /\ gone' = gone
      /\ UNCHANGED <<heads, packs, spills, clock, pc, look, work, todo, store, staged, trace>>
  BY DEF Age, local
<1>2. old' \in SUBSET Jobs /\ gone' \in SUBSET old'
  BY <1>1, CasTypes DEF CasInv, ShelfTypes
<1> QED
  BY <1>1, <1>2, ClockKeeps

LEMMA ExpireKeeps ==
  ASSUME CasInv, NEW c \in Jobs, Expire(c)
  PROVE  CasInv'
<1>1. /\ c \in old /\ old' = old /\ gone' = gone \cup {c}
      /\ UNCHANGED <<heads, packs, spills, clock, pc, look, work, todo, store, staged, trace>>
  BY DEF Expire, local
<1>2. old' \in SUBSET Jobs /\ gone' \in SUBSET old'
  BY <1>1, CasTypes DEF CasInv, ShelfTypes
<1> QED
  BY <1>1, <1>2, ClockKeeps

-----------------------------------------------------------------------------
LEMMA CasInductive == CasInv /\ [CasNext]_casVars => CasInv'
<1> SUFFICES ASSUME CasInv, [CasNext]_casVars PROVE CasInv'
  OBVIOUS
<1>1. CASE UNCHANGED casVars
  <2>1. /\ UNCHANGED <<heads, packs, spills, clock, pc, look, work, todo, store, staged, trace>>
        /\ old' = old /\ gone' = gone
    BY <1>1 DEF casVars
  <2>2. old \in SUBSET Jobs /\ gone \in SUBSET old
    BY CasTypes DEF CasInv, ShelfTypes
  <2>3. old' \in SUBSET Jobs /\ gone' \in SUBSET old'
    BY <2>1, <2>2
  <2> QED
    BY <2>1, <2>3, ClockKeeps
<1>2. CASE CasNext
  <2> SUFFICES ASSUME NEW j \in Jobs,
                      \/ Start(j) \/ LookUp(j) \/ Inherit(j) \/ Seed(j) \/ Absorb(j) \/ Abort(j)
                      \/ Build(j) \/ Publish(j)
                      \/ UploadContainer(j) \/ UploadManifest(j) \/ UploadSpill(j)
                      \/ Die(j) \/ Age(j) \/ Expire(j)
               PROVE  CasInv'
    BY <1>2 DEF CasNext
  <2>1. CASE Start(j) \/ LookUp(j) \/ Inherit(j) \/ Seed(j)
    BY <2>1, StartKeeps, LookUpKeeps, InheritKeeps, SeedKeeps
  <2>2. CASE Absorb(j) \/ Abort(j) \/ Build(j) \/ Publish(j)
    BY <2>2, AbsorbKeeps, AbortKeeps, BuildKeeps, PublishKeeps
  <2>3. CASE UploadContainer(j) \/ UploadManifest(j) \/ UploadSpill(j)
    BY <2>3, UploadContainerKeeps, UploadManifestKeeps, UploadSpillKeeps
  <2>4. CASE Die(j) \/ Age(j) \/ Expire(j)
    BY <2>4, DieKeeps, AgeKeeps, ExpireKeeps
  <2> QED
    BY <2>1, <2>2, <2>3, <2>4
<1> QED
  BY <1>1, <1>2

LEMMA CasInvHolds == CasSpec => []CasInv
BY CasInitially, CasInductive, PTL DEF CasSpec

\* The shelf and every job's state are what the steps take them for: containers
\* named by jobs, manifests whose full segments are segments, ranges in range.
THEOREM CasTypeCorrect == CasSpec => []CasTypeOK
<1>1. CasInv => CasTypeOK
  BY DEF CasInv
<1> QED
  BY <1>1, CasInvHolds, PTL

\* A manifest on the shelf names containers that landed, lists exactly what they
\* hold, and all of it lies in its own range: only the order of the upload steps
\* and the list carried from the restored head make it so.
THEOREM ManifestsAreTrue == CasSpec => []NamedBlobsArePacked
<1>1. CasInv => NamedBlobsArePacked
  BY DEF CasInv, ShelfSolid, Solid, NamedBlobsArePacked
<1> QED
  BY <1>1, CasInvHolds, PTL

\* Once a primary has restored, its store holds all its range's manifest names,
\* but for what expired or a restore that broke off, whatever the other jobs
\* uploaded meanwhile: what makes a full re-pack safe.
THEOREM OwnersKeepTheirRange == CasSpec => []OwnersHoldTheirRange
<1>1. CasInv => OwnersHoldTheirRange
  BY DEF CasInv, JobInv, RangeHeld, OwnersHoldTheirRange
<1> QED
  BY <1>1, CasInvHolds, PTL

-----------------------------------------------------------------------------
(* The blob bank: what a later manifest may not forget                     *)

\* The newest manifest of the range a job is primary for, and what the job takes
\* the spills of its lineage to be younger than.
Newest(j) == heads[<<Line[j], Shard[j]>>]
Since(j)  == IF work[j].own = None THEN 0 ELSE work[j].own.at

Early   == {"waiting", "looking", "inheriting", "seeding"}
Leaving == {"staged", "packed", "spilling"}

\* What a job read of the shelf it read in the past, and manifests get newer.
Dated(j) ==
  /\ trace[j].looked <= clock
  /\ trace[j].listed <= clock
  /\ work[j].own # None =>
       Shard[j] \in Ranges /\ Newest(j) # None /\ work[j].own.at <= Newest(j).at

\* A manifest older than a job's lookup is the one that the lookup found, unless it
\* failed.
Current(j) ==
  Shard[j] # None /\ Newest(j) # None /\ Newest(j).at < trace[j].looked =>
    work[j].unknown \/ work[j].own = Newest(j)

\* A spill that was there to be listed was absorbed or crowded out, and a warm
\* primary that was not broken off listed.
Waited(j) ==
  /\ trace[j].listed # 0 =>
       /\ pc[j] \notin Early
       /\ \A k \in Jobs :
            Line[k] = Line[j] /\ spills[k].at > Since(j) /\ spills[k].at < trace[j].listed =>
              \/ k \in trace[j].crowded
              \/ spills[k].blobs \cap Owned(Shard[j]) \subseteq store[j]
  /\ /\ pc[j] \in {"building", "built"} \cup Leaving
     /\ Shard[j] # None /\ work[j].warm /\ ~trace[j].broken
     => trace[j].listed # 0

\* A manifest that is staged names what the store has of the range, unless it is
\* banked already, and what the restored one names, unless it is a full re-pack.
Comprehensive(j) ==
  staged[j].pack # {} =>
    /\ pc[j] \in Leaving
    /\ ~work[j].unknown
    /\ staged[j].head.by = j
    /\ store[j] \cap Owned(Shard[j]) \subseteq staged[j].head.list \cup work[j].known
    /\ work[j].own # None =>
         \/ work[j].own.list \subseteq staged[j].head.list
         \/ /\ j \in staged[j].head.full
            /\ store[j] \cap Owned(Shard[j]) \subseteq staged[j].head.list

Minds(j)  == Dated(j) /\ Current(j) /\ Waited(j) /\ Comprehensive(j)
ShelfPast == \A lr \in Lines \X Ranges : heads[lr] # None => heads[lr].at <= clock
PastInv   == ShelfPast /\ \A j \in Jobs : Minds(j)

\* What is uploaded is younger than what was there.
Grows ==
  /\ clock <= clock'
  /\ \A lr \in Lines \X Ranges :
       heads'[lr] = heads[lr] \/ (heads'[lr] # None /\ heads'[lr].at = clock)
  /\ \A k \in Jobs : spills'[k] = spills[k] \/ spills'[k].at = clock

\* Types of what a job remembers and of what it compares with.
LEMMA Numbers ==
  ASSUME CasInv, NEW j \in Jobs
  PROVE  /\ clock \in Nat /\ clock # 0
         /\ trace[j].looked \in Nat /\ trace[j].listed \in Nat
         /\ work[j].own # None => work[j].own.at \in Nat
         /\ Since(j) \in Nat
         /\ \A lr \in Lines \X Ranges : heads[lr] # None => heads[lr].at \in Nat
         /\ \A k \in Jobs : spills[k].at \in Nat
         /\ Shard[j] # None => <<Line[j], Shard[j]>> \in Lines \X Ranges
<1>1. work[j] \in Works /\ trace[j] \in Traces /\ ShelfTypes
  BY TheJob
<1>2. work[j].own # None => work[j].own.at \in Nat
  BY <1>1 DEF Works, Manifests
<1>3. \A lr \in Lines \X Ranges : heads[lr] # None => heads[lr].at \in Nat
  BY <1>1 DEF ShelfTypes, Manifests
<1>4. trace[j].looked \in Nat /\ trace[j].listed \in Nat
  BY <1>1 DEF Traces
<1>5. clock \in Nat /\ clock # 0 /\ \A k \in Jobs : spills[k].at \in Nat
  BY <1>1 DEF ShelfTypes, Spills
<1>6. Shard[j] # None => <<Line[j], Shard[j]>> \in Lines \X Ranges
  BY CasAssumption, LapsAssumption DEF CasAssumption, LapsAssumption
<1> QED
  BY <1>2, <1>3, <1>4, <1>5, <1>6 DEF Since

\* A job that keeps what it has is not troubled by what others upload.
LEMMA OthersMind ==
  ASSUME CasInv, PastInv, Grows, clock' \in Nat, NEW j \in Jobs,
         work'[j] = work[j], store'[j] = store[j], staged'[j] = staged[j], trace'[j] = trace[j],
         pc'[j] = pc[j] \/ {pc[j], pc'[j]} \subseteq Leaving
  PROVE  Minds(j)'
<1>0. /\ clock \in Nat /\ trace[j].looked \in Nat /\ trace[j].listed \in Nat
      /\ work[j].own # None => work[j].own.at \in Nat
      /\ \A k \in Jobs : spills[k].at \in Nat
  BY Numbers
<1>1. Dated(j) /\ Current(j) /\ Waited(j) /\ Comprehensive(j)
  BY DEF PastInv, Minds
<1>2. Since(j)' = Since(j)
  BY DEF Since
<1>3. Shard[j] # None =>
        \/ Newest(j)' = Newest(j)
        \/ Newest(j)' # None /\ Newest(j)'.at = clock
  BY Numbers DEF Grows, Newest
<1>4. Shard[j] # None /\ Newest(j) # None => Newest(j).at <= clock /\ Newest(j).at \in Nat
  BY Numbers DEF PastInv, ShelfPast, Newest
<1>5. None \notin Ranges
  BY CasAssumption DEF CasAssumption
<1>6. Dated(j)'
  <2>1. trace[j].looked <= clock' /\ trace[j].listed <= clock'
    BY <1>0, <1>1 DEF Dated, Grows
  <2>2. ASSUME work[j].own # None
        PROVE  Shard[j] \in Ranges /\ Newest(j)' # None /\ work[j].own.at <= Newest(j)'.at
    <3>1. Shard[j] \in Ranges /\ Newest(j) # None /\ work[j].own.at <= Newest(j).at
      BY <1>1, <2>2 DEF Dated
    <3> QED
      <4>1. CASE Newest(j)' = Newest(j)
        BY <3>1, <4>1
      <4>2. CASE Newest(j)' # None /\ Newest(j)'.at = clock
        BY <1>0, <1>4, <1>5, <2>2, <3>1, <4>2
      <4> QED
        BY <1>3, <1>5, <3>1, <4>1, <4>2
  <2> QED
    BY <2>1, <2>2 DEF Dated
<1>7. Current(j)'
  <2> SUFFICES ASSUME Shard[j] # None, Newest(j)' # None, Newest(j)'.at < trace[j].looked
               PROVE  work[j].unknown \/ work[j].own = Newest(j)'
    BY DEF Current
  <2>1. Newest(j)' = Newest(j)
    BY <1>0, <1>1, <1>3 DEF Dated
  <2> QED
    BY <1>1, <2>1 DEF Current
<1>8. Waited(j)'
  <2>1. pc'[j] \in Early <=> pc[j] \in Early
    BY DEF Early, Leaving
  <2>2. pc'[j] \in {"building", "built"} \cup Leaving <=> pc[j] \in {"building", "built"} \cup Leaving
    OBVIOUS
  <2>3. ASSUME trace[j].listed # 0, NEW k \in Jobs, Line[k] = Line[j],
               spills'[k].at > Since(j), spills'[k].at < trace[j].listed
        PROVE  \/ k \in trace[j].crowded
               \/ spills'[k].blobs \cap Owned(Shard[j]) \subseteq store[j]
    <3>1. spills'[k] = spills[k]
      <4>1. spills'[k] = spills[k] \/ spills'[k].at = clock
        BY DEF Grows
      <4>2. trace[j].listed <= clock
        BY <1>1 DEF Dated
      <4> QED
        BY <1>0, <2>3, <4>1, <4>2
    <3> QED
      BY <1>1, <2>3, <3>1 DEF Waited
  <2>4. Owned(Shard[j])' = Owned(Shard[j])
    BY DEF Owned
  <2> QED
    BY <1>1, <1>2, <2>1, <2>2, <2>3, <2>4 DEF Waited
<1>9. Comprehensive(j)'
  BY <1>1 DEF Comprehensive, Owned, Leaving
<1> QED
  BY <1>6, <1>7, <1>8, <1>9 DEF Minds

LEMMA ShelfStaysPast ==
  ASSUME CasInv, PastInv, Grows, clock' \in Nat
  PROVE  ShelfPast'
<1> SUFFICES ASSUME NEW lr \in Lines \X Ranges, heads'[lr] # None
             PROVE  heads'[lr].at <= clock'
  BY DEF ShelfPast
<1>1. clock \in Nat /\ (heads[lr] # None => heads[lr].at \in Nat)
  BY CasTypes DEF CasInv, ShelfTypes, Manifests
<1> QED
  BY <1>1 DEF Grows, PastInv, ShelfPast

\* So it is enough to look at the job that moves.
LEMMA OneJobMinds ==
  ASSUME CasInv, PastInv, Grows, clock' \in Nat, NEW j \in Jobs, Moves(j), Minds(j)'
  PROVE  PastInv'
<1>1. ASSUME NEW k \in Jobs \ {j} PROVE Minds(k)'
  BY OthersMind DEF Moves
<1> QED
  BY <1>1, ShelfStaysPast DEF PastInv

\* Nothing is uploaded: the shelf grows by nothing.
LEMMA SameShelfGrows ==
  ASSUME CasInv, UNCHANGED <<heads, spills, clock>>
  PROVE  Grows /\ clock' \in Nat
BY CasTypes DEF CasInv, ShelfTypes, Grows

-----------------------------------------------------------------------------
LEMMA PastInitially == CasInit => PastInv
<1> SUFFICES ASSUME CasInit PROVE PastInv
  OBVIOUS
<1>1. /\ \A lr \in Lines \X Ranges : heads[lr] = None
      /\ clock = 1
      /\ \A j \in Jobs : /\ pc[j] = "waiting" /\ work[j] = Cold
                         /\ staged[j] = Unstaged /\ trace[j] = Untraced
  BY DEF CasInit
<1>2. ASSUME NEW j \in Jobs PROVE Minds(j)
  <2>1. work[j].own = None /\ trace[j].looked = 0 /\ trace[j].listed = 0 /\ staged[j].pack = {}
    BY <1>1 DEF Cold, Untraced, Unstaged
  <2>2. Shard[j] # None => Newest(j) = None
    BY <1>1, CasAssumption, LapsAssumption DEF CasAssumption, LapsAssumption, Newest
  <2> QED
    BY <1>1, <2>1, <2>2 DEF Minds, Dated, Current, Waited, Comprehensive, Leaving
<1> QED
  BY <1>1, <1>2 DEF PastInv, ShelfPast

LEMMA StartMinds ==
  ASSUME CasInv, PastInv, NEW j \in Jobs, Start(j)
  PROVE  PastInv'
<1>1. /\ pc[j] = "waiting" /\ pc' = [pc EXCEPT ![j] = "looking"]
      /\ UNCHANGED <<heads, packs, spills, old, gone, clock, look, work, todo, store, staged, trace>>
  BY DEF Start, Ready, shelf, local
<1>2. pc'[j] = "looking" /\ Moves(j)
  BY <1>1, TheJob DEF LocalTypes, Moves
<1>3. Minds(j)'
  BY <1>1, <1>2 DEF PastInv, Minds, Dated, Current, Waited, Comprehensive, Newest, Since, Early, Leaving, Owned
<1> QED
  BY <1>1, <1>2, <1>3, SameShelfGrows, OneJobMinds

\* What a lookup does to the job that looks, whatever it found.
LEMMA AfterLookupMinds ==
  ASSUME CasInv, PastInv, NEW j \in Jobs, pc[j] \in {"looking", "inheriting"},
         NEW w \in Works, AfterLookup(j, w), UNCHANGED <<shelf, store, staged>>,
         \A k \in Jobs \ {j} : trace'[k] = trace[k],
         trace'[j] \in Traces, trace'[j].listed = trace[j].listed, trace'[j].looked <= clock,
         w.own # None =>
           Shard[j] \in Ranges /\ Newest(j) # None /\ w.own.at <= Newest(j).at,
         Shard[j] # None /\ Newest(j) # None /\ Newest(j).at < trace'[j].looked =>
           w.unknown \/ w.own = Newest(j)
  PROVE  PastInv'
<1> DEFINE place == IF ~LastRange(j) THEN pc[j]
                    ELSE IF pc[j] = "looking" /\ Trunk[Line[j]] # None THEN "inheriting"
                    ELSE IF w.warm /\ Shard[j] # None THEN "seeding" ELSE "building"
<1>1. /\ UNCHANGED <<heads, packs, spills, clock, store, staged>>
      /\ pc \in [Jobs -> Places] /\ work \in [Jobs -> Works] /\ todo \in [Jobs -> Todos]
  BY TheJob DEF shelf, LocalTypes
<1>2. work' = [work EXCEPT ![j] = w] /\ pc' = [pc EXCEPT ![j] = place]
  BY <1>1 DEF AfterLookup
<1>3. \A k \in Jobs \ {j} : todo'[k] = todo[k]
  BY <1>1 DEF AfterLookup
<1>4. /\ place \in Early \cup {"building"}
      /\ place = "building" => ~(w.warm /\ Shard[j] # None)
  BY DEF Early
<1> HIDE DEF place
<1>5. work'[j] = w /\ pc'[j] = place /\ Moves(j)
  BY <1>1, <1>2, <1>3 DEF Moves
<1>6. trace[j].listed = 0 /\ staged[j].pack = {}
  BY DEF PastInv, Minds, Waited, Comprehensive, Early, Leaving
<1>7. Dated(j)'
  <2>1. clock \in Nat
    BY Numbers
  <2>2. trace'[j].looked <= clock' /\ trace'[j].listed <= clock'
    BY <1>1, <1>6, <2>1
  <2> QED
    BY <1>1, <1>5, <2>2 DEF Dated, Newest
<1>8. Current(j)'
  BY <1>1, <1>5 DEF Current, Newest
<1>9. Waited(j)' /\ Comprehensive(j)'
  BY <1>1, <1>4, <1>5, <1>6 DEF Waited, Comprehensive, Early, Leaving
<1>10. Minds(j)'
  BY <1>7, <1>8, <1>9 DEF Minds
<1> QED
  BY <1>1, <1>5, <1>10, SameShelfGrows, OneJobMinds

LEMMA LookUpMinds ==
  ASSUME CasInv, PastInv, NEW j \in Jobs, LookUp(j)
  PROVE  PastInv'
<1> DEFINE r == look[j]
           h == heads[<<Line[j], r>>]
           mine == Shard[j] = r
           w == work[j]
           found == [w EXCEPT !.own = IF mine THEN h ELSE @,
                              !.known = @ \cup h.list, !.warm = TRUE]
           lost == [w EXCEPT !.unknown = @ \/ mine]
<1>1. /\ pc[j] = "looking" /\ UNCHANGED <<shelf, store, staged>>
      /\ trace' = [trace EXCEPT ![j].looked = IF mine THEN clock ELSE @]
      /\ \/ h # None /\ AfterLookup(j, found)
         \/ h = None /\ AfterLookup(j, w)
         \/ AfterLookup(j, lost)
  BY DEF LookUp
<1>2. r \in Ranges /\ w \in Works /\ h \in Manifests \cup {None} /\ (mine => Newest(j) = h)
  BY TheJob, LapsAssumption DEF LapsAssumption, ShelfTypes, Newest
<1>3. /\ trace'[j] \in Traces /\ trace'[j].listed = trace[j].listed
      /\ trace'[j].looked = (IF mine THEN clock ELSE trace[j].looked)
      /\ \A k \in Jobs \ {j} : trace'[k] = trace[k]
  <2> DEFINE t == [trace[j] EXCEPT !.looked = IF mine THEN clock ELSE @]
  <2>1. trace \in [Jobs -> Traces] /\ clock \in Nat
    BY TheJob DEF LocalTypes, ShelfTypes
  <2>2. /\ t \in Traces /\ t.listed = trace[j].listed
        /\ t.looked = (IF mine THEN clock ELSE trace[j].looked)
    BY <2>1 DEF Traces
  <2>3. trace' = [trace EXCEPT ![j] = t]
    BY <1>1, <2>1
  <2> HIDE DEF t
  <2> QED
    BY <2>1, <2>2, <2>3
<1>4. /\ trace[j].looked <= clock
      /\ w.own # None => Shard[j] \in Ranges /\ Newest(j) # None /\ w.own.at <= Newest(j).at
      /\ Shard[j] # None /\ Newest(j) # None /\ Newest(j).at < trace[j].looked
           => w.unknown \/ w.own = Newest(j)
  BY DEF PastInv, Minds, Dated, Current
<1>5. trace'[j].looked <= clock
  <2>1. clock \in Nat
    BY Numbers
  <2> QED
    BY <1>3, <1>4, <2>1
<1>6. /\ Shard[j] # None /\ Newest(j) # None => Newest(j).at \in Nat
      /\ None \notin Ranges
  BY Numbers, CasAssumption DEF Newest, CasAssumption
<1> HIDE DEF h, r
<1>7. CASE h # None /\ AfterLookup(j, found)
  <2>1. /\ found \in Works /\ found.own = (IF mine THEN h ELSE w.own)
        /\ found.unknown = w.unknown
    BY <1>2, <1>7 DEF Works, Manifests
  <2>2. found.own # None =>
          Shard[j] \in Ranges /\ Newest(j) # None /\ found.own.at <= Newest(j).at
    BY <1>2, <1>4, <1>6, <1>7, <2>1
  <2>3. Shard[j] # None /\ Newest(j) # None /\ Newest(j).at < trace'[j].looked =>
          found.unknown \/ found.own = Newest(j)
    BY <1>2, <1>3, <1>4, <2>1
  <2> HIDE DEF found, w, mine
  <2> QED
    BY <1>1, <1>3, <1>5, <1>7, <2>1, <2>2, <2>3, AfterLookupMinds
<1>8. CASE h = None /\ AfterLookup(j, w)
  <2>1. Shard[j] # None /\ Newest(j) # None /\ Newest(j).at < trace'[j].looked =>
          w.unknown \/ w.own = Newest(j)
    BY <1>2, <1>3, <1>4, <1>8
  <2> HIDE DEF mine
  <2> QED
    BY <1>1, <1>2, <1>3, <1>4, <1>5, <1>8, <2>1, AfterLookupMinds
<1>9. CASE AfterLookup(j, lost)
  <2>1. lost \in Works /\ lost.own = w.own /\ lost.unknown = (w.unknown \/ mine)
    BY <1>2 DEF Works
  <2>2. Shard[j] # None /\ Newest(j) # None /\ Newest(j).at < trace'[j].looked =>
          lost.unknown \/ lost.own = Newest(j)
    BY <1>3, <1>4, <2>1
  <2> HIDE DEF lost, w, mine
  <2> QED
    BY <1>1, <1>3, <1>4, <1>5, <1>9, <2>1, <2>2, AfterLookupMinds
<1> QED
  BY <1>1, <1>7, <1>8, <1>9

LEMMA InheritMinds ==
  ASSUME CasInv, PastInv, NEW j \in Jobs, Inherit(j)
  PROVE  PastInv'
<1> DEFINE h == Mother(Line[j], look[j])
           w == work[j]
           v == IF h = None THEN w
                ELSE [w EXCEPT !.mother = IF Shard[j] = look[j] THEN h ELSE @,
                               !.known = @ \cup h.list, !.warm = TRUE]
<1>1. pc[j] = "inheriting" /\ AfterLookup(j, v) /\ UNCHANGED <<shelf, store, staged, trace>>
  BY DEF Inherit
<1>2. h \in Manifests \cup {None} /\ w \in Works /\ trace[j] \in Traces
  <2>1. look[j] \in Ranges /\ Line[j] \in Lines /\ Trunk[Line[j]] \in Lines \cup {None}
    BY TheJob, LapsAssumption DEF LapsAssumption
  <2> QED
    BY <2>1, TheJob DEF Mother, ShelfTypes
<1> HIDE DEF h
<1>3. v \in Works /\ v.own = w.own /\ v.unknown = w.unknown
  BY <1>2 DEF Works, Manifests
<1>4. /\ trace[j].looked <= clock
      /\ w.own # None => Shard[j] \in Ranges /\ Newest(j) # None /\ w.own.at <= Newest(j).at
      /\ Shard[j] # None /\ Newest(j) # None /\ Newest(j).at < trace[j].looked
           => w.unknown \/ w.own = Newest(j)
  BY DEF PastInv, Minds, Dated, Current
<1> HIDE DEF v, w
<1> QED
  BY <1>1, <1>2, <1>3, <1>4, AfterLookupMinds

\* A step between the lookups and publish that neither lists nor looks up.
LEMMA WorkMinds ==
  ASSUME CasInv, PastInv, NEW j \in Jobs, UNCHANGED <<heads, spills, clock>>, Moves(j),
         pc[j] \notin Leaving, pc'[j] \notin Leaving,
         UNCHANGED staged, store[j] \subseteq store'[j],
         work'[j].own = work[j].own, work'[j].warm = work[j].warm,
         work'[j].unknown = work[j].unknown,
         trace'[j].looked = trace[j].looked, trace'[j].listed = trace[j].listed,
         trace'[j].crowded = trace[j].crowded,
         trace'[j].broken \/ pc'[j] = pc[j]
           \/ (pc[j] \in {"building", "built"} /\ trace'[j].broken = trace[j].broken),
         pc'[j] = pc[j] => trace'[j].broken = trace[j].broken,
         pc'[j] \in Early => pc'[j] = pc[j]
  PROVE  PastInv'
<1>1. Dated(j) /\ Current(j) /\ Waited(j) /\ Comprehensive(j)
  BY DEF PastInv, Minds
<1>2. Newest(j)' = Newest(j) /\ Since(j)' = Since(j)
  BY DEF Newest, Since
<1>3. Dated(j)' /\ Current(j)'
  BY <1>1, <1>2 DEF Dated, Current
<1>4. Waited(j)'
  BY <1>1, <1>2 DEF Waited, Owned, Leaving, Early
<1>5. Comprehensive(j)'
  BY <1>1 DEF Comprehensive
<1>6. Minds(j)'
  BY <1>3, <1>4, <1>5 DEF Minds
<1> QED
  BY <1>6, SameShelfGrows, OneJobMinds

LEMMA SeedMinds ==
  ASSUME CasInv, PastInv, NEW j \in Jobs, Seed(j)
  PROVE  PastInv'
<1>1. pc[j] = "seeding" /\ UNCHANGED <<heads, spills, clock, pc, staged>>
  BY DEF Seed, shelf
<1> QED
  BY <1>1, SeedDoes, WorkMinds DEF Leaving

LEMMA AbsorbMinds ==
  ASSUME CasInv, PastInv, NEW j \in Jobs, Absorb(j)
  PROVE  PastInv'
<1> DEFINE taken == Owned(Shard[j]) \cap UNION {spills[k].blobs : k \in Recent(j)}
           left == Awaiting(j) \ Recent(j)
<1>1. /\ pc[j] = "seeding"
      /\ store' = [store EXCEPT ![j] = @ \cup taken]
      /\ trace' = [trace EXCEPT ![j].listed = clock, ![j].crowded = left]
      /\ pc' = [pc EXCEPT ![j] = "building"]
      /\ UNCHANGED <<heads, packs, spills, old, gone, clock, look, work, todo, staged>>
  BY DEF Absorb, shelf
<1>2. store \in [Jobs -> SUBSET Blobs] /\ trace \in [Jobs -> Traces] /\ pc \in [Jobs -> Places]
  BY TheJob DEF LocalTypes
<1>3. \A k \in Jobs : Line[k] = Line[j] /\ spills[k].at > Since(j) =>
        k \in left \/ spills[k].blobs \cap Owned(Shard[j]) \subseteq taken
  BY DEF Awaiting, Since
<1> HIDE DEF taken, left
<1>4. /\ pc'[j] = "building" /\ store'[j] = store[j] \cup taken
      /\ trace'[j].listed = clock /\ trace'[j].crowded = left
      /\ trace'[j].looked = trace[j].looked
  BY <1>1, <1>2 DEF Traces
<1>5. Moves(j)
  BY <1>1, <1>2 DEF Moves
<1>6. Newest(j)' = Newest(j) /\ Since(j)' = Since(j)
  BY <1>1 DEF Newest, Since
<1>7. Dated(j) /\ Current(j) /\ Comprehensive(j)
  BY DEF PastInv, Minds
<1>8. Dated(j)' /\ Current(j)'
  <2>1. clock \in Nat
    BY Numbers
  <2> QED
    BY <1>1, <1>4, <1>6, <1>7, <2>1 DEF Dated, Current
<1>9. Waited(j)'
  <2>1. Owned(Shard[j])' = Owned(Shard[j])
    BY DEF Owned
  <2> QED
    BY <1>1, <1>3, <1>4, <1>6, <2>1, Numbers DEF Waited, Early
<1>10. Comprehensive(j)'
  BY <1>1, <1>7 DEF Comprehensive, Leaving
<1>11. Minds(j)'
  BY <1>8, <1>9, <1>10 DEF Minds
<1> QED
  BY <1>1, <1>5, <1>11, SameShelfGrows, OneJobMinds

LEMMA AbortMinds ==
  ASSUME CasInv, PastInv, NEW j \in Jobs, Abort(j)
  PROVE  PastInv'
<1>1. /\ pc[j] \in {"looking", "inheriting", "seeding"} /\ pc' = [pc EXCEPT ![j] = "built"]
      /\ trace' = [trace EXCEPT ![j].broken = TRUE]
      /\ UNCHANGED <<heads, packs, spills, clock, look, work, todo, store, staged>>
  BY DEF Abort, shelf
<1>2. trace \in [Jobs -> Traces] /\ pc \in [Jobs -> Places]
  BY TheJob DEF LocalTypes
<1>3. /\ pc'[j] = "built" /\ trace'[j].broken = TRUE /\ trace'[j].looked = trace[j].looked
      /\ trace'[j].listed = trace[j].listed /\ trace'[j].crowded = trace[j].crowded
  BY <1>1, <1>2 DEF Traces
<1>4. Moves(j)
  BY <1>1, <1>2 DEF Moves
<1> QED
  BY <1>1, <1>3, <1>4, WorkMinds DEF Leaving, Early

LEMMA BuildMinds ==
  ASSUME CasInv, PastInv, NEW j \in Jobs, Build(j)
  PROVE  PastInv'
<1>1. PICK new \in SUBSET Makes[j] : store' = [store EXCEPT ![j] = @ \cup new]
  BY DEF Build
<1>2. /\ pc[j] = "building" /\ pc' = [pc EXCEPT ![j] = "built"]
      /\ UNCHANGED <<heads, packs, spills, clock, work, todo, staged, trace>>
  BY DEF Build, shelf
<1>3. store \in [Jobs -> SUBSET Blobs] /\ pc \in [Jobs -> Places]
  BY TheJob DEF LocalTypes
<1>4. pc'[j] = "built" /\ store[j] \subseteq store'[j] /\ Moves(j)
  BY <1>1, <1>2, <1>3 DEF Moves
<1> QED
  BY <1>2, <1>4, WorkMinds DEF Leaving, Early

\* What publish stages forgets nothing that it should name.
LEMMA StagedPackIsComprehensive ==
  ASSUME CasInv, NEW j \in Jobs, NEW compact \in BOOLEAN, pc[j] = "built",
         StagedPack(j, compact).pack # {}
  PROVE  LET m == StagedPack(j, compact).head
         IN /\ ~work[j].unknown
            /\ m.by = j
            /\ store[j] \cap Owned(Shard[j]) \subseteq m.list \cup work[j].known
            /\ work[j].own # None =>
                 \/ work[j].own.list \subseteq m.list
                 \/ j \in m.full /\ store[j] \cap Owned(Shard[j]) \subseteq m.list
<1> DEFINE r == Primary(j)
           head == work[j].own
           all == PackSegments(store[j], {r}, {})
           delta == PackSegments(store[j], {r}, work[j].known)
           first == [Unstaged EXCEPT !.pack = all, !.head = Rebased(j, all, TRUE)]
           m == IF head = None THEN Rebased(j, delta, FALSE) ELSE Chained(j, head, delta)
           more == [Unstaged EXCEPT !.pack = delta, !.head = m]
<1>1. \/ StagedPack(j, compact) = Unstaged
      \/ r # None /\ StagedPack(j, compact) = first
      \/ r # None /\ StagedPack(j, compact) = more
  BY DEF StagedPack
<1>2. StagedPack(j, compact) # Unstaged
  BY Vacant
<1>3. ASSUME r # None
      PROVE  /\ ~work[j].unknown
             /\ all = store[j] \cap Owned(Shard[j])
             /\ delta = (store[j] \cap Owned(Shard[j])) \ work[j].known
  BY <1>3, TheJob DEF Primary, PackSegments, Owned
<1>4. /\ Rebased(j, all, TRUE).by = j /\ Rebased(j, all, TRUE).list = all
      /\ j \in Rebased(j, all, TRUE).full
  BY DEF Rebased
<1>5. /\ m.by = j
      /\ delta \subseteq m.list
      /\ head # None => head.list \subseteq m.list
  BY DEF Rebased, Chained
<1>6. first.head = Rebased(j, all, TRUE) /\ more.head = m
  BY DEF Unstaged
<1> HIDE DEF r, all, delta, m, first, more
<1>7. CASE r # None /\ StagedPack(j, compact) = first
  BY <1>3, <1>4, <1>6, <1>7
<1>8. CASE r # None /\ StagedPack(j, compact) = more
  BY <1>3, <1>5, <1>6, <1>8 DEF head
<1> QED
  BY <1>1, <1>2, <1>7, <1>8

LEMMA PublishMinds ==
  ASSUME CasInv, PastInv, NEW j \in Jobs, Publish(j)
  PROVE  PastInv'
<1> DEFINE spill == StagedSpill(j)
<1>1. PICK compact \in BOOLEAN :
        /\ compact => MayCompact(j)
        /\ staged' = [staged EXCEPT ![j] = [StagedPack(j, compact) EXCEPT !.spill = spill]]
  BY DEF Publish
<1>2. /\ pc[j] = "built" /\ pc' = [pc EXCEPT ![j] = "staged"]
      /\ UNCHANGED <<heads, packs, spills, clock, work, todo, store, trace>>
  BY DEF Publish, shelf
<1> DEFINE new == StagedPack(j, compact)
<1>3. new \in Stages
  BY <1>1, <1>2, StagedPackIsStageable DEF MayCompact
<1>4. staged \in [Jobs -> Stages] /\ pc \in [Jobs -> Places]
  BY TheJob DEF LocalTypes
<1>5. new.pack # {} =>
        /\ ~work[j].unknown
        /\ new.head.by = j
        /\ store[j] \cap Owned(Shard[j]) \subseteq new.head.list \cup work[j].known
        /\ work[j].own # None =>
             \/ work[j].own.list \subseteq new.head.list
             \/ j \in new.head.full /\ store[j] \cap Owned(Shard[j]) \subseteq new.head.list
  BY <1>2, StagedPackIsComprehensive
<1> HIDE DEF new, spill
<1>6. staged'[j].pack = new.pack /\ staged'[j].head = new.head /\ pc'[j] = "staged"
  BY <1>1, <1>2, <1>3, <1>4 DEF Stages, new
<1>7. Moves(j)
  BY <1>1, <1>2, <1>4 DEF Moves
<1>8. Dated(j) /\ Current(j) /\ Waited(j)
  BY DEF PastInv, Minds
<1>9. Newest(j)' = Newest(j) /\ Since(j)' = Since(j) /\ Owned(Shard[j])' = Owned(Shard[j])
  BY <1>2 DEF Newest, Since, Owned
<1>10. Dated(j)' /\ Current(j)' /\ Waited(j)'
  BY <1>2, <1>6, <1>8, <1>9 DEF Dated, Current, Waited, Early, Leaving
<1>11. Comprehensive(j)'
  BY <1>2, <1>5, <1>6, <1>9 DEF Comprehensive, Leaving
<1>12. Minds(j)'
  BY <1>10, <1>11 DEF Minds
<1> QED
  BY <1>2, <1>7, <1>12, SameShelfGrows, OneJobMinds

LEMMA UploadContainerMinds ==
  ASSUME CasInv, PastInv, NEW j \in Jobs, UploadContainer(j)
  PROVE  PastInv'
<1>1. /\ pc[j] = "staged" /\ UNCHANGED <<heads, spills, work, store, staged, trace>>
      /\ \/ clock' = clock + 1 /\ pc' = [pc EXCEPT ![j] = "packed"]
         \/ clock' = clock /\ pc' = [pc EXCEPT ![j] = "spilling"]
  BY DEF UploadContainer, local
<1>2. pc \in [Jobs -> Places] /\ clock \in Nat
  BY TheJob DEF LocalTypes, ShelfTypes
<1>3. Grows /\ clock' \in Nat
  BY <1>1, <1>2 DEF Grows
<1>4. ASSUME NEW k \in Jobs PROVE pc'[k] = pc[k] \/ {pc[k], pc'[k]} \subseteq Leaving
  BY <1>1, <1>2 DEF Leaving
<1>5. ASSUME NEW k \in Jobs PROVE Minds(k)'
  BY <1>1, <1>3, <1>4, OthersMind
<1> QED
  BY <1>3, <1>5, ShelfStaysPast DEF PastInv

LEMMA UploadManifestGrows ==
  ASSUME CasInv, NEW j \in Jobs, UploadManifest(j)
  PROVE  Grows /\ clock' \in Nat
<1> DEFINE m == [staged[j].head EXCEPT !.at = clock]
           line == <<Line[j], Shard[j]>>
<1>1. /\ pc[j] = "packed" /\ UNCHANGED spills
      /\ \/ heads' = [heads EXCEPT ![line] = m] /\ clock' = clock + 1
         \/ UNCHANGED <<heads, clock>>
  BY DEF UploadManifest
<1>2. /\ heads \in [Lines \X Ranges -> Manifests \cup {None}] /\ clock \in Nat
      /\ staged[j].head \in Manifests
  BY <1>1, TheJob DEF ShelfTypes, StagedSolid
<1>3. m.at = clock /\ m # None
  <2>1. m.at = clock /\ m \in Manifests
    BY <1>2 DEF Manifests
  <2> QED
    BY <2>1, CasAssumption DEF CasAssumption
<1> HIDE DEF m, line
<1>4. \A lr \in Lines \X Ranges : heads'[lr] = heads[lr] \/ heads'[lr] = m
  BY <1>1, <1>2
<1> QED
  BY <1>1, <1>2, <1>3, <1>4 DEF Grows

LEMMA UploadManifestMinds ==
  ASSUME CasInv, PastInv, NEW j \in Jobs, UploadManifest(j)
  PROVE  PastInv'
<1>1. /\ pc[j] = "packed" /\ pc' = [pc EXCEPT ![j] = "spilling"]
      /\ UNCHANGED <<work, store, staged, trace>>
  BY DEF UploadManifest, local
<1>2. pc \in [Jobs -> Places]
  BY TheJob DEF LocalTypes
<1>3. Grows /\ clock' \in Nat
  BY UploadManifestGrows
<1>4. ASSUME NEW k \in Jobs PROVE pc'[k] = pc[k] \/ {pc[k], pc'[k]} \subseteq Leaving
  BY <1>1, <1>2 DEF Leaving
<1>5. ASSUME NEW k \in Jobs PROVE Minds(k)'
  BY <1>1, <1>3, <1>4, OthersMind
<1> QED
  BY <1>3, <1>5, ShelfStaysPast DEF PastInv

\* A job that ends has nothing in mind.
LEMMA LeaveMinds ==
  ASSUME CasInv, PastInv, NEW j \in Jobs, Leave(j), UNCHANGED <<heads, packs>>, Grows, clock' \in Nat
  PROVE  PastInv'
<1>1. /\ pc \in [Jobs -> Places] /\ work \in [Jobs -> Works]
      /\ todo \in [Jobs -> Todos] /\ store \in [Jobs -> SUBSET Blobs]
      /\ staged \in [Jobs -> Stages] /\ trace \in [Jobs -> Traces]
  BY TheJob DEF LocalTypes
<1>2. Moves(j)
  BY <1>1 DEF Moves, Leave
<1>3. /\ pc'[j] = "over" /\ work'[j] = Cold /\ staged'[j] = Unstaged /\ trace'[j] = Untraced
  BY <1>1 DEF Leave
<1>4. Cold.own = None /\ Untraced.looked = 0 /\ Untraced.listed = 0 /\ Unstaged.pack = {}
  BY DEF Cold, Untraced, Unstaged
<1>5. Shard[j] # None /\ Newest(j)' # None => Newest(j)'.at \in Nat
  BY Numbers DEF Newest
<1>6. Minds(j)'
  BY <1>3, <1>4, <1>5 DEF Minds, Dated, Current, Waited, Comprehensive, Leaving
<1> QED
  BY <1>2, <1>6, OneJobMinds

LEMMA UploadSpillMinds ==
  ASSUME CasInv, PastInv, NEW j \in Jobs, UploadSpill(j)
  PROVE  PastInv'
<1>1. /\ Leave(j) /\ UNCHANGED <<heads, packs>>
      /\ \/ /\ spills' = [spills EXCEPT ![j] = [blobs |-> staged[j].spill, at |-> clock]]
            /\ clock' = clock + 1
         \/ UNCHANGED <<spills, clock>>
  BY DEF UploadSpill
<1>2. spills \in [Jobs -> Spills] /\ clock \in Nat
  BY TheJob DEF ShelfTypes
<1>3. Grows /\ clock' \in Nat
  BY <1>1, <1>2 DEF Grows
<1> QED
  BY <1>1, <1>3, LeaveMinds

LEMMA PastInductive == CasInv /\ PastInv /\ [CasNext]_casVars => PastInv'
<1> SUFFICES ASSUME CasInv, PastInv, [CasNext]_casVars PROVE PastInv'
  OBVIOUS
<1>1. ASSUME UNCHANGED <<heads, spills, clock, pc, work, store, staged, trace>> PROVE PastInv'
  <2>1. Grows /\ clock' \in Nat
    BY <1>1, SameShelfGrows
  <2>2. ASSUME NEW k \in Jobs PROVE Minds(k)'
    BY <1>1, <2>1, OthersMind
  <2> QED
    BY <2>1, <2>2, ShelfStaysPast DEF PastInv
<1>2. CASE UNCHANGED casVars
  BY <1>1, <1>2 DEF casVars
<1>3. CASE CasNext
  <2> SUFFICES ASSUME NEW j \in Jobs,
                      \/ Start(j) \/ LookUp(j) \/ Inherit(j) \/ Seed(j) \/ Absorb(j) \/ Abort(j)
                      \/ Build(j) \/ Publish(j)
                      \/ UploadContainer(j) \/ UploadManifest(j) \/ UploadSpill(j)
                      \/ Die(j) \/ Age(j) \/ Expire(j)
               PROVE  PastInv'
    BY <1>3 DEF CasNext
  <2>1. CASE Start(j) \/ LookUp(j) \/ Inherit(j) \/ Seed(j)
    BY <2>1, StartMinds, LookUpMinds, InheritMinds, SeedMinds
  <2>2. CASE Absorb(j) \/ Abort(j) \/ Build(j) \/ Publish(j)
    BY <2>2, AbsorbMinds, AbortMinds, BuildMinds, PublishMinds
  <2>3. CASE UploadContainer(j) \/ UploadManifest(j) \/ UploadSpill(j)
    BY <2>3, UploadContainerMinds, UploadManifestMinds, UploadSpillMinds
  <2>4. CASE Die(j)
    BY <2>4, SameShelfGrows, LeaveMinds DEF Die, shelf
  <2>5. CASE Age(j) \/ Expire(j)
    BY <1>1, <2>5 DEF Age, Expire, local
  <2> QED
    BY <2>1, <2>2, <2>3, <2>4, <2>5
<1> QED
  BY <1>2, <1>3

LEMMA PastInvHolds == CasSpec => []PastInv
BY PastInitially, PastInductive, CasInvHolds, PTL DEF CasSpec

\* The one step that changes a manifest on the shelf.
LEMMA ManifestsChange ==
  ASSUME CasInv, [CasNext]_casVars, NEW lr \in Lines \X Ranges, heads'[lr] # heads[lr]
  PROVE  \E j \in Jobs :
           /\ lr = <<Line[j], Shard[j]>> /\ Shard[j] \in Ranges
           /\ pc[j] = "packed" /\ staged[j].pack # {}
           /\ heads'[lr] # None /\ heads'[lr].by = staged[j].head.by
           /\ heads'[lr].list = staged[j].head.list /\ heads'[lr].full = staged[j].head.full
<1>1. PICK j \in Jobs : UploadManifest(j)
  BY DEF CasNext, casVars, Start, LookUp, Inherit, Seed, Absorb, Abort, Build, Publish,
         UploadContainer, UploadSpill, Die, Age, Expire, shelf
<1> DEFINE m == [staged[j].head EXCEPT !.at = clock]
           line == <<Line[j], Shard[j]>>
<1>2. /\ pc[j] = "packed"
      /\ heads' = [heads EXCEPT ![line] = m] \/ UNCHANGED heads
  BY <1>1 DEF UploadManifest
<1>3. /\ heads \in [Lines \X Ranges -> Manifests \cup {None}] /\ clock \in Nat
      /\ staged[j].pack # {} /\ staged[j].head \in Manifests /\ Shard[j] \in Ranges
  BY <1>2, TheJob DEF ShelfTypes, StagedSolid
<1>4. /\ m \in Manifests /\ m.by = staged[j].head.by /\ m.list = staged[j].head.list
      /\ m.full = staged[j].head.full
  BY <1>3 DEF Manifests
<1> HIDE DEF m, line
<1>5. lr = line /\ heads'[lr] = m
  BY <1>2, <1>3
<1> QED
  BY <1>2, <1>3, <1>4, <1>5, CasAssumption DEF line, CasAssumption

\* Newest wins, and what wins forgets nothing: a manifest older than the author's
\* lookup is the one it chained to or, in a re-pack, one whose blobs it held.
THEOREM HistoryKept == CasSpec => HistoryIsKept
<1> DEFINE Kept(lr) ==
      heads[lr] # None /\ heads'[lr] # heads[lr] =>
         LET j == heads'[lr].by
         IN \A b \in heads[lr].list \ heads'[lr].list :
              \/ heads[lr].at >= trace[j].looked
              \/ j \in heads'[lr].full /\ (trace[j].broken \/ b \in trace[j].missed)
<1>1. ASSUME CasInv, PastInv, [CasNext]_casVars, NEW lr \in Lines \X Ranges
      PROVE  Kept(lr)
  <2> SUFFICES ASSUME heads[lr] # None, heads'[lr] # heads[lr]
               PROVE  LET j == heads'[lr].by
                      IN \A b \in heads[lr].list \ heads'[lr].list :
                           \/ heads[lr].at >= trace[j].looked
                           \/ j \in heads'[lr].full /\ (trace[j].broken \/ b \in trace[j].missed)
    OBVIOUS
  <2>1. PICK j \in Jobs :
           /\ lr = <<Line[j], Shard[j]>> /\ Shard[j] \in Ranges
           /\ pc[j] = "packed" /\ staged[j].pack # {}
           /\ heads'[lr] # None /\ heads'[lr].by = staged[j].head.by
           /\ heads'[lr].list = staged[j].head.list /\ heads'[lr].full = staged[j].head.full
    BY <1>1, ManifestsChange
  <2>2. Current(j) /\ Comprehensive(j)
    BY <1>1 DEF PastInv, Minds
  <2>3. heads'[lr].by = j /\ ~work[j].unknown /\ Newest(j) = heads[lr]
    BY <2>1, <2>2 DEF Comprehensive, Newest
  <2> SUFFICES ASSUME NEW b \in heads[lr].list \ heads'[lr].list, ~(heads[lr].at >= trace[j].looked)
               PROVE  j \in heads'[lr].full /\ (trace[j].broken \/ b \in trace[j].missed)
    BY <2>3
  <2>4. heads[lr].at < trace[j].looked /\ Shard[j] # None
    BY <1>1, <2>1, Numbers, CasAssumption DEF CasAssumption
  <2>5. work[j].own = heads[lr]
    BY <2>2, <2>3, <2>4 DEF Current
  <2>6. j \in heads'[lr].full /\ store[j] \cap Owned(Shard[j]) \subseteq heads'[lr].list
    BY <2>1, <2>2, <2>5 DEF Comprehensive
  <2>7. heads[lr].list \subseteq Owned(Shard[j])
    BY <1>1, <2>1 DEF CasInv, ShelfSolid, Solid
  <2>8. trace[j].broken \/ heads[lr].list \subseteq store[j] \cup trace[j].missed
    BY <1>1, <2>1, <2>5, TheJob DEF RangeHeld
  <2> QED
    BY <2>6, <2>7, <2>8
<1>2. CasInv /\ PastInv /\ [CasNext]_casVars => [\A lr \in Lines \X Ranges : Kept(lr)]_casVars
  BY <1>1
<1>3. (\A lr \in Lines \X Ranges : Kept(lr)) =>
        \A lr \in Lines \X Ranges :
          heads[lr] # None /\ heads'[lr] # heads[lr] =>
            LET j == heads'[lr].by
            IN \A b \in heads[lr].list \ heads'[lr].list :
                 \/ heads[lr].at >= trace[j].looked
                 \/ j \in heads'[lr].full /\ (trace[j].broken \/ b \in trace[j].missed)
  OBVIOUS
<1> QED
  BY <1>2, CasInvHolds, PastInvHolds, PTL DEF CasSpec, HistoryIsKept

\* A spill that waits reaches the next manifest of its range, through the owner's
\* store: it was listed with the others, is in the store the manifest was packed
\* from, and is left out only if it is banked already.
THEOREM SpillsGoHome == CasSpec => WaitingSpillsAreAbsorbed
<1> DEFINE Absorbed(lr) ==
      heads'[lr] # heads[lr] =>
         LET j == heads'[lr].by
             since == IF heads[lr] = None THEN 0 ELSE heads[lr].at
         IN \A k \in Jobs :
              Line[k] = lr[1] /\ spills[k].at > since =>
                \/ spills[k].blobs \cap Owned(lr[2]) \subseteq heads'[lr].list \cup work[j].known
                \/ trace[j].listed # 0 /\ spills[k].at >= trace[j].listed
                \/ k \in trace[j].crowded
                \/ trace[j].broken \/ ~work[j].warm
<1>1. ASSUME CasInv, PastInv, [CasNext]_casVars, NEW lr \in Lines \X Ranges
      PROVE  Absorbed(lr)
  <2> DEFINE since == IF heads[lr] = None THEN 0 ELSE heads[lr].at
  <2> SUFFICES ASSUME heads'[lr] # heads[lr]
               PROVE  LET j == heads'[lr].by
                      IN \A k \in Jobs :
                           Line[k] = lr[1] /\ spills[k].at > since =>
                             \/ spills[k].blobs \cap Owned(lr[2])
                                  \subseteq heads'[lr].list \cup work[j].known
                             \/ trace[j].listed # 0 /\ spills[k].at >= trace[j].listed
                             \/ k \in trace[j].crowded
                             \/ trace[j].broken \/ ~work[j].warm
    OBVIOUS
  <2>1. PICK j \in Jobs :
           /\ lr = <<Line[j], Shard[j]>> /\ Shard[j] \in Ranges
           /\ pc[j] = "packed" /\ staged[j].pack # {}
           /\ heads'[lr] # None /\ heads'[lr].by = staged[j].head.by
           /\ heads'[lr].list = staged[j].head.list /\ heads'[lr].full = staged[j].head.full
    BY <1>1, ManifestsChange
  <2>2. Dated(j) /\ Waited(j) /\ Comprehensive(j)
    BY <1>1 DEF PastInv, Minds
  <2>3. heads'[lr].by = j /\ Newest(j) = heads[lr] /\ lr[1] = Line[j] /\ lr[2] = Shard[j]
    BY <2>1, <2>2 DEF Comprehensive, Newest
  <2> SUFFICES ASSUME NEW k \in Jobs, Line[k] = Line[j], spills[k].at > since,
                      ~(trace[j].listed # 0 /\ spills[k].at >= trace[j].listed),
                      k \notin trace[j].crowded, ~trace[j].broken, work[j].warm
               PROVE  spills[k].blobs \cap Owned(Shard[j]) \subseteq heads'[lr].list \cup work[j].known
    BY <2>3
  <2>4. Shard[j] # None
    BY <2>1, CasAssumption DEF CasAssumption
  <2>5. trace[j].listed # 0
    BY <2>1, <2>2, <2>4 DEF Waited, Leaving
  <2>5a. spills[k].at \in Nat /\ trace[j].listed \in Nat
    BY <1>1, Numbers
  <2>6. spills[k].at < trace[j].listed
    BY <2>5, <2>5a
  <2>7. spills[k].at > Since(j)
    BY <1>1, <2>1, <2>2, <2>3, Numbers DEF Dated, Since
  <2>8. spills[k].blobs \cap Owned(Shard[j]) \subseteq store[j]
    BY <2>2, <2>5, <2>6, <2>7 DEF Waited
  <2> QED
    BY <2>1, <2>2, <2>8 DEF Comprehensive
<1>2. CasInv /\ PastInv /\ [CasNext]_casVars => [\A lr \in Lines \X Ranges : Absorbed(lr)]_casVars
  BY <1>1
<1> QED
  BY <1>2, CasInvHolds, PastInvHolds, PTL DEF CasSpec, WaitingSpillsAreAbsorbed

-----------------------------------------------------------------------------
(* The action-cache bank                                                   *)

Stations  == {"waiting", "inheriting", "listing", "planning", "laying", "building",
              "built", "staged", "packed", "over"}
Desks     == [own : Rolls \cup {None}, head : Rolls \cup {None}, sources : SUBSET Sourced,
              known : SUBSET Pairs, plan : SUBSET [rank : {0, 1}, job : Jobs],
              unknown : BOOLEAN]
Parcels   == [pack : SUBSET Pairs, roll : Rolls \cup {None}]
Crates    == [rows : SUBSET Pairs, at : Nat]
RowTables == [Paths -> Results \cup {None}]

RowShelfTypes ==
  /\ rolls \in [Lines \X Roles -> Rolls \cup {None}]
  /\ crates \in [Jobs -> Crates]
  /\ lapsed \in SUBSET Jobs
  /\ uploads \in Nat \ {0}
RowLocalTypes ==
  /\ at \in [Jobs -> Stations]
  /\ desk \in [Jobs -> Desks]
  /\ rows \in [Jobs -> RowTables]
  /\ parcel \in [Jobs -> Parcels]

LEMMA RowTypes == RowTypeOK <=> RowShelfTypes /\ RowLocalTypes
BY DEF RowTypeOK, RowShelfTypes, RowLocalTypes, Stations, Desks, Parcels, Crates, RowTables

LEMMA RowTypesKept == RowShelfTypes' /\ RowLocalTypes' => RowTypeOK'
BY DEF RowTypeOK, RowShelfTypes, RowLocalTypes, Stations, Desks, Parcels, Crates, RowTables

LEMMA Blanks ==
  /\ Clear \in Desks /\ Clear.own = None /\ Clear.head = None /\ Clear.sources = {}
  /\ Clear.known = {}
  /\ NoParcel \in Parcels /\ NoParcel.pack = {} /\ NoParcel.roll = None
  /\ Uncrated \in Crates /\ Uncrated.rows = {} /\ Uncrated.at = 0
  /\ NoRows \in RowTables
BY DEF Clear, NoParcel, Uncrated, NoRows, Desks, Parcels, Crates, RowTables

\* What is left of the containers of segments of one role, laid by run.
Names(held, c, p) == \E v \in Results : <<p, v>> \in held[c].rows
LastPairs(held, segs) ==
  {pr \in Pairs : \E c \in segs :
     /\ pr \in held[c].rows
     /\ \A d \in segs : Names(held, d, pr[1]) => ~(Run[c] < Run[d])}

\* What a manifest of lineage l and role r promises, given what the containers hold.
Lasting(m, l, r, held) ==
  /\ Line[m.by] = l /\ Role[m.by] = r
  /\ \A c \in m.segs : Line[c] = l /\ Role[c] = r /\ held[c].rows # {}
  /\ \A c \in m.segs : \A pr \in held[c].rows : \E kr \in m.list : kr[1] = pr[1]
  /\ (\A c, d \in m.segs : Run[c] < Run[d] => held[c].at < held[d].at) =>
        m.list = LastPairs(held, m.segs)

LEMMA RunsAreNumbers ==
  /\ \A c \in Jobs : Run[c] \in Nat /\ Role[c] \in Roles /\ Line[c] \in Lines
  /\ \A c \in Jobs : Rank[Role[c]] \in Nat
BY RowAssumption, LapsAssumption DEF RowAssumption, LapsAssumption

\* Of one role, what is laid later is what ran later.
LEMMA RunsDecide ==
  ASSUME NEW c \in Jobs, NEW d \in Jobs, Role[c] = Role[d]
  PROVE  Before([rank |-> 1, job |-> c], [rank |-> 1, job |-> d]) <=> Run[c] < Run[d]
<1>1. Run[c] \in Nat /\ Run[d] \in Nat /\ Rank[Role[c]] \in Nat
  BY RunsAreNumbers
<1>2. RoleKey(Role[c])[1] \in {0, 1} /\ RoleKey(Role[c])[2] \in Nat
  BY <1>1 DEF RoleKey
<1> QED
  BY <1>1, <1>2 DEF Before

\* The order in which a restore lays the containers of one manifest is by run.
LEMMA LaidByRun ==
  ASSUME NEW m \in Rolls, NEW r, \A c \in m.segs : Role[c] = r
  PROVE  LastWord(Steps([rank |-> 1, roll |-> m])) = LastPairs(crates, m.segs)
<1> DEFINE steps == Steps([rank |-> 1, roll |-> m])
           Step(c) == [rank |-> 1, job |-> c]
<1>1. m.segs \in SUBSET Jobs
  BY DEF Rolls
<1>2. steps = {Step(c) : c \in m.segs}
  BY DEF Steps
<1>3. \A c \in m.segs : Step(c).job = c
  OBVIOUS
<1>4. \A c, d \in m.segs : Before(Step(c), Step(d)) <=> Run[c] < Run[d]
  BY <1>1, RunsDecide
<1> HIDE DEF steps, Step
<1>5. ASSUME NEW pr \in Pairs
      PROVE  pr \in LastWord(steps) <=> pr \in LastPairs(crates, m.segs)
  <2>1. Holding(steps, pr[1]) = {Step(c) : c \in {d \in m.segs : Names(crates, d, pr[1])}}
    BY <1>2, <1>3 DEF Holding, Names
  <2>2. pr \in LastWord(steps) <=>
          \E c \in {d \in m.segs : Names(crates, d, pr[1])} :
            /\ pr \in crates[c].rows
            /\ \A e \in {d \in m.segs : Names(crates, d, pr[1])} : ~Before(Step(c), Step(e))
    BY <1>3, <2>1 DEF LastWord
  <2>3. \A c \in m.segs : pr \in crates[c].rows => Names(crates, c, pr[1])
    BY DEF Pairs, Names
  <2> QED
    BY <1>4, <2>2, <2>3 DEF LastPairs
<1>6. LastWord(steps) \subseteq Pairs /\ LastPairs(crates, m.segs) \subseteq Pairs
  BY DEF LastWord, LastPairs
<1> QED
  BY <1>5, <1>6 DEF steps

\* Containers on the shelf do not change, so what is lasting lasts.
LEMMA LastingLasts ==
  ASSUME NEW m, NEW l, NEW r, NEW held, NEW more, Lasting(m, l, r, held),
         \A c \in m.segs : held[c].rows # {} => more[c] = held[c]
  PROVE  Lasting(m, l, r, more)
<1>1. \A c \in m.segs : more[c] = held[c]
  BY DEF Lasting
<1>2. LastPairs(more, m.segs) = LastPairs(held, m.segs)
  BY <1>1 DEF LastPairs, Names
<1> QED
  BY <1>1, <1>2 DEF Lasting

\* A manifest that starts anew is lasting.
LEMMA NewIsLasting ==
  ASSUME NEW j \in Jobs, NEW m, NEW held, m.by = j, m.segs = {j}, m.list = held[j].rows,
         held[j].rows # {}, held[j].rows \subseteq Pairs
  PROVE  Lasting(m, Line[j], Role[j], held)
<1>1. ~(Run[j] < Run[j])
  BY RunsAreNumbers
<1>2. LastPairs(held, {j}) = held[j].rows
  BY <1>1 DEF LastPairs
<1> QED
  BY <1>2 DEF Lasting

\* So is one that chains to a lasting one, when its container is the youngest.
LEMMA ChainIsLasting ==
  ASSUME NEW j \in Jobs, NEW m, NEW h, NEW held, Lasting(h, Line[j], Role[j], held),
         m.by = j, m.segs = h.segs \cup {j}, m.list = Collapse(h.list, held[j].rows),
         h.segs \subseteq Jobs, j \notin h.segs, h.list \subseteq Pairs,
         held[j].rows # {}, held[j].rows \subseteq Pairs,
         held[j].at \in Nat, \A d \in h.segs : held[d].at \in Nat /\ held[d].at < held[j].at
  PROVE  Lasting(m, Line[j], Role[j], held)
<1>1. \A c \in m.segs : Line[c] = Line[j] /\ Role[c] = Role[j] /\ held[c].rows # {}
  BY DEF Lasting
<1>2. ASSUME NEW c \in m.segs, NEW pr \in held[c].rows
      PROVE  \E kr \in m.list : kr[1] = pr[1]
  <2>1. CASE c = j
    BY <1>2, <2>1 DEF Collapse
  <2>2. CASE c \in h.segs
    BY <1>2, <2>2 DEF Lasting, Collapse
  <2> QED
    BY <2>1, <2>2
<1>3. ASSUME \A c, d \in m.segs : Run[c] < Run[d] => held[c].at < held[d].at
      PROVE  m.list = LastPairs(held, m.segs)
  <2>1. h.list = LastPairs(held, h.segs)
    BY <1>3 DEF Lasting
  <2>2. \A d \in h.segs : Run[d] < Run[j] /\ ~(Run[j] < Run[d])
    <3> SUFFICES ASSUME NEW d \in h.segs PROVE Run[d] < Run[j] /\ ~(Run[j] < Run[d])
      OBVIOUS
    <3>1. Run[d] \in Nat /\ Run[j] \in Nat
      BY RunsAreNumbers
    <3>2. ~(Run[j] < Run[d])
      <4>1. held[d].at < held[j].at /\ held[d].at \in Nat
        OBVIOUS
      <4>2. Run[j] < Run[d] => held[j].at < held[d].at
        BY <1>3
      <4> QED
        BY <4>1, <4>2
    <3>3. Run[d] # Run[j]
      <4>1. Line[d] = Line[j] /\ Role[d] = Role[j] /\ d \in Jobs /\ d # j
        BY DEF Lasting
      <4> QED
        BY <4>1, RowAssumption DEF RowAssumption
    <3> QED
      BY <3>1, <3>2, <3>3
  <2>3. ~(Run[j] < Run[j])
    BY RunsAreNumbers
  <2>4. ASSUME NEW pr \in Pairs
        PROVE  pr \in Collapse(h.list, held[j].rows) <=> pr \in LastPairs(held, m.segs)
    <3>1. CASE Names(held, j, pr[1])
      <4>1. pr \in LastPairs(held, m.segs) <=> pr \in held[j].rows
        BY <2>2, <2>3, <3>1 DEF LastPairs
      <4>2. \E fr \in held[j].rows : fr[1] = pr[1]
        BY <3>1 DEF Names
      <4> QED
        BY <4>1, <4>2 DEF Collapse
    <3>2. CASE ~Names(held, j, pr[1])
      <4>1. pr \notin held[j].rows /\ \A fr \in held[j].rows : fr[1] # pr[1]
        <5>1. \A fr \in Pairs : fr = <<fr[1], fr[2]>> /\ fr[2] \in Results
          BY DEF Pairs
        <5> QED
          BY <3>2, <5>1 DEF Names
      <4>2. pr \in LastPairs(held, m.segs) <=> pr \in LastPairs(held, h.segs)
        BY <3>2, <4>1 DEF LastPairs
      <4> QED
        BY <2>1, <4>1, <4>2 DEF Collapse
    <3> QED
      BY <3>1, <3>2
  <2>5. Collapse(h.list, held[j].rows) \subseteq Pairs /\ LastPairs(held, m.segs) \subseteq Pairs
    BY DEF Collapse, LastPairs
  <2> QED
    BY <2>4, <2>5
<1> QED
  BY <1>1, <1>2, <1>3 DEF Lasting

-----------------------------------------------------------------------------
RowsShelfLasts ==
  \A lr \in Lines \X Roles : rolls[lr] # None => Lasting(rolls[lr], lr[1], lr[2], crates)
CratesPast == \A c \in Jobs : crates[c].at < uploads

\* A container is uploaded once the job has got that far.
Fresh(j) == at[j] \notin {"packed", "over"} => crates[j].rows = {}

\* What a job read of the shelf is lasting: the manifest of its role, and the sources,
\* of which those of rank 1 are of its lineage.
Trusted(j, s) ==
  /\ Lasting(s.roll, Line[s.roll.by], Role[s.roll.by], crates)
  /\ s.rank = 1 <=> Line[s.roll.by] = Line[j]
Informed(j) ==
  /\ desk[j].own # None => Lasting(desk[j].own, Line[j], Role[j], crates)
  /\ \A s \in desk[j].sources : Trusted(j, s)
  /\ desk[j].head # None =>
       Lasting(desk[j].head, Line[j], Role[j], crates) /\ j \notin desk[j].head.segs
  /\ \A pr \in desk[j].known : \E s \in desk[j].sources : pr \in s.roll.list

\* Until the plan is made nothing counts as banked, and only a branch inherits.
Reading(j) ==
  /\ at[j] \in {"waiting", "inheriting", "listing", "planning"} => desk[j].known = {}
  /\ at[j] = "inheriting" => Trunk[Line[j]] \in Lines

\* What is staged, and what the container has to do with it once it has landed.
Parcelled(j) ==
  /\ parcel[j] # NoParcel =>
       /\ at[j] \in {"staged", "packed"}
       /\ parcel[j].pack # {} /\ parcel[j].roll \in Rolls /\ parcel[j].roll.by = j
       /\ \/ /\ parcel[j].roll.segs = {j} /\ parcel[j].roll.list = parcel[j].pack
             /\ desk[j].head = None \/ PairsOf(rows[j]) \subseteq parcel[j].pack
          \/ /\ desk[j].head # None
             /\ parcel[j].roll.segs = desk[j].head.segs \cup {j}
             /\ parcel[j].roll.list = Collapse(desk[j].head.list, parcel[j].pack)
  /\ at[j] = "packed" =>
       /\ parcel[j] # NoParcel /\ crates[j].rows = parcel[j].pack
       /\ desk[j].head # None => \A d \in desk[j].head.segs : crates[d].at < crates[j].at

\* What the store has is staged or banked.
Banked(j) ==
  at[j] = "staged" /\ ~desk[j].unknown =>
    /\ \A pr \in PairsOf(rows[j]) : pr \in parcel[j].pack \/ pr \in desk[j].known
    /\ parcel[j].pack \subseteq PairsOf(rows[j])

RowJob(j) == Fresh(j) /\ Informed(j) /\ Reading(j) /\ Parcelled(j) /\ Banked(j)
RowInv == RowTypeOK /\ RowsShelfLasts /\ CratesPast /\ \A j \in Jobs : RowJob(j)

LEMMA RowInitially == RowInit => RowInv
<1> SUFFICES ASSUME RowInit PROVE RowInv
  OBVIOUS
<1>1. /\ \A lr \in Lines \X Roles : rolls[lr] = None
      /\ uploads = 1
      /\ \A j \in Jobs : /\ at[j] = "waiting" /\ desk[j] = Clear /\ crates[j] = Uncrated
                         /\ parcel[j] = NoParcel
  BY DEF RowInit
<1>2. RowTypeOK
  <2>1. RowShelfTypes
    BY Blanks DEF RowInit, RowShelfTypes
  <2>2. RowLocalTypes
    BY Blanks DEF RowInit, RowLocalTypes, Stations
  <2> QED
    BY <2>1, <2>2, RowTypes
<1>3. RowsShelfLasts
  BY <1>1 DEF RowsShelfLasts
<1>4. CratesPast
  BY <1>1, Blanks DEF CratesPast
<1>5. ASSUME NEW j \in Jobs PROVE RowJob(j)
  BY <1>1, Blanks DEF RowJob, Fresh, Informed, Reading, Parcelled, Banked
<1> QED
  BY <1>2, <1>3, <1>4, <1>5 DEF RowInv

\* The other jobs stay as they are, and a container that was uploaded does.
Turns(j) ==
  /\ \A k \in Jobs \ {j} :
       /\ at'[k] = at[k] /\ desk'[k] = desk[k] /\ rows'[k] = rows[k]
       /\ parcel'[k] = parcel[k] /\ crates'[k] = crates[k]
  /\ crates[j].rows # {} => crates'[j] = crates[j]

LEMMA TheRole ==
  ASSUME RowInv, NEW j \in Jobs
  PROVE  /\ RowShelfTypes /\ RowLocalTypes
         /\ at[j] \in Stations /\ desk[j] \in Desks /\ rows[j] \in RowTables
         /\ parcel[j] \in Parcels /\ crates[j] \in Crates
         /\ Fresh(j) /\ Informed(j) /\ Reading(j) /\ Parcelled(j) /\ Banked(j)
BY RowTypes DEF RowInv, RowJob, RowLocalTypes, RowShelfTypes

\* What a desk holds has its type.
LEMMA DeskParts ==
  ASSUME NEW d \in Desks
  PROVE  /\ d.own \in Rolls \cup {None} /\ d.head \in Rolls \cup {None}
         /\ d.sources \in SUBSET Sourced /\ d.known \in SUBSET Pairs
         /\ d.plan \in SUBSET [rank : {0, 1}, job : Jobs] /\ d.unknown \in BOOLEAN
         /\ d.own # None => d.own.segs \subseteq Jobs
         /\ d.head # None => d.head.segs \subseteq Jobs /\ d.head.list \subseteq Pairs
         /\ \A s \in d.sources : s.roll \in Rolls /\ s.rank \in {0, 1} /\ s.roll.segs \subseteq Jobs
BY DEF Desks, Rolls, Sourced

\* What a job that does not move read stays lasting.
LEMMA InformedStays ==
  ASSUME RowInv, NEW k \in Jobs, desk'[k] = desk[k],
         \A c \in Jobs : crates[c].rows # {} => crates'[c] = crates[c]
  PROVE  Informed(k)'
<1>1. desk[k] \in Desks /\ Informed(k)
  BY TheRole
<1>2. ASSUME desk[k].own # None PROVE Lasting(desk[k].own, Line[k], Role[k], crates')
  BY <1>1, <1>2, DeskParts, LastingLasts DEF Informed
<1>3. ASSUME NEW s \in desk[k].sources
      PROVE  Lasting(s.roll, Line[s.roll.by], Role[s.roll.by], crates')
  BY <1>1, <1>3, DeskParts, LastingLasts DEF Informed, Trusted
<1>4. ASSUME desk[k].head # None PROVE Lasting(desk[k].head, Line[k], Role[k], crates')
  BY <1>1, <1>4, DeskParts, LastingLasts DEF Informed
<1> QED
  BY <1>1, <1>2, <1>3, <1>4 DEF Informed, Trusted

LEMMA OthersTurn ==
  ASSUME RowInv, NEW j \in Jobs, Turns(j)
  PROVE  /\ \A c \in Jobs : crates[c].rows # {} => crates'[c] = crates[c]
         /\ \A k \in Jobs \ {j} : RowJob(k)'
<1>1. \A c \in Jobs : crates[c].rows # {} => crates'[c] = crates[c]
  BY DEF Turns
<1>2. ASSUME NEW k \in Jobs \ {j} PROVE RowJob(k)'
  <2>1. /\ at'[k] = at[k] /\ desk'[k] = desk[k] /\ rows'[k] = rows[k]
        /\ parcel'[k] = parcel[k] /\ crates'[k] = crates[k]
    BY DEF Turns
  <2>2. Fresh(k) /\ Informed(k) /\ Reading(k) /\ Parcelled(k) /\ Banked(k) /\ desk[k] \in Desks
    BY TheRole
  <2>3. Fresh(k)' /\ Reading(k)' /\ Banked(k)'
    BY <2>1, <2>2 DEF Fresh, Reading, Banked, PairsOf
  <2>4. Informed(k)'
    BY <1>1, <2>1, InformedStays
  <2>5. Parcelled(k)'
    <3>1. desk[k].head # None => \A d \in desk[k].head.segs : crates'[d] = crates[d]
      BY <1>1, <2>2, DeskParts DEF Informed, Lasting
    <3> QED
      BY <2>1, <2>2, <3>1 DEF Parcelled, PairsOf
  <2> QED
    BY <2>3, <2>4, <2>5 DEF RowJob
<1> QED
  BY <1>1, <1>2

LEMMA RowShelfStays ==
  ASSUME RowInv, NEW j \in Jobs, Turns(j), UNCHANGED rolls
  PROVE  RowsShelfLasts'
<1> SUFFICES ASSUME NEW lr \in Lines \X Roles, rolls[lr] # None
             PROVE  Lasting(rolls[lr], lr[1], lr[2], crates')
  BY DEF RowsShelfLasts
<1>1. Lasting(rolls[lr], lr[1], lr[2], crates) /\ rolls[lr].segs \subseteq Jobs
  BY RowTypes DEF RowInv, RowsShelfLasts, RowShelfTypes, Rolls
<1> QED
  BY <1>1, OthersTurn, LastingLasts

\* So it is enough to look at the job that moves, as long as it uploads nothing.
LEMMA OneRoleTurns ==
  ASSUME RowInv, NEW j \in Jobs, Turns(j), UNCHANGED <<rolls, crates, uploads>>,
         RowTypeOK', RowJob(j)'
  PROVE  RowInv'
<1>1. CratesPast'
  BY DEF RowInv, CratesPast
<1> QED
  BY <1>1, OthersTurn, RowShelfStays DEF RowInv

-----------------------------------------------------------------------------
\* A job that reads, lays or builds: it stages nothing, and what it notes is lasting.
LEMMA DeskTurns ==
  ASSUME RowInv, NEW j \in Jobs, NEW d \in Desks, NEW rs \in RowTables, NEW place \in Stations,
         at[j] \notin {"staged", "packed", "over"}, place \notin {"staged", "packed", "over"},
         desk' = [desk EXCEPT ![j] = d], rows' = [rows EXCEPT ![j] = rs],
         at' = [at EXCEPT ![j] = place],
         UNCHANGED <<rolls, crates, uploads, lapsed, parcel>>,
         d.own # None => Lasting(d.own, Line[j], Role[j], crates),
         \A s \in d.sources : Trusted(j, s),
         d.head # None => Lasting(d.head, Line[j], Role[j], crates),
         \A pr \in d.known : \E s \in d.sources : pr \in s.roll.list,
         place \in {"inheriting", "listing", "planning"} => d.known = {},
         place # "waiting", place = "inheriting" => Trunk[Line[j]] \in Lines
  PROVE  RowInv'
<1>1. /\ at \in [Jobs -> Stations] /\ desk \in [Jobs -> Desks] /\ rows \in [Jobs -> RowTables]
      /\ Fresh(j) /\ Parcelled(j)
  BY TheRole DEF RowLocalTypes
<1>2. desk'[j] = d /\ rows'[j] = rs /\ at'[j] = place
  BY <1>1
<1>3. RowTypeOK'
  <2>1. at' \in [Jobs -> Stations] /\ desk' \in [Jobs -> Desks] /\ rows' \in [Jobs -> RowTables]
    BY <1>1
  <2> QED
    BY <2>1, TheRole, RowTypesKept DEF RowShelfTypes, RowLocalTypes
<1>4. Turns(j)
  BY <1>1 DEF Turns
<1>5. RowJob(j)'
  <2>1. Fresh(j)' /\ Reading(j)' /\ Banked(j)'
    BY <1>1, <1>2 DEF Fresh, Reading, Banked
  <2>2. d.head # None => j \notin d.head.segs
    BY <1>1 DEF Fresh, Lasting
  <2>3. Informed(j)'
    BY <1>2, <2>2 DEF Informed, Trusted
  <2>4. Parcelled(j)'
    BY <1>1, <1>2 DEF Parcelled
  <2> QED
    BY <2>1, <2>3, <2>4 DEF RowJob
<1> QED
  BY <1>3, <1>4, <1>5, OneRoleTurns

\* What is on the shelf, or in a listing of it, is of the lineage it is filed under.
LEMMA FiledRolls ==
  ASSUME RowInv, NEW l \in Lines, NEW r \in Roles, rolls[<<l, r>>] # None
  PROVE  /\ rolls[<<l, r>>] \in Rolls
         /\ Lasting(rolls[<<l, r>>], l, r, crates)
         /\ Line[rolls[<<l, r>>].by] = l /\ Role[rolls[<<l, r>>].by] = r
<1>1. <<l, r>> \in Lines \X Roles /\ <<l, r>>[1] = l /\ <<l, r>>[2] = r
  OBVIOUS
<1>2. rolls[<<l, r>>] \in Rolls
  BY <1>1, RowTypes DEF RowInv, RowShelfTypes
<1>3. Lasting(rolls[<<l, r>>], l, r, crates)
  BY <1>1 DEF RowInv, RowsShelfLasts
<1> QED
  BY <1>2, <1>3 DEF Lasting

LEMMA FindOwnKeeps ==
  ASSUME RowInv, NEW j \in Jobs, FindOwn(j)
  PROVE  RowInv'
<1> DEFINE own == rolls[<<Line[j], Role[j]>>]
           found == [Clear EXCEPT !.own = own]
           lost == [Clear EXCEPT !.unknown = TRUE]
           place == IF ~ReadsAll[j] THEN "planning"
                    ELSE IF Trunk[Line[j]] = None THEN "listing" ELSE "inheriting"
<1>1. /\ at[j] = "waiting" /\ at' = [at EXCEPT ![j] = place]
      /\ desk' = [desk EXCEPT ![j] = found] \/ desk' = [desk EXCEPT ![j] = lost]
      /\ UNCHANGED <<rolls, crates, lapsed, uploads, rows, parcel>>
  BY DEF FindOwn, Ready, rowShelf
<1>2. rows = [rows EXCEPT ![j] = rows[j]] /\ rows[j] \in RowTables
  BY TheRole DEF RowLocalTypes
<1>3. /\ place \in {"planning", "listing", "inheriting"}
      /\ place = "inheriting" => Trunk[Line[j]] \in Lines
  BY RunsAreNumbers, LapsAssumption DEF LapsAssumption
<1>4. own \in Rolls \cup {None} /\ (own # None => Lasting(own, Line[j], Role[j], crates))
  <2>1. Line[j] \in Lines /\ Role[j] \in Roles /\ <<Line[j], Role[j]>> \in Lines \X Roles
    BY RunsAreNumbers
  <2> QED
    BY <2>1, FiledRolls
<1> HIDE DEF own, place
<1>5. /\ found \in Desks /\ found.own = own /\ found.sources = {} /\ found.head = None
      /\ found.known = {}
  BY <1>4 DEF Clear, Desks
<1>6. lost \in Desks /\ lost.own = None /\ lost.sources = {} /\ lost.head = None /\ lost.known = {}
  BY DEF Clear, Desks
<1>7. place \in Stations /\ place \notin {"staged", "packed", "over", "waiting"}
  BY <1>3 DEF Stations
<1> HIDE DEF found, lost
<1>8. CASE desk' = [desk EXCEPT ![j] = found]
  BY <1>1, <1>2, <1>3, <1>4, <1>5, <1>7, <1>8, DeskTurns
<1>9. CASE desk' = [desk EXCEPT ![j] = lost]
  BY <1>1, <1>2, <1>3, <1>6, <1>7, <1>9, DeskTurns
<1> QED
  BY <1>1, <1>8, <1>9

LEMMA ListedAreFiled ==
  ASSUME RowInv, NEW l \in Lines, NEW m \in Listed(l)
  PROVE  m \in Rolls /\ Line[m.by] = l /\ Lasting(m, Line[m.by], Role[m.by], crates)
<1>1. PICK r \in Roles : m = rolls[<<l, r>>] /\ m # None
  BY DEF Listed
<1> QED
  BY <1>1, FiledRolls

\* What a listing of lineage l adds to the sources, as sources of rank n.
LEMMA ListedAreTrusted ==
  ASSUME RowInv, NEW j \in Jobs, NEW l \in Lines, NEW n \in {0, 1}, n = 1 <=> l = Line[j],
         NEW s \in {[rank |-> n, roll |-> m] : m \in Listed(l)}
  PROVE  s \in Sourced /\ Trusted(j, s)
<1>1. PICK m \in Listed(l) : s = [rank |-> n, roll |-> m]
  OBVIOUS
<1>2. m \in Rolls /\ Line[m.by] = l /\ Lasting(m, Line[m.by], Role[m.by], crates)
  BY ListedAreFiled
<1>3. s.rank = n /\ s.roll = m
  BY <1>1
<1> QED
  BY <1>1, <1>2, <1>3 DEF Sourced, Trusted

\* The sources change, before there is a plan.
LEMMA SourcesTurn ==
  ASSUME RowInv, NEW j \in Jobs, at[j] \in {"inheriting", "listing"},
         NEW new \in SUBSET Sourced, \A s \in new : Trusted(j, s),
         NEW place \in {"listing", "planning"},
         at' = [at EXCEPT ![j] = place], desk' = [desk EXCEPT ![j].sources = new],
         UNCHANGED <<rowShelf, rows, parcel>>
  PROVE  RowInv'
<1> DEFINE d == [desk[j] EXCEPT !.sources = new]
<1>1. /\ rows = [rows EXCEPT ![j] = rows[j]] /\ rows[j] \in RowTables /\ desk \in [Jobs -> Desks]
      /\ desk[j] \in Desks /\ Informed(j) /\ desk[j].known = {}
  BY TheRole DEF RowLocalTypes, Reading
<1>2. /\ d \in Desks /\ d.own = desk[j].own /\ d.head = desk[j].head /\ d.known = {}
      /\ d.sources = new
  BY <1>1 DEF Desks
<1>3. desk' = [desk EXCEPT ![j] = d]
  BY <1>1
<1> HIDE DEF d
<1>4. place \in Stations /\ place \notin {"staged", "packed", "over", "waiting", "inheriting"}
  BY DEF Stations
<1>5. UNCHANGED <<rolls, crates, uploads, lapsed, parcel>> /\ rows' = rows
  BY DEF rowShelf
<1>6. /\ d.own # None => Lasting(d.own, Line[j], Role[j], crates)
      /\ d.head # None => Lasting(d.head, Line[j], Role[j], crates)
  BY <1>1, <1>2 DEF Informed
<1> QED
  BY <1>1, <1>2, <1>3, <1>4, <1>5, <1>6, DeskTurns

LEMMA ListTrunkKeeps ==
  ASSUME RowInv, NEW j \in Jobs, ListTrunk(j)
  PROVE  RowInv'
<1> DEFINE new == {[rank |-> 0, roll |-> m] : m \in Listed(Trunk[Line[j]])}
<1>1. /\ at[j] = "inheriting" /\ at' = [at EXCEPT ![j] = "listing"]
      /\ desk' = [desk EXCEPT ![j].sources = new]
      /\ UNCHANGED <<rowShelf, rows, parcel>>
  BY DEF ListTrunk
<1>2. Trunk[Line[j]] \in Lines /\ Trunk[Line[j]] # Line[j]
  BY <1>1, TheRole, RunsAreNumbers, LapsAssumption DEF Reading, LapsAssumption
<1>3. \A s \in new : s \in Sourced /\ Trusted(j, s)
  BY <1>2, ListedAreTrusted
<1> HIDE DEF new
<1> QED
  BY <1>1, <1>3, SourcesTurn

LEMMA ListRolesKeeps ==
  ASSUME RowInv, NEW j \in Jobs, ListRoles(j)
  PROVE  RowInv'
<1> DEFINE more == {[rank |-> 1, roll |-> m] : m \in Listed(Line[j])}
           new == desk[j].sources \cup more
<1>1. /\ at[j] = "listing" /\ at' = [at EXCEPT ![j] = "planning"]
      /\ desk' = [desk EXCEPT ![j].sources = new]
      /\ UNCHANGED <<rowShelf, rows, parcel>>
  BY TheRole DEF ListRoles, RowLocalTypes
<1>2. \A s \in more : s \in Sourced /\ Trusted(j, s)
  BY RunsAreNumbers, ListedAreTrusted
<1>3. \A s \in desk[j].sources : s \in Sourced /\ Trusted(j, s)
  BY TheRole, DeskParts DEF Informed
<1> HIDE DEF more
<1>4. new \in SUBSET Sourced /\ \A s \in new : Trusted(j, s)
  BY <1>2, <1>3
<1> HIDE DEF new
<1> QED
  BY <1>1, <1>4, SourcesTurn

LEMMA MakePlanKeeps ==
  ASSUME RowInv, NEW j \in Jobs, MakePlan(j)
  PROVE  RowInv'
<1> DEFINE new == Sources(j)
           head == OwnHead(j)
           known == UNION {s.roll.list : s \in new}
           plan == UNION {Steps(s) : s \in new}
           d == [desk[j] EXCEPT !.sources = new, !.head = head, !.known = known, !.plan = plan]
           place == IF new = {} THEN "building" ELSE "laying"
<1>1. /\ desk \in [Jobs -> Desks] /\ desk[j] \in Desks /\ Informed(j)
      /\ rows = [rows EXCEPT ![j] = rows[j]] /\ rows[j] \in RowTables
  BY TheRole DEF RowLocalTypes
<1>2. /\ at[j] = "planning" /\ at' = [at EXCEPT ![j] = place]
      /\ desk' = [desk EXCEPT ![j] = d]
      /\ UNCHANGED <<rolls, crates, lapsed, uploads, rows, parcel>>
  BY <1>1 DEF MakePlan, rowShelf
<1>3. \A s \in new : s \in Sourced /\ Trusted(j, s)
  <2>1. \A s \in desk[j].sources : s \in Sourced /\ Trusted(j, s)
    BY <1>1, DeskParts DEF Informed
  <2>2. ASSUME desk[j].own # None
        PROVE  [rank |-> 1, roll |-> desk[j].own] \in Sourced
                 /\ Trusted(j, [rank |-> 1, roll |-> desk[j].own])
    <3>1. desk[j].own \in Rolls /\ Lasting(desk[j].own, Line[j], Role[j], crates)
      BY <1>1, <2>2, DeskParts DEF Informed
    <3>2. Line[desk[j].own.by] = Line[j] /\ Role[desk[j].own.by] = Role[j]
      BY <3>1 DEF Lasting
    <3> QED
      BY <3>1, <3>2 DEF Sourced, Trusted
  <2> QED
    BY <2>1, <2>2 DEF Sources
<1>4. head \in Rolls \cup {None} /\ (head # None => Lasting(head, Line[j], Role[j], crates))
  <2> DEFINE mine == {s \in new : s.rank = 1 /\ Role[s.roll.by] = Role[j]}
             pick == CHOOSE s \in mine : TRUE
  <2>1. head = IF mine = {} THEN None ELSE pick.roll
    BY DEF OwnHead
  <2>2. CASE mine = {}
    BY <2>1, <2>2
  <2>3. CASE mine # {}
    <3>1. pick \in mine
      BY <2>3
    <3> HIDE DEF pick
    <3>2. pick \in Sourced /\ Trusted(j, pick) /\ pick.rank = 1 /\ Role[pick.roll.by] = Role[j]
      BY <1>3, <3>1
    <3> HIDE DEF mine
    <3> QED
      BY <2>1, <2>3, <3>2 DEF Sourced, Trusted
  <2> QED
    BY <2>2, <2>3
<1>5. known \in SUBSET Pairs /\ \A pr \in known : \E s \in new : pr \in s.roll.list
  BY <1>3 DEF Sourced, Rolls
<1>6. plan \in SUBSET [rank : {0, 1}, job : Jobs]
  <2>1. ASSUME NEW s \in new PROVE Steps(s) \subseteq [rank : {0, 1}, job : Jobs]
    BY <1>3, <2>1 DEF Steps, Sourced, Rolls
  <2> QED
    BY <2>1
<1> HIDE DEF new, head, known, plan
<1>7. /\ d \in Desks /\ d.own = desk[j].own /\ d.head = head /\ d.known = known
      /\ d.sources = new
  <2>1. d = [own |-> desk[j].own, head |-> head, sources |-> new, known |-> known,
             plan |-> plan, unknown |-> desk[j].unknown]
    <3> DEFINE x == desk[j]
               e == [x EXCEPT !.sources = new]
               f == [e EXCEPT !.head = head]
               g == [f EXCEPT !.known = known]
    <3>1. e = [own |-> x.own, head |-> x.head, sources |-> new, known |-> x.known,
               plan |-> x.plan, unknown |-> x.unknown]
      BY <1>1 DEF Desks
    <3> HIDE DEF e
    <3>2. f = [own |-> x.own, head |-> head, sources |-> new, known |-> x.known,
               plan |-> x.plan, unknown |-> x.unknown]
      BY <3>1
    <3> HIDE DEF f
    <3>3. g = [own |-> x.own, head |-> head, sources |-> new, known |-> known,
               plan |-> x.plan, unknown |-> x.unknown]
      BY <3>2
    <3>4. d = [g EXCEPT !.plan = plan]
      BY DEF e, f
    <3> HIDE DEF g
    <3> QED
      BY <3>3, <3>4
  <2>2. new \in SUBSET Sourced
    BY <1>3
  <2> QED
    BY <1>1, <1>4, <1>5, <1>6, <2>1, <2>2, DeskParts DEF Desks
<1>8. place \in Stations /\ place \in {"building", "laying"}
  BY DEF Stations
<1> HIDE DEF d, place
<1>9. d.own # None => Lasting(d.own, Line[j], Role[j], crates)
  BY <1>1, <1>7 DEF Informed
<1>10. /\ \A s \in d.sources : Trusted(j, s)
       /\ d.head # None => Lasting(d.head, Line[j], Role[j], crates)
       /\ \A pr \in d.known : \E s \in d.sources : pr \in s.roll.list
  BY <1>3, <1>4, <1>5, <1>7
<1>11. /\ at[j] \notin {"staged", "packed", "over"}
       /\ place \notin {"staged", "packed", "over", "inheriting", "listing", "planning", "waiting"}
  BY <1>2, <1>8
<1> QED
  BY <1>1, <1>2, <1>7, <1>8, <1>9, <1>10, <1>11, DeskTurns

\* Laying rows down, or purging them, gives a table of rows.
LEMMA TablesStay ==
  ASSUME NEW rs \in RowTables
  PROVE  /\ Purged(rs) \in RowTables
         /\ \A pack \in SUBSET Pairs : Lay(rs, pack) \in RowTables
<1>1. Purged(rs) \in RowTables
  BY DEF Purged, RowTables
<1>2. ASSUME NEW pack \in SUBSET Pairs PROVE Lay(rs, pack) \in RowTables
  <2> DEFINE top(p) == IF \E v \in Results : <<p, v>> \in pack
                       THEN CHOOSE v \in Results : <<p, v>> \in pack ELSE rs[p]
  <2>1. ASSUME NEW p \in Paths PROVE top(p) \in Results \cup {None}
    BY DEF RowTables
  <2>2. Lay(rs, pack) = [p \in Paths |-> top(p)]
    BY DEF Lay
  <2> HIDE DEF top
  <2> QED
    BY <2>1, <2>2 DEF RowTables
<1> QED
  BY <1>1, <1>2

\* A job that knows its plan, or goes on without, only changes its rows.
LEMMA RowsTurn ==
  ASSUME RowInv, NEW j \in Jobs, NEW d \in Desks, NEW rs \in RowTables,
         NEW place \in {"laying", "building", "built"},
         at[j] \notin {"waiting", "staged", "packed", "over"},
         desk' = [desk EXCEPT ![j] = d], rows' = [rows EXCEPT ![j] = rs],
         at' = [at EXCEPT ![j] = place],
         UNCHANGED <<rowShelf, parcel>>,
         d.own = desk[j].own, d.sources = desk[j].sources, d.head = desk[j].head,
         d.known = desk[j].known
  PROVE  RowInv'
<1>1. /\ place \in Stations
      /\ place \notin {"staged", "packed", "over", "waiting", "inheriting", "listing", "planning"}
  BY DEF Stations
<1>2. UNCHANGED <<rolls, crates, uploads, lapsed, parcel>>
  BY DEF rowShelf
<1>3. Informed(j)
  BY TheRole
<1>4. /\ d.own # None => Lasting(d.own, Line[j], Role[j], crates)
      /\ \A s \in d.sources : Trusted(j, s)
      /\ d.head # None => Lasting(d.head, Line[j], Role[j], crates)
      /\ \A pr \in d.known : \E s \in d.sources : pr \in s.roll.list
  BY <1>3 DEF Informed
<1> QED
  BY <1>1, <1>2, <1>4, DeskTurns

LEMMA LayNextKeeps ==
  ASSUME RowInv, NEW j \in Jobs, LayNext(j)
  PROVE  RowInv'
<1>1. PICK s \in desk[j].plan :
        /\ desk' = [desk EXCEPT ![j].plan = @ \ {s}]
        /\ rows' = [rows EXCEPT ![j] = IF s.job \in lapsed THEN @ ELSE Lay(@, crates[s.job].rows)]
  BY DEF LayNext
<1> DEFINE d == [desk[j] EXCEPT !.plan = @ \ {s}]
           rs == IF s.job \in lapsed THEN rows[j] ELSE Lay(rows[j], crates[s.job].rows)
<1>2. /\ at[j] = "laying" /\ UNCHANGED <<rowShelf, at, parcel>>
  BY DEF LayNext
<1>3. /\ desk \in [Jobs -> Desks] /\ rows \in [Jobs -> RowTables] /\ at \in [Jobs -> Stations]
      /\ desk[j] \in Desks /\ rows[j] \in RowTables /\ crates \in [Jobs -> Crates]
  BY TheRole DEF RowLocalTypes, RowShelfTypes
<1>4. desk' = [desk EXCEPT ![j] = d] /\ rows' = [rows EXCEPT ![j] = rs]
  BY <1>1, <1>3
<1>5. at' = [at EXCEPT ![j] = "laying"]
  BY <1>2, <1>3
<1>6. crates[s.job].rows \in SUBSET Pairs
  <2>1. s.job \in Jobs
    BY <1>3 DEF Desks
  <2> QED
    BY <1>3, <2>1 DEF Crates
<1>7. rs \in RowTables
  BY <1>3, <1>6, TablesStay
<1>8. /\ d \in Desks /\ d.own = desk[j].own /\ d.sources = desk[j].sources
      /\ d.head = desk[j].head /\ d.known = desk[j].known
  BY <1>3 DEF Desks
<1> HIDE DEF d, rs
<1> QED
  BY <1>2, <1>4, <1>5, <1>7, <1>8, RowsTurn

LEMMA PurgeRestoredKeeps ==
  ASSUME RowInv, NEW j \in Jobs, PurgeRestored(j)
  PROVE  RowInv'
<1>1. /\ at[j] = "laying" /\ at' = [at EXCEPT ![j] = "building"]
      /\ rows' = [rows EXCEPT ![j] = Purged(rows[j])]
      /\ UNCHANGED <<rowShelf, desk, parcel>>
  BY TheRole DEF PurgeRestored, RowLocalTypes
<1>2. desk = [desk EXCEPT ![j] = desk[j]] /\ desk[j] \in Desks /\ Purged(rows[j]) \in RowTables
  BY TheRole, TablesStay DEF RowLocalTypes
<1> QED
  BY <1>1, <1>2, RowsTurn

LEMMA BreakOffKeeps ==
  ASSUME RowInv, NEW j \in Jobs, BreakOff(j)
  PROVE  RowInv'
<1>1. /\ at[j] \in {"inheriting", "listing", "planning", "laying"}
      /\ at' = [at EXCEPT ![j] = "built"]
      /\ UNCHANGED <<rowShelf, desk, rows, parcel>>
  BY DEF BreakOff
<1>2. /\ desk = [desk EXCEPT ![j] = desk[j]] /\ desk[j] \in Desks
      /\ rows = [rows EXCEPT ![j] = rows[j]] /\ rows[j] \in RowTables
  BY TheRole DEF RowLocalTypes
<1> QED
  BY <1>1, <1>2, RowsTurn

LEMMA ExecuteKeeps ==
  ASSUME RowInv, NEW j \in Jobs, Execute(j)
  PROVE  RowInv'
<1>1. PICK new \in SUBSET Writes[j] : rows' = [rows EXCEPT ![j] = Lay(@, new)]
  BY DEF Execute
<1>2. /\ at[j] = "building" /\ at' = [at EXCEPT ![j] = "built"]
      /\ UNCHANGED <<rowShelf, desk, parcel>>
  BY DEF Execute
<1>3. /\ desk = [desk EXCEPT ![j] = desk[j]] /\ desk[j] \in Desks
      /\ rows \in [Jobs -> RowTables] /\ rows[j] \in RowTables
  BY TheRole DEF RowLocalTypes
<1>4. new \in SUBSET Pairs
  BY RowAssumption DEF RowAssumption, Pairs
<1>5. Lay(rows[j], new) \in RowTables
  BY <1>3, <1>4, TablesStay
<1>6. rows' = [rows EXCEPT ![j] = Lay(rows[j], new)]
  BY <1>1, <1>3
<1> QED
  BY <1>2, <1>3, <1>5, <1>6, RowsTurn

-----------------------------------------------------------------------------
\* What publish stages, case by case.
LEMMA ParcelSays ==
  ASSUME RowInv, NEW j \in Jobs, NEW rs \in RowTables, NEW compact \in BOOLEAN
  PROVE  LET head == desk[j].head
             b == Parcel(j, rs, compact)
         IN /\ b \in Parcels
            /\ b.pack \subseteq PairsOf(rs)
            /\ ~desk[j].unknown => \A pr \in PairsOf(rs) : pr \in b.pack \/ pr \in desk[j].known
            /\ b # NoParcel =>
                 /\ b.pack # {} /\ b.roll \in Rolls /\ b.roll.by = j
                 /\ \/ /\ b.roll.segs = {j} /\ b.roll.list = b.pack
                       /\ head = None \/ PairsOf(rs) \subseteq b.pack
                    \/ /\ head # None
                       /\ b.roll.segs = head.segs \cup {j}
                       /\ b.roll.list = Collapse(head.list, b.pack)
<1> DEFINE head  == desk[j].head
           all   == PairsOf(rs)
           full  == compact /\ ~Shrinks(head.list, all)
           delta == Delta(j, all)
           roll(segs, list) == [by |-> j, segs |-> segs, list |-> list, at |-> 0]
           none  == desk[j].unknown \/ (compact /\ all = {}) \/ (~full /\ delta = {})
           whole == [pack |-> all, roll |-> roll({j}, all)]
           fresh == [pack |-> delta, roll |-> roll({j}, delta)]
           chain == [pack |-> delta, roll |-> roll(head.segs \cup {j}, Collapse(head.list, delta))]
           b     == Parcel(j, rs, compact)
<1>1. b = IF none THEN NoParcel ELSE IF full THEN whole ELSE IF head = None THEN fresh ELSE chain
  BY DEF Parcel
<1>2. desk[j] \in Desks
  BY TheRole
<1>3. all \in SUBSET Pairs /\ delta = all \ desk[j].known
  BY DEF PairsOf, Delta
<1>4. ASSUME NEW segs \in SUBSET Jobs, NEW list \in SUBSET Pairs
      PROVE  /\ roll(segs, list) \in Rolls /\ roll(segs, list).by = j
             /\ roll(segs, list).segs = segs /\ roll(segs, list).list = list
  BY <1>4 DEF Rolls
<1>5. ASSUME NEW pack \in SUBSET Pairs, NEW m \in Rolls
      PROVE  [pack |-> pack, roll |-> m] \in Parcels
  BY <1>5 DEF Parcels
<1> HIDE DEF roll, all, delta, full
<1>6. CASE none
  <2>1. b = NoParcel
    BY <1>1, <1>6
  <2>2. ~desk[j].unknown => all \subseteq desk[j].known
    BY <1>3, <1>6 DEF full
  <2> HIDE DEF b
  <2> QED
    BY <2>1, <2>2, Blanks DEF b, all
<1>7. CASE ~none /\ full
  <2>1. b = whole /\ all # {}
    BY <1>1, <1>7 DEF full
  <2>2. roll({j}, all) \in Rolls /\ whole \in Parcels /\ whole.pack = all /\ whole.roll = roll({j}, all)
    BY <1>3, <1>4, <1>5
  <2>3. roll({j}, all).by = j /\ roll({j}, all).segs = {j} /\ roll({j}, all).list = all
    BY <1>3, <1>4
  <2> HIDE DEF b, whole
  <2> QED
    BY <2>1, <2>2, <2>3 DEF b, all
<1>8. CASE ~none /\ ~full /\ head = None
  <2>1. b = fresh /\ delta # {}
    BY <1>1, <1>8
  <2>2. /\ roll({j}, delta) \in Rolls /\ fresh \in Parcels /\ fresh.pack = delta
        /\ fresh.roll = roll({j}, delta)
    BY <1>3, <1>4, <1>5
  <2>3. roll({j}, delta).by = j /\ roll({j}, delta).segs = {j} /\ roll({j}, delta).list = delta
    BY <1>3, <1>4
  <2> HIDE DEF b, fresh
  <2> QED
    BY <1>3, <1>8, <2>1, <2>2, <2>3 DEF b, all
<1>9. CASE ~none /\ ~full /\ head # None
  <2> DEFINE segs == head.segs \cup {j}
             list == Collapse(head.list, delta)
  <2>1. b = chain /\ delta # {}
    BY <1>1, <1>9
  <2>2. segs \in SUBSET Jobs /\ list \in SUBSET Pairs
    BY <1>2, <1>3, <1>9, DeskParts DEF Collapse
  <2>3. /\ chain = [pack |-> delta, roll |-> roll(segs, list)]
        /\ segs = head.segs \cup {j} /\ list = Collapse(head.list, delta)
    OBVIOUS
  <2> HIDE DEF segs, list, chain
  <2>4. roll(segs, list) \in Rolls /\ chain \in Parcels /\ chain.pack = delta /\ chain.roll = roll(segs, list)
    BY <1>3, <1>4, <1>5, <2>2, <2>3
  <2>5. /\ roll(segs, list).by = j /\ roll(segs, list).segs = segs
        /\ roll(segs, list).list = list
    BY <1>4, <2>2
  <2> HIDE DEF b
  <2> QED
    BY <1>3, <1>9, <2>1, <2>3, <2>4, <2>5 DEF b, all
<1> QED
  BY <1>6, <1>7, <1>8, <1>9

LEMMA PublishRowsKeeps ==
  ASSUME RowInv, NEW j \in Jobs, PublishRows(j)
  PROVE  RowInv'
<1> DEFINE rs == IF desk[j].unknown THEN rows[j] ELSE Purged(rows[j])
<1>1. PICK compact \in BOOLEAN :
        /\ rows' = [rows EXCEPT ![j] = rs]
        /\ parcel' = [parcel EXCEPT ![j] = Parcel(j, rs, compact)]
  BY DEF PublishRows
<1>2. /\ at[j] = "built" /\ at' = [at EXCEPT ![j] = "staged"]
      /\ UNCHANGED <<rolls, crates, lapsed, uploads, desk>>
  BY DEF PublishRows, rowShelf
<1>3. rs \in RowTables
  BY TheRole, TablesStay
<1> HIDE DEF rs
<1> DEFINE b == Parcel(j, rs, compact)
<1>4. /\ b \in Parcels /\ b.pack \subseteq PairsOf(rs)
      /\ ~desk[j].unknown => \A pr \in PairsOf(rs) : pr \in b.pack \/ pr \in desk[j].known
      /\ b # NoParcel =>
           /\ b.pack # {} /\ b.roll \in Rolls /\ b.roll.by = j
           /\ \/ /\ b.roll.segs = {j} /\ b.roll.list = b.pack
                 /\ desk[j].head = None \/ PairsOf(rs) \subseteq b.pack
              \/ /\ desk[j].head # None
                 /\ b.roll.segs = desk[j].head.segs \cup {j}
                 /\ b.roll.list = Collapse(desk[j].head.list, b.pack)
  BY <1>3, ParcelSays
<1> HIDE DEF b
<1>5. at \in [Jobs -> Stations] /\ rows \in [Jobs -> RowTables] /\ parcel \in [Jobs -> Parcels]
  BY TheRole DEF RowLocalTypes
<1>6. rows'[j] = rs /\ parcel'[j] = b /\ at'[j] = "staged"
  BY <1>1, <1>2, <1>5 DEF b
<1>7. RowTypeOK'
  <2>1. /\ at' \in [Jobs -> Stations] /\ rows' \in [Jobs -> RowTables]
        /\ parcel' \in [Jobs -> Parcels]
    BY <1>1, <1>2, <1>3, <1>4, <1>5 DEF Stations, b
  <2> QED
    BY <1>2, <2>1, TheRole, RowTypesKept DEF RowShelfTypes, RowLocalTypes
<1>8. Turns(j)
  BY <1>1, <1>2, <1>5 DEF Turns
<1>9. RowJob(j)'
  <2>1. Fresh(j)' /\ Reading(j)'
    BY <1>2, <1>6, TheRole DEF Fresh, Reading
  <2>2. Informed(j)'
    BY <1>2, InformedStays
  <2>3. PairsOf(rows[j])' = PairsOf(rs)
    BY <1>6 DEF PairsOf
  <2>4. Parcelled(j)'
    BY <1>2, <1>4, <1>6, <2>3 DEF Parcelled
  <2>5. Banked(j)'
    BY <1>2, <1>4, <1>6, <2>3 DEF Banked
  <2> QED
    BY <2>1, <2>2, <2>4, <2>5 DEF RowJob
<1> QED
  BY <1>2, <1>7, <1>8, <1>9, OneRoleTurns

LEMMA UploadCrateKeeps ==
  ASSUME RowInv, NEW j \in Jobs, UploadCrate(j)
  PROVE  RowInv'
<1> DEFINE box == [rows |-> parcel[j].pack, at |-> uploads]
<1>1. /\ at[j] = "staged" /\ parcel[j].pack # {} /\ at' = [at EXCEPT ![j] = "packed"]
      /\ crates' = [crates EXCEPT ![j] = box] /\ uploads' = uploads + 1
      /\ UNCHANGED <<rolls, lapsed, desk, rows, parcel>>
  BY DEF UploadCrate
<1>2. /\ at \in [Jobs -> Stations] /\ crates \in [Jobs -> Crates] /\ uploads \in Nat \ {0}
      /\ parcel[j] \in Parcels /\ crates[j].rows = {}
  BY <1>1, TheRole DEF RowLocalTypes, RowShelfTypes, Fresh
<1>3. box \in Crates /\ box.rows = parcel[j].pack /\ box.at = uploads
  BY <1>2 DEF Crates, Parcels
<1> HIDE DEF box
<1>4. at'[j] = "packed" /\ crates'[j] = box /\ \A c \in Jobs \ {j} : crates'[c] = crates[c]
  BY <1>1, <1>2
<1>5. RowTypeOK'
  <2>1. at' \in [Jobs -> Stations] /\ crates' \in [Jobs -> Crates] /\ uploads' \in Nat \ {0}
    BY <1>1, <1>2, <1>3 DEF Stations
  <2> QED
    BY <1>1, <2>1, TheRole, RowTypesKept DEF RowShelfTypes, RowLocalTypes
<1>6. Turns(j)
  BY <1>1, <1>2, <1>4 DEF Turns
<1>7. CratesPast'
  <2>1. ASSUME NEW c \in Jobs PROVE crates'[c].at < uploads'
    <3>1. CASE c = j
      BY <1>1, <1>2, <1>3, <1>4, <3>1
    <3>2. CASE c # j
      <4>1. crates'[c] = crates[c] /\ crates[c].at < uploads /\ crates[c].at \in Nat
        BY <1>2, <1>4, <3>2 DEF RowInv, CratesPast, Crates
      <4> QED
        BY <1>1, <1>2, <4>1
    <3> QED
      BY <3>1, <3>2
  <2> QED
    BY <2>1 DEF CratesPast
<1>8. RowJob(j)'
  <2>1. Fresh(j)' /\ Reading(j)' /\ Banked(j)'
    BY <1>4 DEF Fresh, Reading, Banked
  <2>2. Informed(j)'
    BY <1>1, <1>6, OthersTurn, InformedStays
  <2>3. Parcelled(j) /\ Informed(j) /\ desk[j] \in Desks /\ parcel[j] # NoParcel
    BY <1>1, TheRole, Blanks
  <2>4. ASSUME desk[j].head # None, NEW d \in desk[j].head.segs
        PROVE  crates'[d].at < crates'[j].at
    <3>1. d \in Jobs \ {j}
      BY <2>3, <2>4, DeskParts DEF Informed
    <3>2. crates'[d] = crates[d] /\ crates[d].at < uploads
      BY <1>4, <3>1 DEF RowInv, CratesPast
    <3> QED
      BY <1>3, <1>4, <3>2
  <2>5. Parcelled(j)'
    BY <1>1, <1>3, <1>4, <2>3, <2>4 DEF Parcelled, PairsOf
  <2> QED
    BY <2>1, <2>2, <2>5 DEF RowJob
<1> QED
  BY <1>1, <1>5, <1>6, <1>7, <1>8, OthersTurn, RowShelfStays DEF RowInv

\* A job that ends keeps nothing.
LEMMA EndTurns ==
  ASSUME RowInv, NEW j \in Jobs, End(j), UNCHANGED crates
  PROVE  RowLocalTypes' /\ Turns(j) /\ RowJob(j)'
<1>1. /\ at \in [Jobs -> Stations] /\ desk \in [Jobs -> Desks] /\ rows \in [Jobs -> RowTables]
      /\ parcel \in [Jobs -> Parcels]
  BY TheRole DEF RowLocalTypes
<1>2. at'[j] = "over" /\ desk'[j] = Clear /\ parcel'[j] = NoParcel
  BY <1>1 DEF End
<1>3. RowLocalTypes'
  <2>1. at' \in [Jobs -> Stations] /\ desk' \in [Jobs -> Desks]
    BY <1>1, Blanks DEF End, Stations
  <2>2. rows' \in [Jobs -> RowTables] /\ parcel' \in [Jobs -> Parcels]
    BY <1>1, Blanks DEF End
  <2> QED
    BY <2>1, <2>2 DEF RowLocalTypes
<1>4. Turns(j)
  BY <1>1 DEF Turns, End
<1>5. RowJob(j)'
  BY <1>2, Blanks DEF RowJob, Fresh, Informed, Reading, Parcelled, Banked
<1> QED
  BY <1>3, <1>4, <1>5

LEMMA DropOutKeeps ==
  ASSUME RowInv, NEW j \in Jobs, DropOut(j)
  PROVE  RowInv'
<1>1. End(j) /\ UNCHANGED <<rolls, crates, lapsed, uploads>>
  BY DEF DropOut, rowShelf
<1>2. RowTypeOK'
  BY <1>1, EndTurns, TheRole, RowTypesKept DEF RowShelfTypes
<1> QED
  BY <1>1, <1>2, EndTurns, OneRoleTurns

\* The manifest that follows its container is lasting.
LEMMA StagedIsLasting ==
  ASSUME RowInv, NEW j \in Jobs, at[j] = "packed"
  PROVE  parcel[j].roll \in Rolls /\ Lasting(parcel[j].roll, Line[j], Role[j], crates)
<1> DEFINE m == parcel[j].roll
           head == desk[j].head
<1>1. /\ Parcelled(j) /\ Informed(j) /\ desk[j] \in Desks /\ crates \in [Jobs -> Crates]
  BY TheRole DEF RowShelfTypes
<1>2. /\ m \in Rolls /\ m.by = j /\ crates[j].rows = parcel[j].pack /\ parcel[j].pack # {}
      /\ \/ m.segs = {j} /\ m.list = crates[j].rows
         \/ /\ head # None /\ m.segs = head.segs \cup {j}
            /\ m.list = Collapse(head.list, crates[j].rows)
      /\ head # None => \A d \in head.segs : crates[d].at < crates[j].at
  BY <1>1 DEF Parcelled
<1>3. \A c \in Jobs : crates[c].rows \subseteq Pairs /\ crates[c].at \in Nat
  BY <1>1 DEF Crates
<1>4. head # None =>
        /\ Lasting(head, Line[j], Role[j], crates) /\ j \notin head.segs
        /\ head.segs \subseteq Jobs /\ head.list \subseteq Pairs
  BY <1>1, DeskParts DEF Informed
<1> HIDE DEF m, head
<1>5. CASE m.segs = {j} /\ m.list = crates[j].rows
  BY <1>2, <1>3, <1>5, NewIsLasting DEF m
<1>6. CASE /\ head # None /\ m.segs = head.segs \cup {j}
           /\ m.list = Collapse(head.list, crates[j].rows)
  <2>1. \A d \in head.segs : crates[d].at \in Nat /\ crates[d].at < crates[j].at
    BY <1>2, <1>3, <1>4, <1>6
  <2>2. Lasting(m, Line[j], Role[j], crates)
    BY <1>2, <1>3, <1>4, <1>6, <2>1, ChainIsLasting
  <2> QED
    BY <1>2, <2>2 DEF m
<1> QED
  BY <1>2, <1>5, <1>6

LEMMA UploadRollKeeps ==
  ASSUME RowInv, NEW j \in Jobs, UploadRoll(j)
  PROVE  RowInv'
<1> DEFINE m == [parcel[j].roll EXCEPT !.at = uploads]
           place == <<Line[j], Role[j]>>
<1>1. /\ at[j] = "packed" /\ End(j) /\ rolls' = [rolls EXCEPT ![place] = m]
      /\ uploads' = uploads + 1 /\ UNCHANGED <<crates, lapsed>>
  BY DEF UploadRoll
<1>2. /\ rolls \in [Lines \X Roles -> Rolls \cup {None}] /\ uploads \in Nat \ {0}
      /\ crates \in [Jobs -> Crates]
  BY TheRole DEF RowShelfTypes
<1>3. parcel[j].roll \in Rolls /\ Lasting(parcel[j].roll, Line[j], Role[j], crates)
  BY <1>1, StagedIsLasting
<1>4. /\ m \in Rolls /\ m.by = parcel[j].roll.by /\ m.segs = parcel[j].roll.segs
      /\ m.list = parcel[j].roll.list
  BY <1>2, <1>3 DEF Rolls
<1> HIDE DEF m
<1>5. Lasting(m, Line[j], Role[j], crates)
  BY <1>3, <1>4 DEF Lasting
<1>6. /\ rolls' \in [Lines \X Roles -> Rolls \cup {None}] /\ uploads' \in Nat \ {0}
      /\ \A lr \in Lines \X Roles : rolls'[lr] = rolls[lr] \/ (lr = place /\ rolls'[lr] = m)
  <2>1. uploads' \in Nat \ {0}
    BY <1>1, <1>2
  <2>2. rolls' = [rolls EXCEPT ![place] = m]
    BY <1>1
  <2> HIDE DEF place
  <2> QED
    BY <1>2, <1>4, <2>1, <2>2
<1>7. RowTypeOK'
  BY <1>1, <1>6, EndTurns, TheRole, RowTypesKept DEF RowShelfTypes
<1>8. RowsShelfLasts'
  <2> SUFFICES ASSUME NEW lr \in Lines \X Roles, rolls'[lr] # None
               PROVE  Lasting(rolls'[lr], lr[1], lr[2], crates)
    BY <1>1 DEF RowsShelfLasts
  <2>1. CASE rolls'[lr] = rolls[lr]
    BY <2>1 DEF RowInv, RowsShelfLasts
  <2>2. CASE lr = place /\ rolls'[lr] = m
    <3>1. lr[1] = Line[j] /\ lr[2] = Role[j]
      BY <2>2
    <3> QED
      BY <1>5, <2>2, <3>1
  <2> QED
    BY <1>6, <2>1, <2>2
<1>9. CratesPast'
  <2>1. ASSUME NEW c \in Jobs PROVE crates[c].at < uploads + 1
    <3>1. crates[c].at < uploads /\ crates[c].at \in Nat
      BY <1>2 DEF RowInv, CratesPast, Crates
    <3> QED
      BY <1>2, <3>1
  <2> QED
    BY <1>1, <2>1 DEF CratesPast
<1> QED
  BY <1>1, <1>7, <1>8, <1>9, EndTurns, OthersTurn DEF RowInv

\* Containers lapse; nothing else changes.
LEMMA LapseKeeps ==
  ASSUME RowInv, UNCHANGED <<rolls, crates, uploads, at, desk, rows, parcel>>,
         lapsed' \in SUBSET Jobs
  PROVE  RowInv'
<1>1. RowShelfTypes /\ RowLocalTypes /\ RowsShelfLasts /\ CratesPast /\ \A j \in Jobs : RowJob(j)
  BY RowTypes DEF RowInv
<1>2. RowTypeOK'
  BY <1>1, RowTypesKept DEF RowShelfTypes, RowLocalTypes
<1>3. RowsShelfLasts' /\ CratesPast'
  BY <1>1 DEF RowsShelfLasts, CratesPast
<1>4. ASSUME NEW j \in Jobs PROVE RowJob(j)'
  BY <1>1 DEF RowJob, Fresh, Informed, Trusted, Reading, Parcelled, Banked, PairsOf
<1> QED
  BY <1>2, <1>3, <1>4 DEF RowInv

LEMMA RowInductive == RowInv /\ [RowNext]_rowVars => RowInv'
<1> SUFFICES ASSUME RowInv, [RowNext]_rowVars PROVE RowInv'
  OBVIOUS
<1>0. lapsed \in SUBSET Jobs
  BY RowTypes DEF RowInv, RowShelfTypes
<1>1. CASE UNCHANGED rowVars
  <2>1. UNCHANGED <<rolls, crates, uploads, at, desk, rows, parcel>> /\ lapsed' = lapsed
    BY <1>1 DEF rowVars
  <2> QED
    BY <1>0, <2>1, LapseKeeps
<1>2. CASE RowNext
  <2> SUFFICES ASSUME NEW j \in Jobs,
                      \/ FindOwn(j) \/ ListTrunk(j) \/ ListRoles(j) \/ MakePlan(j) \/ LayNext(j)
                      \/ PurgeRestored(j) \/ BreakOff(j) \/ Execute(j)
                      \/ PublishRows(j) \/ UploadCrate(j) \/ UploadRoll(j) \/ DropOut(j) \/ Lapse(j)
               PROVE  RowInv'
    BY <1>2 DEF RowNext
  <2>1. CASE FindOwn(j) \/ ListTrunk(j) \/ ListRoles(j) \/ MakePlan(j)
    BY <2>1, FindOwnKeeps, ListTrunkKeeps, ListRolesKeeps, MakePlanKeeps
  <2>2. CASE LayNext(j) \/ PurgeRestored(j) \/ BreakOff(j) \/ Execute(j)
    BY <2>2, LayNextKeeps, PurgeRestoredKeeps, BreakOffKeeps, ExecuteKeeps
  <2>3. CASE PublishRows(j) \/ UploadCrate(j) \/ UploadRoll(j) \/ DropOut(j)
    BY <2>3, PublishRowsKeeps, UploadCrateKeeps, UploadRollKeeps, DropOutKeeps
  <2>4. CASE Lapse(j)
    <3>1. UNCHANGED <<rolls, crates, uploads, at, desk, rows, parcel>> /\ lapsed' = lapsed \cup {j}
      BY <2>4 DEF Lapse
    <3> QED
      BY <1>0, <3>1, LapseKeeps
  <2> QED
    BY <2>1, <2>2, <2>3, <2>4
<1> QED
  BY <1>1, <1>2

LEMMA RowInvHolds == RowSpec => []RowInv
BY RowInitially, RowInductive, PTL DEF RowSpec

\* Desks, plans, rows and what is staged have the forms that the steps take them for.
THEOREM RowTypeCorrect == RowSpec => []RowTypeOK
<1>1. RowInv => RowTypeOK
  BY DEF RowInv
<1> QED
  BY <1>1, RowInvHolds, PTL

\* The list that publish compares with is what laying the containers in order gives:
\* a chained manifest is the head's with the newest pairs on top, and its container
\* is laid last, unless a run overtook an older one.
THEOREM ListsAreTrue == RowSpec => []ListsMatchSegments
<1>1. ASSUME RowInv, NEW lr \in Lines \X Roles, rolls[lr] # None, InOrder(rolls[lr])
      PROVE  rolls[lr].list = LastWord(Steps([rank |-> 1, roll |-> rolls[lr]]))
  <2>1. rolls[lr] \in Rolls /\ Lasting(rolls[lr], lr[1], lr[2], crates)
    BY <1>1, RowTypes DEF RowInv, RowsShelfLasts, RowShelfTypes
  <2>2. rolls[lr].list = LastPairs(crates, rolls[lr].segs)
    BY <1>1, <2>1 DEF Lasting, InOrder
  <2>3. \A c \in rolls[lr].segs : Role[c] = lr[2]
    BY <2>1 DEF Lasting
  <2> QED
    BY <2>1, <2>2, <2>3, LaidByRun
<1>2. RowInv => ListsMatchSegments
  BY <1>1 DEF ListsMatchSegments
<1> QED
  BY <1>2, RowInvHolds, PTL

\* What a lap leaves in its store is banked, or the next restore lays it down: a
\* pair that is not staged is named by a manifest; if only by the own one, no
\* other lies over it, and what the own one lists is what its containers give.
THEOREM RowsComeBack == RowSpec => []RowsSurviveTheLap
<1>1. ASSUME RowInv, NEW j \in Jobs, at[j] = "staged", ~desk[j].unknown,
             NEW pr \in PairsOf(rows[j]), pr \notin parcel[j].pack,
             ~(\E c \in lapsed : pr \in crates[c].rows)
      PROVE  LET head   == desk[j].head
                 others == {s \in desk[j].sources : s.roll # head}
                 next   == IF parcel[j].roll = None THEN head ELSE parcel[j].roll
                 mine   == IF next = None THEN {} ELSE next.segs \ {j}
                 laid   == LastWord(Alive((UNION {Steps(s) : s \in others})
                                            \cup {[rank |-> 1, job |-> c] : c \in mine}))
             IN \/ pr \in laid /\ \A fr \in parcel[j].pack : fr[1] # pr[1]
                \/ pr \in desk[j].known /\ \E s \in others : \E kr \in s.roll.list : kr[1] = pr[1]
                \/ head # None /\ ~InOrder(head)
  <2> DEFINE head   == desk[j].head
             others == {s \in desk[j].sources : s.roll # head}
             next   == IF parcel[j].roll = None THEN head ELSE parcel[j].roll
             mine   == IF next = None THEN {} ELSE next.segs \ {j}
             own    == {[rank |-> 1, job |-> c] : c \in mine}
             steps  == (UNION {Steps(s) : s \in others}) \cup own
  <2>1. /\ Fresh(j) /\ Informed(j) /\ Parcelled(j) /\ Banked(j) /\ desk[j] \in Desks
        /\ lapsed \in SUBSET Jobs
    BY <1>1, TheRole DEF RowShelfTypes
  <2> SUFFICES ASSUME head # None => InOrder(head),
                      ~(pr \in desk[j].known /\ \E s \in others : \E kr \in s.roll.list : kr[1] = pr[1])
               PROVE  pr \in LastWord(Alive(steps)) /\ \A fr \in parcel[j].pack : fr[1] # pr[1]
    OBVIOUS
  <2>2. pr \in Pairs /\ pr \in desk[j].known
    BY <1>1, <2>1 DEF Banked, PairsOf
  <2>3. \A s \in others : \A kr \in s.roll.list : kr[1] # pr[1]
    BY <2>2
  <2>4. PICK src \in desk[j].sources : pr \in src.roll.list
    BY <2>1, <2>2 DEF Informed
  <2>5. head = src.roll /\ head \in Rolls /\ head # None
    <3>1. src.roll = head
      BY <2>3, <2>4
    <3> QED
      BY <2>1, <3>1, DeskParts, RowAssumption DEF RowAssumption
  <2>6. /\ Lasting(head, Line[j], Role[j], crates) /\ j \notin head.segs
        /\ head.segs \subseteq Jobs
    BY <2>1, <2>5, DeskParts DEF Informed
  <2>7. mine = head.segs
    <3>1. CASE parcel[j] = NoParcel
      BY <2>5, <2>6, <3>1, Blanks
    <3>2. CASE parcel[j] # NoParcel
      <4>1. /\ parcel[j].roll \in Rolls /\ parcel[j].roll # None
            /\ parcel[j].roll.segs = head.segs \cup {j}
        BY <1>1, <2>1, <2>5, <3>2, RowAssumption DEF Parcelled, RowAssumption
      <4> QED
        BY <2>6, <4>1
    <3> QED
      BY <3>1, <3>2
  <2>8. PICK c \in head.segs :
          /\ pr \in crates[c].rows
          /\ \A d \in head.segs : Names(crates, d, pr[1]) => ~(Run[c] < Run[d])
    <3>1. head.list = LastPairs(crates, head.segs)
      BY <2>5, <2>6 DEF Lasting, InOrder
    <3> QED
      BY <2>4, <2>5, <3>1 DEF LastPairs
  <2> DEFINE last == [rank |-> 1, job |-> c]
  <2>9. last \in Alive(steps) /\ last.job = c
    <3>1. c \notin lapsed
      BY <1>1, <2>8
    <3>2. last \in own
      BY <2>7
    <3> QED
      BY <3>1, <3>2 DEF Alive
  <2>10. ASSUME NEW t \in Alive(steps), \E v \in Results : <<pr[1], v>> \in crates[t.job].rows
         PROVE  ~Before(last, t)
    <3>1. CASE t \in own
      <4>1. PICK d \in head.segs : t = [rank |-> 1, job |-> d]
        BY <2>7, <3>1
      <4>2. Names(crates, d, pr[1]) /\ Role[c] = Role[d]
        BY <2>6, <2>8, <2>10, <4>1 DEF Names, Lasting
      <4> QED
        BY <2>6, <2>8, <4>1, <4>2, RunsDecide
    <3>2. CASE t \notin own
      <4>1. PICK s \in others : t \in Steps(s)
        BY <2>10, <3>2 DEF Alive
      <4>2. t.job \in s.roll.segs
        BY <4>1 DEF Steps
      <4>3. PICK v \in Results : <<pr[1], v>> \in crates[t.job].rows
        BY <2>10
      <4>4. \E kr \in s.roll.list : kr[1] = <<pr[1], v>>[1]
        BY <2>1, <4>1, <4>2, <4>3 DEF Informed, Trusted, Lasting
      <4> QED
        BY <2>3, <4>1, <4>4
    <3> QED
      BY <3>1, <3>2
  <2>11. pr \in LastWord(Alive(steps))
    <3>1. pr[2] \in Results /\ pr = <<pr[1], pr[2]>>
      BY <2>2 DEF Pairs
    <3>2. last \in Holding(Alive(steps), pr[1])
      BY <2>8, <2>9, <3>1 DEF Holding
    <3>3. \A t \in Holding(Alive(steps), pr[1]) : ~Before(last, t)
      BY <2>10 DEF Holding
    <3> HIDE DEF last, steps
    <3> QED
      BY <2>2, <2>8, <2>9, <3>2, <3>3 DEF LastWord
  <2>12. ASSUME NEW fr \in parcel[j].pack PROVE fr[1] # pr[1]
    <3>1. fr \in PairsOf(rows[j])
      BY <1>1, <2>1 DEF Banked
    <3> QED
      BY <1>1, <3>1 DEF PairsOf, Pairs
  <2> QED
    BY <2>11, <2>12
<1>2. RowInv => RowsSurviveTheLap
  BY <1>1 DEF RowsSurviveTheLap
<1> QED
  BY <1>2, RowInvHolds, PTL
-----------------------------------------------------------------------------
(* The graph-state bank                                                    *)

\* Jobs whose container is on the shelf, or that will not upload one any more.
Landed == {c \in Drivers : phase[c] \in {"shelved", "over"}}
RowsIn(segs, vols) == UNION {vols[c] : c \in segs}

\* What a manifest promises, given who has landed and what the containers hold.
Whole(m, landed, vols) ==
  /\ m.segs \subseteq landed
  /\ m.list \subseteq RowsIn(m.segs, vols)
  /\ m.meta \subseteq m.list

ShelfWhole == \A l \in Lines : graphs[l] # None => Whole(graphs[l], Landed, volumes)

\* The head a job restored.
HeadWhole(j) == page[j].head # None => Whole(page[j].head, Landed, volumes)

\* What publish staged is whole once its own container is on the shelf.
BundleWhole(j) ==
  bundle[j].graph # None =>
    /\ phase[j] \in {"bundled", "shelved"}
    /\ j \in bundle[j].graph.segs
    /\ bundle[j].graph.segs \ {j} \subseteq Landed
    /\ bundle[j].graph.list \subseteq
         RowsIn(bundle[j].graph.segs \ {j}, volumes) \cup bundle[j].rows
    /\ bundle[j].graph.meta \subseteq bundle[j].graph.list

\* A container is on the shelf when the phase says so.
VolumeLanded(j) ==
  /\ j \notin Landed => volumes[j] = {}
  /\ phase[j] = "shelved" => bundle[j].graph # None /\ volumes[j] = bundle[j].rows

\* What has been merged is there.
MergedSoFar(j) ==
  phase[j] = "merging" =>
    /\ page[j].head # None
    /\ page[j].merge \subseteq page[j].head.segs
    /\ dice[j].meta = page[j].head.meta
    /\ RowsIn(page[j].head.segs \ page[j].merge, volumes) \subseteq dice[j].db

\* Between a restore and the publish a skeleton refers to rows that are there.
SkeletonHeld(j) ==
  /\ phase[j] = "waiting" => dice[j] = Fallow
  /\ phase[j] = "running" => dice[j] = Fallow \/ dice[j].meta # None
  /\ phase[j] \in {"running", "run"} => dice[j].meta = None \/ dice[j].meta \subseteq dice[j].db

EngineInv(j) ==
  HeadWhole(j) /\ BundleWhole(j) /\ VolumeLanded(j) /\ MergedSoFar(j) /\ SkeletonHeld(j)

GraphInv == GraphTypeOK /\ ShelfWhole /\ \A j \in Drivers : EngineInv(j)

Phases   == {"waiting", "merging", "running", "run", "bundled", "shelved", "over"}
Pages    == [head : Graphs \cup {None}, merge : SUBSET Drivers]
Engines  == [db : SUBSET Keys, meta : Skeletons]
Bundles  == [rows : SUBSET Keys, graph : Graphs \cup {None}]

LEMMA GraphTypes ==
  GraphTypeOK <=>
    /\ graphs \in [Lines -> Graphs \cup {None}]
    /\ volumes \in [Drivers -> SUBSET Keys]
    /\ faded \in SUBSET Drivers
    /\ phase \in [Jobs -> Phases]
    /\ page \in [Drivers -> Pages]
    /\ dice \in [Drivers -> Engines]
    /\ bundle \in [Drivers -> Bundles]
BY DEF GraphTypeOK, Phases, Pages, Engines, Bundles

LEMMA TypesKept ==
  ASSUME graphs' \in [Lines -> Graphs \cup {None}], volumes' \in [Drivers -> SUBSET Keys],
         faded' \in SUBSET Drivers, phase' \in [Jobs -> Phases], page' \in [Drivers -> Pages],
         dice' \in [Drivers -> Engines], bundle' \in [Drivers -> Bundles]
  PROVE  GraphTypeOK'
BY DEF GraphTypeOK, Phases, Pages, Engines, Bundles

\* The empty records have their types.
LEMMA Untouched ==
  /\ Blank \in Pages /\ Fallow \in Engines /\ NoBundle \in Bundles
  /\ Blank.head = None /\ Blank.merge = {}
  /\ Fallow.db = {} /\ Fallow.meta = None
  /\ NoBundle.rows = {} /\ NoBundle.graph = None
BY DEF Blank, Fallow, NoBundle, Pages, Engines, Bundles, Skeletons

LEMMA GraphFields ==
  ASSUME NEW g \in Graphs
  PROVE  /\ g # None
         /\ g.segs \in SUBSET Drivers /\ g.list \in SUBSET Keys /\ g.meta \in SUBSET Keys
         /\ g.meta # None /\ g.meta \in Skeletons
BY GraphAssumption DEF Graphs, Skeletons

-----------------------------------------------------------------------------
LEMMA GraphInitially == GraphInit => GraphInv
<1> SUFFICES ASSUME GraphInit PROVE GraphInv
  OBVIOUS
<1>1. /\ \A l \in Lines : graphs[l] = None
      /\ \A j \in Drivers : /\ volumes[j] = {} /\ phase[j] = "waiting"
                            /\ page[j] = Blank /\ dice[j] = Fallow /\ bundle[j] = NoBundle
  BY GraphAssumption DEF GraphInit, GraphAssumption
<1>2. GraphTypeOK
  <2>1. phase \in [Jobs -> Phases]
    BY DEF GraphInit, Phases
  <2>2. graphs \in [Lines -> Graphs \cup {None}] /\ volumes \in [Drivers -> SUBSET Keys]
        /\ faded \in SUBSET Drivers
    BY DEF GraphInit
  <2>3. page \in [Drivers -> Pages] /\ dice \in [Drivers -> Engines]
        /\ bundle \in [Drivers -> Bundles]
    BY Untouched DEF GraphInit
  <2> QED
    BY <2>1, <2>2, <2>3, GraphTypes
<1>3. ShelfWhole
  BY <1>1 DEF ShelfWhole
<1>4. ASSUME NEW j \in Drivers PROVE EngineInv(j)
  BY <1>1, Untouched DEF EngineInv, HeadWhole, BundleWhole, VolumeLanded, MergedSoFar, SkeletonHeld
<1> QED
  BY <1>2, <1>3, <1>4 DEF GraphInv

-----------------------------------------------------------------------------
(* What every step of one job leaves alone.                                *)

\* The other jobs stay as they are, and a container that landed stays.
DriverMoves(j) ==
  /\ \A k \in Drivers \ {j} :
       /\ phase'[k] = phase[k] /\ page'[k] = page[k] /\ dice'[k] = dice[k]
       /\ bundle'[k] = bundle[k] /\ volumes'[k] = volumes[k]
  /\ j \in Landed => volumes'[j] = volumes[j] /\ phase'[j] \in {"shelved", "over"}

LEMMA WholeStays ==
  ASSUME NEW m, NEW landed, NEW vols, NEW more, NEW grown, Whole(m, landed, vols),
         landed \subseteq more, \A c \in landed : grown[c] = vols[c]
  PROVE  Whole(m, more, grown)
BY DEF Whole, RowsIn

LEMMA OtherDriversStay ==
  ASSUME GraphInv, NEW j \in Drivers, DriverMoves(j)
  PROVE  /\ Landed \subseteq Landed'
         /\ \A c \in Landed : volumes'[c] = volumes[c]
         /\ \A k \in Drivers \ {j} : EngineInv(k)'
<1>1. Landed \subseteq Landed' /\ \A c \in Landed : volumes'[c] = volumes[c]
  BY DEF DriverMoves, Landed
<1>2. ASSUME NEW k \in Drivers \ {j} PROVE EngineInv(k)'
  <2>1. /\ phase'[k] = phase[k] /\ page'[k] = page[k] /\ dice'[k] = dice[k]
        /\ bundle'[k] = bundle[k] /\ volumes'[k] = volumes[k]
    BY DEF DriverMoves
  <2>2. EngineInv(k)
    BY DEF GraphInv
  <2>3. HeadWhole(k)'
    BY <1>1, <2>1, <2>2, WholeStays DEF HeadWhole, EngineInv
  <2>4. BundleWhole(k)'
    <3>1. \A S : S \subseteq Landed => RowsIn(S, volumes') = RowsIn(S, volumes)
      BY <1>1 DEF RowsIn
    <3> QED
      BY <1>1, <2>1, <2>2, <3>1 DEF BundleWhole, EngineInv
  <2>5. VolumeLanded(k)'
    BY <2>1, <2>2 DEF VolumeLanded, EngineInv, Landed
  <2>6. MergedSoFar(k)'
    <3> SUFFICES ASSUME phase[k] = "merging" PROVE MergedSoFar(k)'
      BY <2>1 DEF MergedSoFar
    <3>1. page[k].head.segs \subseteq Landed
      BY <2>2 DEF MergedSoFar, HeadWhole, Whole, EngineInv
    <3>2. RowsIn(page[k].head.segs \ page[k].merge, volumes')
            = RowsIn(page[k].head.segs \ page[k].merge, volumes)
      BY <1>1, <3>1 DEF RowsIn
    <3> QED
      BY <2>1, <2>2, <3>2 DEF MergedSoFar, EngineInv
  <2>7. SkeletonHeld(k)'
    BY <2>1, <2>2 DEF SkeletonHeld, EngineInv
  <2> QED
    BY <2>3, <2>4, <2>5, <2>6, <2>7 DEF EngineInv
<1> QED
  BY <1>1, <1>2

\* A step that leaves the shelf's manifests alone.
LEMMA VolumesStay ==
  ASSUME GraphInv, NEW j \in Drivers, DriverMoves(j), UNCHANGED graphs
  PROVE  ShelfWhole'
BY OtherDriversStay, WholeStays DEF GraphInv, ShelfWhole

\* So it is enough to look at the job that moves.
LEMMA OneDriverMoves ==
  ASSUME GraphInv, NEW j \in Drivers, DriverMoves(j), UNCHANGED graphs, GraphTypeOK', EngineInv(j)'
  PROVE  GraphInv'
BY OtherDriversStay, VolumesStay DEF GraphInv

-----------------------------------------------------------------------------
(* The steps                                                               *)

LEMMA OpenGraphKeeps ==
  ASSUME GraphInv, NEW j \in Drivers, OpenGraph(j)
  PROVE  GraphInv'
<1> DEFINE h == Inherited(Line[j])
           m == IF h = None THEN None ELSE h.meta
           pg == [head |-> h, merge |-> IF h = None THEN {} ELSE h.segs]
<1>1. h \in Graphs \cup {None} /\ (h # None => Whole(h, Landed, volumes))
  BY GraphTypes, LapsAssumption, GraphAssumption
     DEF Inherited, GraphInv, ShelfWhole, LapsAssumption, GraphAssumption
<1>2. /\ phase[j] = "waiting"
      /\ page' = [page EXCEPT ![j] = pg]
      /\ dice' = [dice EXCEPT ![j].meta = m]
      /\ phase' = [phase EXCEPT ![j] = IF h = None THEN "running" ELSE "merging"]
      /\ UNCHANGED <<graphs, volumes, faded, bundle>>
  BY DEF OpenGraph, Ready, graphShelf
<1>3. h # None => h \in Graphs /\ h.segs \in SUBSET Drivers /\ m # None /\ m \in Skeletons
  BY <1>1, GraphFields
<1>4. pg \in Pages /\ pg.head = h /\ pg.merge = IF h = None THEN {} ELSE h.segs
  BY <1>1, <1>3 DEF Pages
<1>5. m \in Skeletons /\ (h = None => m = None) /\ (h # None => m = h.meta)
  BY <1>3 DEF Skeletons
<1> HIDE DEF h, m, pg
<1>6. /\ dice[j] = Fallow /\ dice[j].db = {} /\ dice[j].meta = None /\ j \notin Landed
      /\ volumes[j] = {} /\ bundle[j].graph = None
  BY <1>2, Untouched DEF GraphInv, EngineInv, SkeletonHeld, Landed, VolumeLanded, BundleWhole
<1>7. /\ j \in Jobs /\ dice \in [Drivers -> Engines] /\ page \in [Drivers -> Pages]
      /\ phase \in [Jobs -> Phases]
  BY GraphTypes, GraphAssumption DEF GraphInv, GraphAssumption
<1>8. /\ page'[j] = pg /\ dice'[j] = [Fallow EXCEPT !.meta = m] 
      /\ phase'[j] = IF h = None THEN "running" ELSE "merging"
  BY <1>2, <1>6, <1>7
<1>9. /\ dice'[j] \in Engines /\ dice'[j].db = {} /\ dice'[j].meta = m
      /\ h = None => dice'[j] = Fallow
  BY <1>5, <1>8 DEF Fallow, Engines
<1>10. DriverMoves(j)
  BY <1>2, <1>6, <1>7, GraphAssumption DEF DriverMoves, GraphAssumption
<1>11. GraphTypeOK'
  <2>1. page' \in [Drivers -> Pages] /\ dice' \in [Drivers -> Engines]
        /\ phase' \in [Jobs -> Phases]
    BY <1>2, <1>4, <1>7, <1>8, <1>9 DEF Phases
  <2> QED
    BY <1>2, <2>1, TypesKept, GraphTypes DEF GraphInv
<1>12. EngineInv(j)'
  <2>1. HeadWhole(j)'
    BY <1>1, <1>2, <1>4, <1>8, <1>10, OtherDriversStay, WholeStays DEF HeadWhole
  <2>2. BundleWhole(j)' /\ VolumeLanded(j)'
    BY <1>2, <1>6, <1>8 DEF BundleWhole, VolumeLanded
  <2>3. MergedSoFar(j)'
    BY <1>4, <1>5, <1>8, <1>9 DEF MergedSoFar, RowsIn
  <2>4. SkeletonHeld(j)'
    BY <1>8, <1>9, Untouched DEF SkeletonHeld
  <2> QED
    BY <2>1, <2>2, <2>3, <2>4 DEF EngineInv
<1> QED
  BY <1>2, <1>10, <1>11, <1>12, OneDriverMoves

\* What is known of the job that moves.
LEMMA TheDriver ==
  ASSUME GraphInv, NEW j \in Drivers
  PROVE  /\ j \in Jobs /\ phase[j] \in Phases /\ page[j] \in Pages /\ dice[j] \in Engines
         /\ bundle[j] \in Bundles /\ volumes[j] \in SUBSET Keys
         /\ graphs \in [Lines -> Graphs \cup {None}] /\ volumes \in [Drivers -> SUBSET Keys]
         /\ faded \in SUBSET Drivers /\ phase \in [Jobs -> Phases]
         /\ page \in [Drivers -> Pages] /\ dice \in [Drivers -> Engines]
         /\ bundle \in [Drivers -> Bundles]
         /\ HeadWhole(j) /\ BundleWhole(j) /\ VolumeLanded(j) /\ MergedSoFar(j) /\ SkeletonHeld(j)
BY GraphTypes, GraphAssumption DEF GraphInv, EngineInv, GraphAssumption

LEMMA MergeVolumeKeeps ==
  ASSUME GraphInv, NEW j \in Drivers, MergeVolume(j)
  PROVE  GraphInv'
<1>1. PICK c \in page[j].merge \ faded :
        /\ page' = [page EXCEPT ![j].merge = @ \ {c}]
        /\ dice' = [dice EXCEPT ![j].db = Replayed(@, c)]
  BY DEF MergeVolume
<1>2. phase[j] = "merging" /\ UNCHANGED <<graphs, volumes, faded, phase, bundle>>
  BY DEF MergeVolume, graphShelf
<1>3. /\ page[j].merge \in SUBSET Drivers /\ page[j].head \in Graphs \cup {None}
      /\ dice[j].db \in SUBSET Keys /\ dice[j].meta \in Skeletons /\ c \in Drivers
      /\ volumes[c] \in SUBSET Keys /\ j \notin Landed
  BY <1>2, TheDriver DEF Pages, Engines, Landed
<1>4. /\ page'[j] = [head |-> page[j].head, merge |-> page[j].merge \ {c}]
      /\ dice'[j] = [db |-> dice[j].db \cup volumes[c], meta |-> dice[j].meta]
  BY <1>1, TheDriver DEF Pages, Engines, Replayed
<1>5. page'[j] \in Pages /\ dice'[j] \in Engines
  BY <1>3, <1>4 DEF Pages, Engines
<1>6. GraphTypeOK'
  <2>1. page' \in [Drivers -> Pages] /\ dice' \in [Drivers -> Engines]
    BY <1>1, <1>5, TheDriver
  <2> QED
    BY <1>2, <2>1, TypesKept, TheDriver
<1>7. DriverMoves(j)
  BY <1>1, <1>2, <1>3, TheDriver DEF DriverMoves
<1>8. EngineInv(j)'
  <2>1. HeadWhole(j)'
    BY <1>2, <1>4, <1>7, TheDriver, OtherDriversStay, WholeStays DEF HeadWhole
  <2>2. BundleWhole(j)' /\ VolumeLanded(j)'
    BY <1>2, <1>3, TheDriver DEF BundleWhole, VolumeLanded
  <2>3. MergedSoFar(j)'
    BY <1>2, <1>4, TheDriver DEF MergedSoFar, RowsIn
  <2>4. SkeletonHeld(j)'
    BY <1>2 DEF SkeletonHeld
  <2> QED
    BY <2>1, <2>2, <2>3, <2>4 DEF EngineInv
<1> QED
  BY <1>2, <1>6, <1>7, <1>8, OneDriverMoves

LEMMA ColdLoadKeeps ==
  ASSUME GraphInv, NEW j \in Drivers, ColdLoad(j)
  PROVE  GraphInv'
<1>1. /\ phase[j] = "merging" /\ UNCHANGED <<graphs, volumes, faded, bundle>>
      /\ page' = [page EXCEPT ![j].merge = {}]
      /\ dice' = [dice EXCEPT ![j] = Fallow]
      /\ phase' = [phase EXCEPT ![j] = "running"]
  BY DEF ColdLoad, graphShelf
<1>2. /\ page'[j] = [head |-> page[j].head, merge |-> {}]
      /\ dice'[j] = Fallow /\ phase'[j] = "running" /\ j \notin Landed
  <2>1. j \in Jobs /\ page[j] \in Pages /\ page \in [Drivers -> Pages]
        /\ dice \in [Drivers -> Engines] /\ phase \in [Jobs -> Phases]
    BY TheDriver
  <2>2. dice'[j] = Fallow /\ phase'[j] = "running"
    BY <1>1, <2>1
  <2>3. page'[j] = [head |-> page[j].head, merge |-> {}]
    BY <1>1, <2>1 DEF Pages
  <2>4. j \notin Landed
    BY <1>1 DEF Landed
  <2> QED
    BY <2>2, <2>3, <2>4
<1>3. page'[j] \in Pages
  BY <1>2, TheDriver DEF Pages
<1>4. GraphTypeOK'
  <2>1. page' \in [Drivers -> Pages] /\ dice' \in [Drivers -> Engines]
        /\ phase' \in [Jobs -> Phases]
    BY <1>1, <1>3, Untouched, TheDriver DEF Phases
  <2> QED
    BY <1>1, <2>1, TypesKept, TheDriver
<1>5. DriverMoves(j)
  BY <1>1, <1>2, TheDriver, GraphAssumption DEF DriverMoves, GraphAssumption
<1>6. EngineInv(j)'
  <2>1. HeadWhole(j)'
    BY <1>1, <1>2, <1>5, TheDriver, OtherDriversStay, WholeStays DEF HeadWhole
  <2>2. BundleWhole(j)' /\ VolumeLanded(j)'
    BY <1>1, <1>2, TheDriver DEF BundleWhole, VolumeLanded
  <2>3. MergedSoFar(j)' /\ SkeletonHeld(j)'
    BY <1>2, Untouched DEF MergedSoFar, SkeletonHeld
  <2> QED
    BY <2>1, <2>2, <2>3 DEF EngineInv
<1> QED
  BY <1>1, <1>4, <1>5, <1>6, OneDriverMoves

LEMMA HydrateKeeps ==
  ASSUME GraphInv, NEW j \in Drivers, Hydrate(j)
  PROVE  GraphInv'
<1>1. /\ phase[j] = "merging" /\ page[j].merge = {}
      /\ phase' = [phase EXCEPT ![j] = "running"]
      /\ UNCHANGED <<graphs, volumes, faded, page, dice, bundle>>
  BY DEF Hydrate, graphShelf
<1>2. phase'[j] = "running" /\ j \notin Landed
  BY <1>1, TheDriver DEF Landed
<1>3. GraphTypeOK'
  <2>1. phase' \in [Jobs -> Phases]
    BY <1>1, TheDriver DEF Phases
  <2> QED
    BY <1>1, <2>1, TypesKept, TheDriver
<1>4. DriverMoves(j)
  BY <1>1, <1>2, TheDriver, GraphAssumption DEF DriverMoves, GraphAssumption
<1>5. dice[j].meta # None /\ dice[j].meta \subseteq dice[j].db
  <2>1. page[j].head \in Graphs /\ Whole(page[j].head, Landed, volumes)
    BY <1>1, TheDriver DEF MergedSoFar, HeadWhole, Pages
  <2>2. page[j].head.list \subseteq RowsIn(page[j].head.segs \ page[j].merge, volumes)
    BY <1>1, <2>1 DEF Whole
  <2> QED
    BY <1>1, <2>1, <2>2, TheDriver, GraphFields DEF MergedSoFar, Whole
<1>6. EngineInv(j)'
  <2>1. HeadWhole(j)'
    BY <1>1, <1>4, TheDriver, OtherDriversStay, WholeStays DEF HeadWhole
  <2>2. BundleWhole(j)' /\ VolumeLanded(j)'
    BY <1>1, <1>2, TheDriver DEF BundleWhole, VolumeLanded
  <2>3. MergedSoFar(j)' /\ SkeletonHeld(j)'
    BY <1>1, <1>2, <1>5 DEF MergedSoFar, SkeletonHeld
  <2> QED
    BY <2>1, <2>2, <2>3 DEF EngineInv
<1> QED
  BY <1>1, <1>3, <1>4, <1>6, OneDriverMoves

LEMMA RunEngineKeeps ==
  ASSUME GraphInv, NEW j \in Drivers, RunEngine(j)
  PROVE  GraphInv'
<1>1. PICK new \in SUBSET Learns[j] :
        \E meta \in {dice[j].meta} \cup SUBSET (dice[j].db \cup new) :
          dice' = [dice EXCEPT ![j] = [db |-> dice[j].db \cup new, meta |-> meta]]
  BY DEF RunEngine
<1>2. PICK meta \in {dice[j].meta} \cup SUBSET (dice[j].db \cup new) :
        dice' = [dice EXCEPT ![j] = [db |-> dice[j].db \cup new, meta |-> meta]]
  BY <1>1
<1>3. /\ phase[j] = "running" /\ phase' = [phase EXCEPT ![j] = "run"]
      /\ UNCHANGED <<graphs, volumes, faded, page, bundle>>
  BY DEF RunEngine, graphShelf
<1>4. /\ phase'[j] = "run" /\ j \notin Landed
      /\ dice'[j] = [db |-> dice[j].db \cup new, meta |-> meta]
  BY <1>2, <1>3, TheDriver DEF Landed
<1>5. meta = None \/ meta \subseteq dice[j].db \cup new
  BY <1>3, TheDriver DEF SkeletonHeld
<1>6. dice'[j] \in Engines
  <2>1. new \in SUBSET Keys /\ dice[j].db \in SUBSET Keys
    BY TheDriver, GraphAssumption DEF Engines, GraphAssumption
  <2> QED
    BY <1>4, <1>5, <2>1 DEF Engines, Skeletons
<1>7. GraphTypeOK'
  <2>1. dice' \in [Drivers -> Engines] /\ phase' \in [Jobs -> Phases]
    BY <1>2, <1>3, <1>4, <1>6, TheDriver DEF Phases
  <2> QED
    BY <1>3, <2>1, TypesKept, TheDriver
<1>8. DriverMoves(j)
  BY <1>2, <1>3, <1>4, TheDriver, GraphAssumption DEF DriverMoves, GraphAssumption
<1>9. EngineInv(j)'
  <2>1. HeadWhole(j)'
    BY <1>3, <1>8, TheDriver, OtherDriversStay, WholeStays DEF HeadWhole
  <2>2. BundleWhole(j)' /\ VolumeLanded(j)'
    BY <1>3, <1>4, TheDriver DEF BundleWhole, VolumeLanded
  <2>3. MergedSoFar(j)' /\ SkeletonHeld(j)'
    BY <1>4, <1>5 DEF MergedSoFar, SkeletonHeld
  <2> QED
    BY <2>1, <2>2, <2>3 DEF EngineInv
<1> QED
  BY <1>3, <1>7, <1>8, <1>9, OneDriverMoves

\* What publish stages names what the head named and the new container.
LEMMA BundleIsWhole ==
  ASSUME GraphInv, NEW j \in Drivers, phase[j] = "run", Bundle(j) # NoBundle
  PROVE  /\ Bundle(j) \in Bundles /\ Bundle(j).graph # None
         /\ j \in Bundle(j).graph.segs
         /\ Bundle(j).graph.segs \ {j} \subseteq Landed
         /\ Bundle(j).graph.list \subseteq
              RowsIn(Bundle(j).graph.segs \ {j}, volumes) \cup Bundle(j).rows
         /\ Bundle(j).graph.meta \subseteq Bundle(j).graph.list
<1> DEFINE head == page[j].head
           prev == IF head = None THEN [segs |-> {}, list |-> {}] ELSE head
           new  == dice[j].db \ prev.list
           g    == [segs |-> prev.segs \cup {j}, list |-> prev.list \cup new, meta |-> dice[j].meta]
<1>1. dice[j].meta # None /\ Bundle(j) = [rows |-> new, graph |-> g]
  BY DEF Bundle, NewRows
<1>2. /\ prev.segs \in SUBSET Drivers /\ prev.list \in SUBSET Keys
      /\ prev.segs \subseteq Landed /\ prev.list \subseteq RowsIn(prev.segs, volumes)
  BY TheDriver, GraphFields DEF Pages, HeadWhole, Whole
<1>3. /\ dice[j].db \in SUBSET Keys /\ dice[j].meta \subseteq dice[j].db /\ j \notin Landed
  BY <1>1, TheDriver DEF SkeletonHeld, Engines, Landed
<1>4. g.segs = prev.segs \cup {j} /\ g.list = prev.list \cup new /\ g.meta = dice[j].meta
  OBVIOUS
<1>5. g \in Graphs /\ new \in SUBSET Keys
  BY <1>2, <1>3 DEF Graphs
<1>7. g.segs \ {j} = prev.segs
  BY <1>2, <1>3, <1>4
<1> HIDE DEF g, new, prev, head
<1>6. /\ Bundle(j).rows = new /\ Bundle(j).graph = g
      /\ Bundle(j) \in Bundles /\ Bundle(j).graph # None
  <2>1. [rows |-> new, graph |-> g] \in Bundles /\ g # None
    BY <1>5, GraphFields DEF Bundles
  <2> QED
    BY <1>1, <2>1
<1>8. /\ j \in g.segs /\ prev.segs \subseteq Landed
      /\ g.list \subseteq RowsIn(prev.segs, volumes) \cup new
  BY <1>2, <1>4
<1>9. g.meta \subseteq g.list
  <2>1. dice[j].db \subseteq prev.list \cup new
    BY DEF new
  <2> QED
    BY <1>3, <1>4, <2>1
<1> QED
  BY <1>6, <1>7, <1>8, <1>9

LEMMA PublishGraphKeeps ==
  ASSUME GraphInv, NEW j \in Drivers, PublishGraph(j)
  PROVE  GraphInv'
<1>1. /\ phase[j] = "run" /\ phase' = [phase EXCEPT ![j] = "bundled"]
      /\ bundle' = [bundle EXCEPT ![j] = Bundle(j)]
      /\ UNCHANGED <<graphs, volumes, faded, page, dice>>
  BY DEF PublishGraph, graphShelf
<1>2. phase'[j] = "bundled" /\ j \notin Landed /\ bundle'[j] = Bundle(j)
  BY <1>1, TheDriver DEF Landed
<1>3. Bundle(j) \in Bundles
  BY <1>1, BundleIsWhole, Untouched
<1>4. GraphTypeOK'
  <2>1. bundle' \in [Drivers -> Bundles] /\ phase' \in [Jobs -> Phases]
    BY <1>1, <1>3, TheDriver DEF Phases
  <2> QED
    BY <1>1, <2>1, TypesKept, TheDriver
<1>5. DriverMoves(j)
  BY <1>1, <1>2, TheDriver, GraphAssumption DEF DriverMoves, GraphAssumption
<1>6. Landed \subseteq Landed' /\ volumes' = volumes
  BY <1>1, <1>5, OtherDriversStay
<1>7. EngineInv(j)'
  <2>1. HeadWhole(j)'
    BY <1>1, <1>6, TheDriver, WholeStays DEF HeadWhole
  <2>2. BundleWhole(j)'
    BY <1>1, <1>2, <1>6, BundleIsWhole, Untouched DEF BundleWhole
  <2>3. VolumeLanded(j)' /\ MergedSoFar(j)' /\ SkeletonHeld(j)'
    BY <1>1, <1>2, TheDriver DEF VolumeLanded, MergedSoFar, SkeletonHeld
  <2> QED
    BY <2>1, <2>2, <2>3 DEF EngineInv
<1> QED
  BY <1>1, <1>4, <1>5, <1>7, OneDriverMoves

LEMMA UploadVolumeKeeps ==
  ASSUME GraphInv, NEW j \in Drivers, UploadVolume(j)
  PROVE  GraphInv'
<1>1. /\ phase[j] = "bundled" /\ bundle[j].graph # None
      /\ phase' = [phase EXCEPT ![j] = "shelved"]
      /\ volumes' = [volumes EXCEPT ![j] = bundle[j].rows]
      /\ UNCHANGED <<graphs, faded, page, dice, bundle>>
  BY DEF UploadVolume
<1>2. phase'[j] = "shelved" /\ volumes'[j] = bundle[j].rows /\ j \notin Landed
  BY <1>1, TheDriver DEF Landed
<1>3. GraphTypeOK'
  <2>1. volumes' \in [Drivers -> SUBSET Keys] /\ phase' \in [Jobs -> Phases]
    BY <1>1, TheDriver DEF Phases, Bundles
  <2> QED
    BY <1>1, <2>1, TypesKept, TheDriver
<1>4. DriverMoves(j)
  BY <1>1, <1>2, TheDriver, GraphAssumption DEF DriverMoves, GraphAssumption
<1>5. /\ Landed \subseteq Landed' /\ j \in Landed'
      /\ \A c \in Landed : volumes'[c] = volumes[c]
  BY <1>2, <1>4, OtherDriversStay DEF Landed
<1>6. EngineInv(j)'
  <2>1. HeadWhole(j)'
    <3> SUFFICES ASSUME page[j].head # None PROVE Whole(page[j].head, Landed', volumes')
      BY <1>1 DEF HeadWhole
    <3>1. Whole(page[j].head, Landed, volumes)
      BY TheDriver DEF HeadWhole
    <3> QED
      BY <1>5, <3>1, WholeStays
  <2>2. BundleWhole(j)'
    <3>1. \A S : S \subseteq Landed => RowsIn(S, volumes') = RowsIn(S, volumes)
      BY <1>5 DEF RowsIn
    <3> QED
      BY <1>1, <1>2, <1>5, <3>1, TheDriver DEF BundleWhole
  <2>3. VolumeLanded(j)' /\ MergedSoFar(j)' /\ SkeletonHeld(j)'
    BY <1>1, <1>2, <1>5 DEF VolumeLanded, MergedSoFar, SkeletonHeld
  <2> QED
    BY <2>1, <2>2, <2>3 DEF EngineInv
<1> QED
  BY <1>1, <1>3, <1>4, <1>6, OneDriverMoves

\* A job that is over keeps nothing to be held to.
LEMMA ClosedJob ==
  ASSUME GraphInv, NEW j \in Drivers, Close(j), volumes' = volumes
  PROVE  /\ phase' \in [Jobs -> Phases] /\ page' \in [Drivers -> Pages]
         /\ dice' \in [Drivers -> Engines] /\ bundle' \in [Drivers -> Bundles]
         /\ DriverMoves(j) /\ j \in Landed' /\ EngineInv(j)'
<1>1. /\ phase' = [phase EXCEPT ![j] = "over"] /\ page' = [page EXCEPT ![j] = Blank]
      /\ dice' = [dice EXCEPT ![j] = Fallow] /\ bundle' = [bundle EXCEPT ![j] = NoBundle]
  BY DEF Close
<1>2. /\ phase'[j] = "over" /\ page'[j] = Blank /\ dice'[j] = Fallow /\ bundle'[j] = NoBundle
      /\ j \in Landed'
  BY <1>1, TheDriver DEF Landed
<1>3. /\ phase' \in [Jobs -> Phases] /\ page' \in [Drivers -> Pages]
      /\ dice' \in [Drivers -> Engines] /\ bundle' \in [Drivers -> Bundles]
  BY <1>1, Untouched, TheDriver DEF Phases
<1>4. DriverMoves(j)
  BY <1>1, <1>2, TheDriver, GraphAssumption DEF DriverMoves, GraphAssumption
<1>5. EngineInv(j)'
  BY <1>2, Untouched DEF EngineInv, HeadWhole, BundleWhole, VolumeLanded, MergedSoFar, SkeletonHeld
<1> QED
  BY <1>2, <1>3, <1>4, <1>5

LEMMA UploadGraphKeeps ==
  ASSUME GraphInv, NEW j \in Drivers, UploadGraph(j)
  PROVE  GraphInv'
<1> DEFINE g == bundle[j].graph
<1>1. /\ phase[j] = "shelved" /\ Close(j) /\ UNCHANGED <<volumes, faded>>
      /\ graphs' = [graphs EXCEPT ![Line[j]] = g]
  BY DEF UploadGraph
<1>2. /\ g \in Graphs /\ j \in g.segs /\ g.segs \ {j} \subseteq Landed
      /\ g.list \subseteq RowsIn(g.segs \ {j}, volumes) \cup volumes[j]
      /\ g.meta \subseteq g.list
  BY <1>1, TheDriver DEF VolumeLanded, BundleWhole, Bundles
<1> HIDE DEF g
<1>3. /\ DriverMoves(j) /\ j \in Landed' /\ Landed \subseteq Landed' /\ volumes' = volumes
  BY <1>1, ClosedJob, OtherDriversStay
<1>4. Whole(g, Landed', volumes)
  BY <1>2, <1>3 DEF Whole, RowsIn
<1>5. ShelfWhole'
  BY <1>1, <1>3, <1>4, TheDriver, WholeStays DEF GraphInv, ShelfWhole
<1>6. GraphTypeOK'
  <2>1. graphs' \in [Lines -> Graphs \cup {None}]
    BY <1>1, <1>2, TheDriver
  <2> QED
    BY <1>1, <2>1, ClosedJob, TypesKept, TheDriver
<1> QED
  BY <1>1, <1>3, <1>5, <1>6, ClosedJob, OtherDriversStay DEF GraphInv

LEMMA ForgoKeeps ==
  ASSUME GraphInv, NEW j \in Drivers, Forgo(j)
  PROVE  GraphInv'
<1>1. Close(j) /\ UNCHANGED <<graphs, volumes, faded>>
  BY DEF Forgo, graphShelf
<1>2. GraphTypeOK'
  BY <1>1, ClosedJob, TypesKept, TheDriver
<1> QED
  BY <1>1, <1>2, ClosedJob, OneDriverMoves

LEMMA StillKeeps ==
  ASSUME GraphInv, UNCHANGED <<graphs, volumes, phase, page, dice, bundle>>,
         faded' \in SUBSET Drivers
  PROVE  GraphInv'
<1>1. GraphTypeOK'
  BY GraphTypes, TypesKept DEF GraphInv
<1>2. Landed' = Landed
  BY DEF Landed
<1>3. ShelfWhole'
  BY <1>2 DEF GraphInv, ShelfWhole
<1>4. ASSUME NEW j \in Drivers PROVE EngineInv(j)'
  BY <1>2 DEF GraphInv, EngineInv, HeadWhole, BundleWhole, VolumeLanded, MergedSoFar, SkeletonHeld
<1> QED
  BY <1>1, <1>3, <1>4 DEF GraphInv

LEMMA GraphInductive == GraphInv /\ [GraphNext]_graphVars => GraphInv'
<1> SUFFICES ASSUME GraphInv, [GraphNext]_graphVars PROVE GraphInv'
  OBVIOUS
<1>1. ASSUME NEW j \in Drivers, Fade(j) PROVE GraphInv'
  BY <1>1, StillKeeps, GraphTypes DEF Fade, GraphInv
<1>2. CASE UNCHANGED graphVars
  BY <1>2, StillKeeps, GraphTypes DEF graphVars, graphShelf, GraphInv
<1> QED
  BY <1>1, <1>2, OpenGraphKeeps, MergeVolumeKeeps, ColdLoadKeeps, HydrateKeeps, RunEngineKeeps,
     PublishGraphKeeps, UploadVolumeKeeps, UploadGraphKeeps, ForgoKeeps DEF GraphNext

LEMMA GraphInvHolds == GraphSpec => []GraphInv
BY GraphInitially, GraphInductive, PTL DEF GraphSpec

-----------------------------------------------------------------------------
\* Every variable keeps to its type, for any jobs, lineages and keys.
THEOREM GraphTypeCorrect == GraphSpec => []GraphTypeOK
<1>1. GraphInv => GraphTypeOK
  BY DEF GraphInv
<1> QED
  BY <1>1, GraphInvHolds, PTL

\* "Hydrating a missing DataKey is an engine error" (dice.rs): the engine starts
\* cold, or with every row its skeleton refers to, however the laps overlap,
\* whichever containers expire and wherever a job is lost.
THEOREM EngineStartsWhole == GraphSpec => []HydrationIsWhole
<1>1. GraphInv => HydrationIsWhole
  BY DEF GraphInv, HydrationIsWhole, EngineInv, SkeletonHeld
<1> QED
  BY <1>1, GraphInvHolds, PTL

-----------------------------------------------------------------------------
(* The banks together                                                      *)

\* Of what the banks do together each does its own part, so that all that is
\* proved of one bank holds of the three.
THEOREM BanksStandAlone == BanksSpec => CasSpec /\ RowSpec /\ GraphSpec
<1>1. BanksInit => CasInit /\ RowInit /\ GraphInit
  BY DEF BanksInit
<1>2. [BanksNext]_banksVars => [CasNext]_casVars /\ [RowNext]_rowVars /\ [GraphNext]_graphVars
  BY DEF BanksNext, banksVars
<1> QED
  BY <1>1, <1>2, PTL DEF BanksSpec, CasSpec, RowSpec, GraphSpec

\* Every variable of every bank keeps to its type.
THEOREM BanksTypeCorrect == BanksSpec => []BanksTypeOK
<1>1. CasTypeOK /\ RowTypeOK /\ GraphTypeOK => BanksTypeOK
  BY DEF BanksTypeOK
<1> QED
  BY <1>1, BanksStandAlone, CasTypeCorrect, RowTypeCorrect, GraphTypeCorrect, PTL
=============================================================================
