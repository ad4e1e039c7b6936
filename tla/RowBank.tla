------------------------------ MODULE RowBank ------------------------------
(* The action-cache bank (bank/ac.rs): one manifest per lineage and role,   *)
(* naming the rows that role authored.  A row keeps its name while its      *)
(* content changes, so what is compared is the pair, and the order in which *)
(* a restore lays the containers down is total: the trunk before the        *)
(* branch, then by run, then by role with the driver last.                  *)
(*                                                                          *)
(* As in CasBank a container goes by the job that uploaded it, a manifest   *)
(* by the containers of its segments and its list, and created_at is a      *)
(* count of the uploads.  A job packs one container, so its run and role    *)
(* are those of each of its segments.                                       *)
EXTENDS Laps

CONSTANTS
  Paths,        \* names of rows: ac/<digest> and acn/<xx>/<key>
  Results,      \* contents of rows
  Failures,     \* those that record a non-zero exit
  Roles,        \* roles of nodes; Driver is one of them
  Driver,
  Role,         \* Role[j]
  Run,          \* Run[j]: the number of j's workflow run
  Rank,         \* Rank[r]: where role r's name sorts
  ReadsAll,     \* ReadsAll[j]: all_roles, the driver's mode
  Writes        \* Writes[j]: rows j's build may write, as pairs of path and result

Pairs == Paths \X Results
Rolls == [by : Jobs, segs : SUBSET Jobs, list : SUBSET Pairs, at : Nat]

ASSUME RowAssumption ==
  /\ Failures \subseteq Results
  /\ None \notin Results /\ None \notin Rolls
  /\ Driver \in Roles
  /\ Role \in [Jobs -> Roles]
  /\ Run \in [Jobs -> Nat]
  /\ Rank \in [Roles -> Nat]
  /\ \A r, s \in Roles : Rank[r] = Rank[s] => r = s
  /\ \A i, j \in Jobs : Run[i] = Run[j] /\ Role[i] = Role[j] /\ Line[i] = Line[j] => i = j
  /\ ReadsAll \in [Jobs -> BOOLEAN]
  /\ Writes \in [Jobs -> SUBSET (Paths \X Results)]

VARIABLES
  rolls,      \* the shelf: rolls[l, r], the newest manifest of lineage l and role r
  crates,     \* the shelf: crates[j], the container j uploaded and when
  lapsed,     \* containers past their retention
  uploads,    \* uploads so far: the created_at of the next one
  at,         \* where each job is
  desk,       \* the job's work directory: own-ac, .ac-own-unknown, ac-banked-rows.txt, the plan
  rows,       \* rows[j]: the rows of the job's store
  parcel      \* what publish left for the upload steps

rowShelf == <<rolls, crates, lapsed, uploads>>
rowVars  == <<rolls, crates, lapsed, uploads, at, desk, rows, parcel>>

NoRows   == [p \in Paths |-> None]
Uncrated == [rows |-> {}, at |-> 0]
Clear    == [own |-> None, head |-> None, sources |-> {}, known |-> {}, plan |-> {},
             unknown |-> FALSE]
NoParcel == [pack |-> {}, roll |-> None]

PairsOf(rs) == {pr \in Pairs : rs[pr[1]] = pr[2]}
Lay(rs, pack) == [p \in Paths |->
                    IF \E v \in Results : <<p, v>> \in pack
                    THEN CHOOSE v \in Results : <<p, v>> \in pack ELSE rs[p]]

\* sort_key: the lineage read from first, then the run, then the role.
RoleKey(r) == IF r = Driver THEN <<1, 0>> ELSE <<0, Rank[r]>>
Before(s, t) ==
  \/ s.rank < t.rank
  \/ s.rank = t.rank /\ Run[s.job] < Run[t.job]
  \/ /\ s.rank = t.rank /\ Run[s.job] = Run[t.job]
     /\ LET k == RoleKey(Role[s.job])  m == RoleKey(Role[t.job])
        IN k[1] < m[1] \/ (k[1] = m[1] /\ k[2] < m[2])

\* One step of the plan per segment the source names.
Steps(src) == {[rank |-> src.rank, job |-> c] : c \in src.roll.segs}

RowInit ==
  /\ rolls = [lr \in Lines \X Roles |-> None]
  /\ crates = [j \in Jobs |-> Uncrated]
  /\ lapsed = {}
  /\ uploads = 1
  /\ at = [j \in Jobs |-> "waiting"]
  /\ desk = [j \in Jobs |-> Clear]
  /\ rows = [j \in Jobs |-> NoRows]
  /\ parcel = [j \in Jobs |-> NoParcel]

-----------------------------------------------------------------------------
(* Restore                                                                 *)

\* by_name finds the own manifest, or none, or fails: then publish must stage
\* nothing, or a thin manifest would win over the fat one.
FindOwn(j) ==
  LET own == rolls[<<Line[j], Role[j]>>]
  IN /\ Ready(at, j)
     /\ \/ desk' = [desk EXCEPT ![j] = [Clear EXCEPT !.own = own]]
        \/ desk' = [desk EXCEPT ![j] = [Clear EXCEPT !.unknown = TRUE]]
     /\ at' = [at EXCEPT ![j] = IF ~ReadsAll[j] THEN "planning"
                                ELSE IF Trunk[Line[j]] = None THEN "listing" ELSE "inheriting"]
     /\ UNCHANGED <<rowShelf, rows, parcel>>

\* by_prefix reads one page of the newest artifacts of the repository, of every
\* name; what fell off that page is not there.
Listed(l) == {m \in {rolls[<<l, r>>] : r \in Roles} : m # None /\ uploads - m.at <= Page}

ListTrunk(j) ==
  /\ at[j] = "inheriting"
  /\ desk' = [desk EXCEPT ![j].sources = {[rank |-> 0, roll |-> m] : m \in Listed(Trunk[Line[j]])}]
  /\ at' = [at EXCEPT ![j] = "listing"]
  /\ UNCHANGED <<rowShelf, rows, parcel>>

ListRoles(j) ==
  /\ at[j] = "listing"
  /\ desk' = [desk EXCEPT ![j].sources =
                @ \cup {[rank |-> 1, roll |-> m] : m \in Listed(Line[j])}]
  /\ at' = [at EXCEPT ![j] = "planning"]
  /\ UNCHANGED <<rowShelf, rows, parcel>>

\* The own manifest joins the sources unless a listing brought one of its name.
Sources(j) ==
  LET own == desk[j].own
      named == \E s \in desk[j].sources : s.rank = 1 /\ Role[s.roll.by] = Role[j]
  IN desk[j].sources \cup (IF own = None \/ named THEN {} ELSE {[rank |-> 1, roll |-> own]})
OwnHead(j) ==
  LET mine == {s \in Sources(j) : s.rank = 1 /\ Role[s.roll.by] = Role[j]}
  IN IF mine = {} THEN None ELSE (CHOOSE s \in mine : TRUE).roll

\* The manifests are downloaded and their segments put in order; without any
\* the bank is cold and nothing else happens.
MakePlan(j) ==
  /\ at[j] = "planning"
  /\ desk' = [desk EXCEPT ![j].sources = Sources(j), ![j].head = OwnHead(j),
                          ![j].known = UNION {s.roll.list : s \in Sources(j)},
                          ![j].plan = UNION {Steps(s) : s \in Sources(j)}]
  /\ at' = [at EXCEPT ![j] = IF Sources(j) = {} THEN "building" ELSE "laying"]
  /\ UNCHANGED <<rowShelf, rows, parcel>>

\* The next segments of the plan overwrite what is there; a container that is
\* not on the shelf any more is passed over.
LayNext(j) ==
  /\ at[j] = "laying"
  /\ \E s \in desk[j].plan :
       /\ \A t \in desk[j].plan \ {s} : ~Before(t, s)
       /\ desk' = [desk EXCEPT ![j].plan = @ \ {s}]
       /\ rows' = [rows EXCEPT ![j] = IF s.job \in lapsed THEN @ ELSE Lay(@, crates[s.job].rows)]
  /\ UNCHANGED <<rowShelf, at, parcel>>

Purged(rs) == [p \in Paths |-> IF rs[p] \in Failures THEN None ELSE rs[p]]

PurgeRestored(j) ==
  /\ at[j] = "laying"
  /\ desk[j].plan = {}
  /\ rows' = [rows EXCEPT ![j] = Purged(@)]
  /\ at' = [at EXCEPT ![j] = "building"]
  /\ UNCHANGED <<rowShelf, desk, parcel>>

\* A listing, a lookup of a container or a download fails: the restore does, the
\* build is skipped and publish runs all the same.
BreakOff(j) ==
  /\ at[j] \in {"inheriting", "listing", "planning", "laying"}
  /\ at' = [at EXCEPT ![j] = "built"]
  /\ UNCHANGED <<rowShelf, desk, rows, parcel>>

\* The build executes actions whose rows it missed or found unservable, and some
\* of them give another result than the last time, or fail.
Execute(j) ==
  /\ at[j] = "building"
  /\ \E new \in SUBSET Writes[j] :
       /\ \A pr, qr \in new : pr[1] = qr[1] => pr = qr
       /\ rows' = [rows EXCEPT ![j] = Lay(@, new)]
  /\ at' = [at EXCEPT ![j] = "built"]
  /\ UNCHANGED <<rowShelf, desk, parcel>>

-----------------------------------------------------------------------------
(* Publish                                                                 *)

\* The own list counts for the gate, not which rows are in it.
Shrinks(named, packed) == Cardinality(packed) < Cardinality(named)

\* Mutant: the lists are merged without collapsing.
CollapseUnion(head, fresh) == head \cup fresh
\* collapse_rows: the newest pair of each path, this lap's last.
Collapse(head, fresh) == fresh \cup {pr \in head : \A fr \in fresh : fr[1] # pr[1]}

\* Mutant: a row whose name is banked counts as banked, whatever it says.
DeltaByPath(j, all) == {pr \in all : \A kr \in desk[j].known : kr[1] # pr[1]}
\* What is not banked yet: a name with another content is.
Delta(j, all) == all \ desk[j].known

\* What publish stages from the purged rows rs: the pairs no manifest named, or
\* all of them in a compaction that does not shrink the list.
Parcel(j, rs, compact) ==
  LET head  == desk[j].head
      all   == PairsOf(rs)
      full  == compact /\ ~Shrinks(head.list, all)
      delta == Delta(j, all)
      roll(segs, list) == [by |-> j, segs |-> segs, list |-> list, at |-> 0]
  IN IF desk[j].unknown \/ (compact /\ all = {}) \/ (~full /\ delta = {}) THEN NoParcel
     ELSE IF full THEN [pack |-> all, roll |-> roll({j}, all)]
     ELSE IF head = None THEN [pack |-> delta, roll |-> roll({j}, delta)]
     ELSE [pack |-> delta, roll |-> roll(head.segs \cup {j}, Collapse(head.list, delta))]

\* An unknown head stages nothing and purges nothing.
PublishRows(j) ==
  /\ at[j] = "built"
  /\ LET rs == IF desk[j].unknown THEN rows[j] ELSE Purged(rows[j])
     IN \E compact \in (IF desk[j].head = None THEN {FALSE} ELSE BOOLEAN) :
          /\ rows' = [rows EXCEPT ![j] = rs]
          /\ parcel' = [parcel EXCEPT ![j] = Parcel(j, rs, compact)]
  /\ at' = [at EXCEPT ![j] = "staged"]
  /\ UNCHANGED <<rowShelf, desk>>

End(j) ==
  /\ at' = [at EXCEPT ![j] = "over"]
  /\ desk' = [desk EXCEPT ![j] = Clear]
  /\ rows' = [rows EXCEPT ![j] = NoRows]
  /\ parcel' = [parcel EXCEPT ![j] = NoParcel]

\* The upload steps: the container, and the manifest only if that landed.
UploadCrate(j) ==
  /\ at[j] = "staged"
  /\ parcel[j].pack # {}
  /\ crates' = [crates EXCEPT ![j] = [rows |-> parcel[j].pack, at |-> uploads]]
  /\ uploads' = uploads + 1
  /\ at' = [at EXCEPT ![j] = "packed"]
  /\ UNCHANGED <<rolls, lapsed, desk, rows, parcel>>
UploadRoll(j) ==
  /\ at[j] = "packed"
  /\ rolls' = [rolls EXCEPT ![<<Line[j], Role[j]>>] = [parcel[j].roll EXCEPT !.at = uploads]]
  /\ uploads' = uploads + 1
  /\ End(j)
  /\ UNCHANGED <<crates, lapsed>>

\* The runner is lost, the job is killed, an upload fails or there is none.
DropOut(j) ==
  /\ at[j] \notin {"waiting", "over"}
  /\ End(j)
  /\ UNCHANGED rowShelf

Lapse(c) ==
  /\ crates[c].rows # {}
  /\ c \notin lapsed
  /\ lapsed' = lapsed \cup {c}
  /\ UNCHANGED <<rolls, crates, uploads, at, desk, rows, parcel>>

RowNext ==
  \E j \in Jobs :
    \/ FindOwn(j) \/ ListTrunk(j) \/ ListRoles(j) \/ MakePlan(j) \/ LayNext(j)
    \/ PurgeRestored(j) \/ BreakOff(j) \/ Execute(j)
    \/ PublishRows(j) \/ UploadCrate(j) \/ UploadRoll(j) \/ DropOut(j) \/ Lapse(j)

RowSpec == RowInit /\ [][RowNext]_rowVars

-----------------------------------------------------------------------------
(* Properties                                                              *)

Sourced == [rank : {0, 1}, roll : Rolls]

RowTypeOK ==
  /\ rolls \in [Lines \X Roles -> Rolls \cup {None}]
  /\ crates \in [Jobs -> [rows : SUBSET Pairs, at : Nat]]
  /\ lapsed \in SUBSET Jobs
  /\ uploads \in Nat \ {0}
  /\ at \in [Jobs -> {"waiting", "inheriting", "listing", "planning", "laying", "building",
                      "built", "staged", "packed", "over"}]
  /\ desk \in [Jobs -> [own : Rolls \cup {None}, head : Rolls \cup {None},
                        sources : SUBSET Sourced, known : SUBSET Pairs,
                        plan : SUBSET [rank : {0, 1}, job : Jobs],
                        unknown : BOOLEAN]]
  /\ rows \in [Jobs -> [Paths -> Results \cup {None}]]
  /\ parcel \in [Jobs -> [pack : SUBSET Pairs, roll : Rolls \cup {None}]]

\* The pairs that are left when the containers of the steps are laid in order.
Holding(steps, p) == {s \in steps : \E v \in Results : <<p, v>> \in crates[s.job].rows}
LastWord(steps) ==
  {pr \in Pairs : \E s \in Holding(steps, pr[1]) :
     /\ pr \in crates[s.job].rows
     /\ \A t \in Holding(steps, pr[1]) : ~Before(s, t)}

\* No run overtook an older one of its role: what landed later is laid later.
InOrder(m) == \A c, d \in m.segs : Run[c] < Run[d] => crates[c].at < crates[d].at

\* A manifest's list, which is what the next publish compares with, says what its
\* containers give when they are laid in order - as long as no run overtook an
\* older one of its role.
ListsMatchSegments ==
  \A lr \in Lines \X Roles :
    LET m == rolls[lr]
    IN m # None /\ InOrder(m) => m.list = LastWord(Steps([rank |-> 1, roll |-> m]))

\* What the lap leaves in the store is banked, or is what the next restore of the
\* same sources will give: a row is banked again whenever it has changed.  Not so
\* if the pair is banked already and another manifest names the row (what lies
\* over it stays there), if its container is gone (it stays named), or if a run
\* overtook an older one of the role.
Alive(steps) == {s \in steps : s.job \notin lapsed}
RowsSurviveTheLap ==
  \A j \in Jobs : at[j] = "staged" /\ ~desk[j].unknown =>
    LET head   == desk[j].head
        others == {s \in desk[j].sources : s.roll # head}
        next   == IF parcel[j].roll = None THEN head ELSE parcel[j].roll
        mine   == IF next = None THEN {} ELSE next.segs \ {j}
        laid   == LastWord(Alive((UNION {Steps(s) : s \in others})
                                   \cup {[rank |-> 1, job |-> c] : c \in mine}))
    IN \A pr \in PairsOf(rows[j]) :
         \/ pr \in parcel[j].pack
         \/ pr \in laid /\ \A fr \in parcel[j].pack : fr[1] # pr[1]
         \/ pr \in desk[j].known /\ \E s \in others : \E kr \in s.roll.list : kr[1] = pr[1]
         \/ \E c \in lapsed : pr \in crates[c].rows
         \/ head # None /\ ~InOrder(head)
=============================================================================
