----------------------------- MODULE GraphBank -----------------------------
(* The graph-state bank (bank/dice.rs): the driver of a lap restores the    *)
(* rows of buck2's value store and the skeleton that refers to them, and    *)
(* banks the rows that are new.  Rows are content-addressed and laid down   *)
(* by INSERT OR IGNORE, so the order of the containers does not matter; the *)
(* skeleton rides the manifest whole.  All laps here have one seed: its     *)
(* hash is in the manifest's name, so those of another never meet these.    *)
(* As in CasBank a container goes by the job that uploaded it.              *)
EXTENDS Laps

CONSTANTS
  Drivers,      \* the jobs that keep a graph
  Keys,         \* keys of rows
  Learns        \* Learns[j]: keys j's engine may add

ASSUME GraphAssumption ==
  /\ Drivers \subseteq Jobs
  /\ Learns \in [Drivers -> SUBSET Keys]
  /\ \A ks \in SUBSET Keys : ks # None
  /\ \A m \in [segs : SUBSET Drivers, list : SUBSET Keys, meta : SUBSET Keys] : m # None

VARIABLES
  graphs,     \* the shelf: graphs[l], the newest manifest of lineage l
  volumes,    \* the shelf: volumes[j], the rows in the container j uploaded
  faded,      \* containers past their retention
  phase,      \* where each job is
  page,       \* the job's work directory: dice-head, and the containers to merge
  dice,       \* the engine's directory: its rows (db), and graph.meta
  bundle      \* what publish left for the upload steps

graphShelf == <<graphs, volumes, faded>>
graphVars  == <<graphs, volumes, faded, phase, page, dice, bundle>>

Skeletons == {None} \cup SUBSET Keys
Graphs    == [segs : SUBSET Drivers, list : SUBSET Keys, meta : SUBSET Keys]
Blank     == [head |-> None, merge |-> {}]
Fallow    == [db |-> {}, meta |-> None]
NoBundle  == [rows |-> {}, graph |-> None]

GraphInit ==
  /\ graphs = [l \in Lines |-> None]
  /\ volumes = [j \in Drivers |-> {}]
  /\ faded = {}
  /\ phase = [j \in Jobs |-> IF j \in Drivers THEN "waiting" ELSE "over"]
  /\ page = [j \in Drivers |-> Blank]
  /\ dice = [j \in Drivers |-> Fallow]
  /\ bundle = [j \in Drivers |-> NoBundle]

-----------------------------------------------------------------------------
(* Restore                                                                 *)

\* A branch without a graph of its own inherits the trunk's.
Inherited(l) ==
  IF graphs[l] # None \/ Trunk[l] = None THEN graphs[l] ELSE graphs[Trunk[l]]

\* The manifest comes with the list of what is banked and with the skeleton,
\* which is in place before any row is; without a manifest the bank is cold.
OpenGraph(j) ==
  LET h == Inherited(Line[j])
  IN /\ Ready(phase, j)
     /\ page' = [page EXCEPT ![j] = [head |-> h, merge |-> IF h = None THEN {} ELSE h.segs]]
     /\ dice' = [dice EXCEPT ![j].meta = IF h = None THEN None ELSE h.meta]
     /\ phase' = [phase EXCEPT ![j] = IF h = None THEN "running" ELSE "merging"]
     /\ UNCHANGED <<graphShelf, bundle>>

\* merge: INSERT OR IGNORE of every row.
Replayed(db, c) == db \cup volumes[c]

\* One container is replayed into the value store.
MergeVolume(j) ==
  /\ phase[j] = "merging"
  /\ \E c \in page[j].merge \ faded :
       /\ page' = [page EXCEPT ![j].merge = @ \ {c}]
       /\ dice' = [dice EXCEPT ![j].db = Replayed(@, c)]
  /\ UNCHANGED <<graphShelf, phase, bundle>>

\* Mutant: the rows go, and the skeleton that refers to them stays.
ColdLoadKeepingSkeleton(j) ==
  /\ phase[j] = "merging"
  /\ page[j].merge \cap faded # {}
  /\ page' = [page EXCEPT ![j].merge = {}]
  /\ dice' = [dice EXCEPT ![j].db = {}]
  /\ phase' = [phase EXCEPT ![j] = "running"]
  /\ UNCHANGED <<graphShelf, bundle>>
\* One is not on the shelf any more: rows and skeleton go, and the load is cold.
\* The list of what is banked and the head to chain from stay.
ColdLoad(j) ==
  /\ phase[j] = "merging"
  /\ page[j].merge \cap faded # {}
  /\ page' = [page EXCEPT ![j].merge = {}]
  /\ dice' = [dice EXCEPT ![j] = Fallow]
  /\ phase' = [phase EXCEPT ![j] = "running"]
  /\ UNCHANGED <<graphShelf, bundle>>

Hydrate(j) ==
  /\ phase[j] = "merging"
  /\ page[j].merge = {}
  /\ phase' = [phase EXCEPT ![j] = "running"]
  /\ UNCHANGED <<graphShelf, page, dice, bundle>>

\* buck2 adds rows, and if it gets to the end writes a skeleton that refers to
\* rows it has.
RunEngine(j) ==
  /\ phase[j] = "running"
  /\ \E new \in SUBSET Learns[j] :
       LET db == dice[j].db \cup new
       IN \E meta \in {dice[j].meta} \cup SUBSET db :
            dice' = [dice EXCEPT ![j] = [db |-> db, meta |-> meta]]
  /\ phase' = [phase EXCEPT ![j] = "run"]
  /\ UNCHANGED <<graphShelf, page, bundle>>

-----------------------------------------------------------------------------
(* Publish                                                                 *)

\* pack: the rows whose keys are not banked.
NewRows(db, banked) == db \ banked

\* The rows no manifest named, chained to the head with the skeleton of now.
Bundle(j) ==
  LET head == page[j].head
      prev == IF head = None THEN [segs |-> {}, list |-> {}] ELSE head
      new  == NewRows(dice[j].db, prev.list)
  IN IF dice[j].meta = None \/ new = {} THEN NoBundle
     ELSE [rows |-> new, graph |-> [segs |-> prev.segs \cup {j}, list |-> prev.list \cup new,
                                    meta |-> dice[j].meta]]

PublishGraph(j) ==
  /\ phase[j] = "run"
  /\ bundle' = [bundle EXCEPT ![j] = Bundle(j)]
  /\ phase' = [phase EXCEPT ![j] = "bundled"]
  /\ UNCHANGED <<graphShelf, page, dice>>

Close(j) ==
  /\ phase' = [phase EXCEPT ![j] = "over"]
  /\ page' = [page EXCEPT ![j] = Blank]
  /\ dice' = [dice EXCEPT ![j] = Fallow]
  /\ bundle' = [bundle EXCEPT ![j] = NoBundle]

\* The steps of driver-finish: the container, and the manifest only after it.
UploadVolume(j) ==
  /\ phase[j] = "bundled"
  /\ bundle[j].graph # None
  /\ volumes' = [volumes EXCEPT ![j] = bundle[j].rows]
  /\ phase' = [phase EXCEPT ![j] = "shelved"]
  /\ UNCHANGED <<graphs, faded, page, dice, bundle>>
UploadGraph(j) ==
  /\ phase[j] = "shelved"
  /\ graphs' = [graphs EXCEPT ![Line[j]] = bundle[j].graph]
  /\ Close(j)
  /\ UNCHANGED <<volumes, faded>>

\* The runner is lost, a lookup, a download or an upload fails (a restore that
\* broke off leaves no seed in the environment, so nothing is published), or
\* there is nothing to upload.
Forgo(j) ==
  /\ phase[j] \notin {"waiting", "over"}
  /\ Close(j)
  /\ UNCHANGED graphShelf

Fade(c) ==
  /\ volumes[c] # {}
  /\ c \notin faded
  /\ faded' = faded \cup {c}
  /\ UNCHANGED <<graphs, volumes, phase, page, dice, bundle>>

GraphNext ==
  \E j \in Drivers :
    \/ OpenGraph(j) \/ MergeVolume(j) \/ ColdLoad(j) \/ Hydrate(j) \/ RunEngine(j)
    \/ PublishGraph(j) \/ UploadVolume(j) \/ UploadGraph(j) \/ Forgo(j) \/ Fade(j)

GraphSpec == GraphInit /\ [][GraphNext]_graphVars

-----------------------------------------------------------------------------
(* Properties                                                              *)

GraphTypeOK ==
  /\ graphs \in [Lines -> Graphs \cup {None}]
  /\ volumes \in [Drivers -> SUBSET Keys]
  /\ faded \in SUBSET Drivers
  /\ phase \in [Jobs -> {"waiting", "merging", "running", "run", "bundled", "shelved", "over"}]
  /\ page \in [Drivers -> [head : Graphs \cup {None}, merge : SUBSET Drivers]]
  /\ dice \in [Drivers -> [db : SUBSET Keys, meta : Skeletons]]
  /\ bundle \in [Drivers -> [rows : SUBSET Keys, graph : Graphs \cup {None}]]

\* "Hydrating a missing DataKey is an engine error, not a cache miss": whatever
\* has expired, been chained by overlapping laps or inherited, the engine starts
\* without a skeleton or with every row its skeleton refers to.
HydrationIsWhole ==
  \A j \in Drivers :
    phase[j] = "running" => \/ dice[j] = Fallow
                            \/ dice[j].meta # None /\ dice[j].meta \subseteq dice[j].db
=============================================================================
