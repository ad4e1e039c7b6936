------------------------------- MODULE Store -------------------------------
(***************************************************************************)
(* The digest-keyed disk store: how one blob and one row of the action     *)
(* cache get to disk while other tasks of the process write the same ones, *)
(* actions run with hard links to the blob, and the process may crash.     *)
(*                                                                         *)
(* A file is an inode with its content and mode; cas/<hash>, ac/<hash> and *)
(* the row's temporary file are names.  The temporary files of blobs have  *)
(* a name per call (TMP_SEQ): only the task knows them.  Each system call  *)
(* is a step.  Blobs, and rows, do not affect one another: the module      *)
(* follows one of each.                                                    *)
(***************************************************************************)
EXTENDS Naturals

CONSTANTS
  BlobTasks,  \* tasks that store or stage the blob
  RowTasks,   \* tasks that write the row
  Results,    \* the encoded results they write
  Inodes,     \* bound: the files there can be at a time
  None        \* no file

ReadOnly == "r-x"   \* 0o555
Plain    == "rw-"   \* 0o644
Full     == "rwx"   \* 0o755
Modes    == {ReadOnly, Plain, Full}

ASSUME StoreAssumption ==
  /\ BlobTasks \cap RowTasks = {}
  /\ None \notin Inodes \cup Results \cup {"part", "blob", "other"}
  /\ Results \cap {"part", "blob", "other"} = {}

VARIABLES
  data,     \* data[i]: the blob, a result, a part of either, or anything else
  mode,     \* mode[i]
  cas,      \* the file cas/<hash>, or None
  row,      \* the file ac/<hash>, or None
  rowTmp,   \* the file tmp/ac-<hash>.<pid>, or None
  inputs,   \* the files staged for actions that run
  task,     \* task[t]: what a task is doing, and the file it has open
  stored,   \* history: somebody was told that the blob is in the store
  banked,   \* history: the file of the blob, if a bank brought one that its
            \* owner may write to (tar stamps 0o755)
  mixed     \* history: the tasks whose put of the row overlaps another one

rowVars == <<row, rowTmp, mixed>>
vars == <<data, mode, cas, row, rowTmp, inputs, task, stored, banked, mixed>>

Tasks == BlobTasks \cup RowTasks

Idle == [at |-> "idle", op |-> "none", file |-> None]
At(t, at) == task[t].at = at
Do(t, at, op, i) == task' = [task EXCEPT ![t] = [at |-> at, op |-> op, file |-> i]]
GoOn(t, at) == Do(t, at, task[t].op, task[t].file)
Finish(t) == task' = [task EXCEPT ![t] = Idle]

InUse == {cas, row, rowTmp} \cup inputs \cup {task[t].file : t \in Tasks}
Free(i) == i \in Inodes \ InUse

Create(i, content, m) ==
  /\ Free(i)
  /\ data' = [data EXCEPT ![i] = content]
  /\ mode' = [mode EXCEPT ![i] = m]

\* A store as a bank or an earlier process left it.
Init ==
  /\ \E i \in Inodes, m \in Modes \cup {None} :
       /\ cas = IF m = None THEN None ELSE i
       /\ banked = IF m \in {None, ReadOnly} THEN None ELSE i
       /\ mode = [j \in Inodes |-> IF m = None THEN Full ELSE m]
       /\ data = [j \in Inodes |-> IF j = cas THEN "blob" ELSE "other"]
  /\ row = None /\ rowTmp = None
  /\ inputs = {}
  /\ task = [t \in Tasks |-> Idle]
  /\ stored = FALSE
  /\ mixed = {}

----------------------------------------------------------------------------
(* Blobs in                                                                *)

\* The blob is there: put, put_stream and adopt have nothing to do.
Present(t) ==
  /\ t \in BlobTasks /\ At(t, "idle") /\ cas # None
  /\ stored' = TRUE
  /\ UNCHANGED <<data, mode, cas, rowVars, inputs, task, banked>>

\* put: bytes whose hash is the blob's name, into a file of its own.
Put(t) ==
  /\ t \in BlobTasks /\ At(t, "idle") /\ cas = None
  /\ \E i \in Inodes : Create(i, "part", Plain) /\ Do(t, "write", "put", i)
  /\ UNCHANGED <<cas, rowVars, inputs, stored, banked>>

Write(t) ==
  /\ At(t, "write")
  /\ data' = [data EXCEPT ![task[t].file] = "blob"]
  /\ GoOn(t, "seal")
  /\ UNCHANGED <<mode, cas, rowVars, inputs, stored, banked>>

\* Mutant: only the write bits go.
SealUnwritable(t) ==
  /\ At(t, "seal")
  /\ mode' = [mode EXCEPT ![task[t].file] = IF @ = Plain THEN "r--" ELSE ReadOnly]
  /\ GoOn(t, "rename")
  /\ UNCHANGED <<data, cas, rowVars, inputs, stored, banked>>

Seal(t) ==
  /\ At(t, "seal")
  /\ mode' = [mode EXCEPT ![task[t].file] = ReadOnly]
  /\ GoOn(t, "rename")
  /\ UNCHANGED <<data, cas, rowVars, inputs, stored, banked>>

\* Mutant: a rename that fails has been overtaken by another put.
RenameOvertaken(t) ==
  /\ At(t, "rename")
  /\ \/ cas' = task[t].file /\ stored' = TRUE
     \/ cas' = cas /\ stored' = (stored \/ task[t].op = "put")
  /\ Finish(t)
  /\ UNCHANGED <<data, mode, rowVars, inputs, banked>>

\* The file gets its name, in place of whatever had it.  When that fails, put
\* takes the file another put may have brought; the others report the error.
Rename(t) ==
  /\ At(t, "rename")
  /\ \/ cas' = task[t].file /\ stored' = TRUE
     \/ cas' = cas /\ stored' = (stored \/ (task[t].op = "put" /\ cas # None))
  /\ Finish(t)
  /\ UNCHANGED <<data, mode, rowVars, inputs, banked>>

\* put_stream: from a peer, who may send less or something else.  has() compares
\* lengths: a file that was written to may have another one.
Stream(t) ==
  /\ t \in BlobTasks /\ At(t, "idle")
  /\ (cas # None => data[cas] = "other")
  /\ \E i \in Inodes : Create(i, "part", Plain) /\ Do(t, "receive", "stream", i)
  /\ UNCHANGED <<cas, rowVars, inputs, stored, banked>>

Receive(t) ==
  /\ At(t, "receive")
  /\ \E content \in {"blob", "part", "other"} :
       data' = [data EXCEPT ![task[t].file] = content]
  /\ GoOn(t, "verify")
  /\ UNCHANGED <<mode, cas, rowVars, inputs, stored, banked>>

\* The hash decides; a blob that another task brought meanwhile is kept.
Verify(t) ==
  /\ At(t, "verify")
  /\ IF data[task[t].file] # "blob" \/ cas # None THEN Finish(t) ELSE GoOn(t, "seal")
  /\ stored' = (stored \/ (data[task[t].file] = "blob" /\ cas # None))
  /\ UNCHANGED <<data, mode, cas, rowVars, inputs, banked>>

\* adopt: an output that the action made and hash_file has read.
Adopt(t) ==
  /\ t \in BlobTasks /\ At(t, "idle") /\ cas = None
  /\ \E i \in Inodes, m \in {Plain, Full} :
       Create(i, "blob", m) /\ Do(t, "clone", "adopt", i)
  /\ UNCHANGED <<cas, rowVars, inputs, stored, banked>>

CloneIn(t) ==
  /\ At(t, "clone")
  /\ \E i \in Inodes : Create(i, data[task[t].file], Plain) /\ Do(t, "seal", "adopt", i)
  /\ UNCHANGED <<cas, rowVars, inputs, stored, banked>>

\* No clones here: the output itself is made read-only, to be linked.
SealOutput(t) ==
  /\ At(t, "clone")
  /\ mode' = [mode EXCEPT ![task[t].file] = ReadOnly]
  /\ GoOn(t, "link")
  /\ UNCHANGED <<data, cas, rowVars, inputs, stored, banked>>

LinkIn(t) ==
  /\ At(t, "link")
  /\ cas' = IF cas = None THEN task[t].file ELSE cas
  /\ stored' = TRUE
  /\ Finish(t)
  /\ UNCHANGED <<data, mode, rowVars, inputs, banked>>

\* Too many links, or another device: a copy, which has its source's mode.
LinkRefused(t) ==
  /\ At(t, "link")
  /\ \E i \in Inodes : Create(i, "part", ReadOnly) /\ Do(t, "write", "adopt", i)
  /\ UNCHANGED <<cas, rowVars, inputs, stored, banked>>

----------------------------------------------------------------------------
(* Blobs out                                                               *)

\* link_out shares the file with an action,
StageLink(t) ==
  /\ t \in BlobTasks /\ At(t, "idle") /\ cas # None
  /\ inputs' = inputs \cup {cas}
  /\ Do(t, "linked", "stage", cas)
  /\ UNCHANGED <<data, mode, cas, rowVars, stored, banked>>

\* or gives it a file of its own: a clone, or a copy with the blob's mode.
StageCopy(t) ==
  /\ t \in BlobTasks /\ At(t, "idle") /\ cas # None
  /\ \E i \in Inodes, m \in {Plain, mode[cas]} :
       /\ Create(i, data[cas], m)
       /\ inputs' = inputs \cup {i}
       /\ Do(t, "private", "stage", i)
  /\ UNCHANGED <<cas, rowVars, stored, banked>>

\* Mutant: every staged file gets the mode of a private one.
MakeExecutableFull(t) ==
  /\ At(t, "linked") \/ At(t, "private")
  /\ \E executable \in BOOLEAN :
       mode' = IF executable THEN [mode EXCEPT ![task[t].file] = Full] ELSE mode
  /\ Finish(t)
  /\ UNCHANGED <<data, cas, rowVars, inputs, stored, banked>>

\* link_out_exec: an executable that is not gets its bit, a shared one for
\* everybody.
MakeExecutable(t) ==
  /\ At(t, "linked") \/ At(t, "private")
  /\ \E executable \in BOOLEAN :
       mode' = IF executable /\ mode[task[t].file] = Plain
                 THEN [mode EXCEPT ![task[t].file] = IF At(t, "linked") THEN ReadOnly ELSE Full]
                 ELSE mode
  /\ Finish(t)
  /\ UNCHANGED <<data, cas, rowVars, inputs, stored, banked>>

\* A careless action writes to an input, if its mode lets it.
Scribble(i) ==
  /\ i \in inputs /\ mode[i] # ReadOnly
  /\ data' = [data EXCEPT ![i] = "other"]
  /\ UNCHANGED <<mode, cas, rowVars, inputs, task, stored, banked>>

\* An action ends, and its directory goes.
Unstage(i) ==
  /\ i \in inputs
  /\ inputs' = inputs \ {i}
  /\ UNCHANGED <<data, mode, cas, rowVars, task, stored, banked>>

----------------------------------------------------------------------------
(* Rows                                                                    *)

PutsRow(t) == At(t, "writeRow") \/ At(t, "renameRow")

\* t's put begins: if there are others, all of them overlap.
Mix(t) ==
  LET others == {u \in RowTasks : PutsRow(u)}
  IN  mixed' = IF others = {} THEN mixed ELSE mixed \cup others \cup {t}

\* Mutant: the row is written in place.
OpenRowInPlace(t) ==
  /\ t \in RowTasks /\ At(t, "idle")
  /\ \E i \in Inodes, r \in Results :
       /\ IF row = None
            THEN Create(i, "part", Plain)
            ELSE i = row /\ data' = [data EXCEPT ![i] = "part"] /\ UNCHANGED mode
       /\ row' = i /\ rowTmp' = i
       /\ Do(t, "writeRow", r, i)
  /\ Mix(t)
  /\ UNCHANGED <<cas, inputs, stored, banked>>

\* ac_put opens the temporary file.  Its name is that of the row and the
\* process: another task may have it open, and finds it truncated.
OpenRow(t) ==
  /\ t \in RowTasks /\ At(t, "idle")
  /\ \E i \in Inodes, r \in Results :
       /\ IF rowTmp = None
            THEN Create(i, "part", Plain)
            ELSE i = rowTmp /\ data' = [data EXCEPT ![i] = "part"] /\ UNCHANGED mode
       /\ rowTmp' = i
       /\ Do(t, "writeRow", r, i)
  /\ Mix(t)
  /\ UNCHANGED <<cas, row, inputs, stored, banked>>

\* Each writer writes from the start of the file: over another's result it
\* leaves its own, or its own and the end of a longer one.
WriteRow(t) ==
  /\ At(t, "writeRow")
  /\ \E content \in {task[t].op, "other"} :
       /\ data[task[t].file] \in {"part", task[t].op} => content = task[t].op
       /\ data' = [data EXCEPT ![task[t].file] = content]
  /\ GoOn(t, "renameRow")
  /\ UNCHANGED <<mode, cas, rowVars, inputs, stored, banked>>

\* The row gets the file of that name; whoever comes second finds none.
RenameRow(t) ==
  /\ At(t, "renameRow")
  /\ IF rowTmp = None THEN UNCHANGED <<row, rowTmp>> ELSE row' = rowTmp /\ rowTmp' = None
  /\ mixed' = mixed \ {t}
  /\ Finish(t)
  /\ UNCHANGED <<data, mode, cas, inputs, stored, banked>>

\* ac_delete
DeleteRow ==
  /\ row # None /\ row' = None
  /\ UNCHANGED <<data, mode, cas, rowTmp, inputs, task, stored, banked, mixed>>

\* The process ends with all its tasks and actions, and starts again, perhaps
\* with the same process id.
Crash ==
  /\ task' = [t \in Tasks |-> Idle]
  /\ inputs' = {}
  /\ rowTmp' \in {rowTmp, None}
  /\ mixed' = {}
  /\ UNCHANGED <<data, mode, cas, row, stored, banked>>

----------------------------------------------------------------------------
BlobStep(t) ==
  \/ Present(t) \/ Put(t) \/ Write(t) \/ Seal(t) \/ Rename(t)
  \/ Stream(t) \/ Receive(t) \/ Verify(t)
  \/ Adopt(t) \/ CloneIn(t) \/ SealOutput(t) \/ LinkIn(t) \/ LinkRefused(t)
  \/ StageLink(t) \/ StageCopy(t) \/ MakeExecutable(t)

RowStep(t) == OpenRow(t) \/ WriteRow(t) \/ RenameRow(t)

Next ==
  \/ \E t \in Tasks : BlobStep(t) \/ RowStep(t)
  \/ \E i \in Inodes : Scribble(i) \/ Unstage(i)
  \/ DeleteRow
  \/ Crash

Spec == Init /\ [][Next]_vars

----------------------------------------------------------------------------
(* Properties                                                              *)

Ats == {"idle", "write", "seal", "rename", "receive", "verify", "clone", "link",
        "linked", "private", "writeRow", "renameRow"}

\* Every variable has the type its counterpart on disk has.
TypeOK ==
  /\ data \in [Inodes -> {"blob", "part", "other"} \cup Results]
  /\ mode \in [Inodes -> Modes]
  /\ cas \in Inodes \cup {None} /\ row \in Inodes \cup {None} /\ rowTmp \in Inodes \cup {None}
  /\ inputs \subseteq Inodes
  /\ task \in [Tasks -> [at : Ats, op : {"none", "put", "stream", "adopt", "stage"} \cup Results,
                         file : Inodes \cup {None}]]
  /\ stored \in BOOLEAN
  /\ banked \in Inodes \cup {None} /\ mixed \subseteq RowTasks

\* "No write bit means a careless action writing through a hardlinked input gets
\* EACCES instead of silently poisoning the CAS": the file under a blob's name is
\* the blob, however it came there and whoever has a link to it.
BlobsMatchTheirNames == cas # None => data[cas] = "blob"

\* What the store itself seals keeps to that: whatever tasks race, peers send,
\* actions write and crashes interrupt, the only file that may be spoilt is one
\* that a bank brought writable.
OnlyBankedFilesAreSpoilt == cas # None /\ data[cas] # "blob" => cas = banked

\* A put, a stream or an adoption that succeeded is there from then on, also
\* after a crash and for the put that lost the race for the name: as the blob,
\* or as the banked file that it found in its place.
StoredBlobsStay == stored => cas # None /\ (data[cas] = "blob" \/ cas = banked)

\* A reader of the action cache finds a whole result or none.
RowsAreWhole == row # None => data[row] \in Results

----------------------------------------------------------------------------
\* Whoever reads the blob or the row sees the store change at once: of the steps
\* of a put, an adoption or a crash only one is to be seen, and the row then
\* holds what its writer was given.  Excepted are a banked file that can be
\* written to, and puts of one row that overlap.
Atomic == INSTANCE AtomicStore WITH
  Writers <- RowTasks,
  blob    <- IF cas = None THEN None ELSE data[cas],
  result  <- IF row = None THEN None ELSE data[row],
  putting <- [t \in RowTasks |-> IF PutsRow(t) THEN task[t].op ELSE None],
  told    <- stored,
  soft    <- banked # None,
  mixed   <- mixed

ImplementsAtomicStore == Atomic!Spec
=============================================================================
