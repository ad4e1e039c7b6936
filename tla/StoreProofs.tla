---------------------------- MODULE StoreProofs ----------------------------
(***************************************************************************)
(* What the store keeps on disk, for any number of tasks and files: its    *)
(* types; that only a file which a bank brought writable can be spoilt;    *)
(* and that the store does what AtomicStore promises.                      *)
(***************************************************************************)
EXTENDS Store, TLAPS

Contents == {"blob", "part", "other"} \cup Results
Ops == {"none", "put", "stream", "adopt", "stage"} \cup Results
TaskType == [at : Ats, op : Ops, file : Inodes \cup {None}]
Busy(t) == task[t].at # "idle"

\* A busy task has a file open, and a writer of rows a result to write.
BusyOK ==
  \A t \in Tasks : /\ Busy(t) => task[t].file \in Inodes
                   /\ At(t, "writeRow") => task[t].op \in Results

TypeInv == TypeOK /\ BusyOK

\* What the two ways to change a task do to it, and not to the others.
LEMMA Doing ==
  ASSUME TypeInv, NEW t \in Tasks, NEW at \in Ats, NEW op \in Ops, NEW i \in Inodes,
         Do(t, at, op, i)
  PROVE  /\ task' \in [Tasks -> TaskType]
         /\ task'[t] = [at |-> at, op |-> op, file |-> i]
         /\ \A u \in Tasks \ {t} : task'[u] = task[u]
BY DEF Do, TypeInv, TypeOK, TaskType, Ops

LEMMA Finishing ==
  ASSUME TypeInv, NEW t \in Tasks, Finish(t)
  PROVE  /\ task' \in [Tasks -> TaskType]
         /\ task'[t] = Idle
         /\ \A u \in Tasks \ {t} : task'[u] = task[u]
BY DEF Finish, Idle, TypeInv, TypeOK, TaskType, Ops, Ats

LEMMA GoingOn ==
  ASSUME TypeInv, NEW t \in Tasks, NEW at \in Ats, Busy(t), GoOn(t, at)
  PROVE  /\ task' \in [Tasks -> TaskType]
         /\ task'[t] = [at |-> at, op |-> task[t].op, file |-> task[t].file]
         /\ \A u \in Tasks \ {t} : task'[u] = task[u]
<1>1. task[t].file \in Inodes /\ task[t].op \in Ops
  BY DEF TypeInv, BusyOK, TypeOK, Ops
<1> QED
  BY <1>1, Doing DEF GoOn

\* A new file is nobody's.
LEMMA Creating ==
  ASSUME TypeInv, NEW i \in Inodes, NEW d \in Contents, NEW m \in Modes, Create(i, d, m)
  PROVE  /\ data' \in [Inodes -> Contents] /\ mode' \in [Inodes -> Modes]
         /\ data'[i] = d /\ mode'[i] = m
         /\ \A j \in Inodes \ {i} : data'[j] = data[j] /\ mode'[j] = mode[j]
         /\ i \notin {cas, row, rowTmp} \cup inputs
         /\ \A u \in Tasks : task[u].file # i
BY DEF Create, Free, InUse, TypeInv, TypeOK, Contents

LEMMA TypeInit == StoreAssumption /\ Init => TypeInv
<1> SUFFICES ASSUME StoreAssumption, Init PROVE TypeInv
  OBVIOUS
<1>1. PICK i \in Inodes, m \in Modes \cup {None} :
        /\ cas = IF m = None THEN None ELSE i
        /\ banked = IF m \in {None, ReadOnly} THEN None ELSE i
        /\ mode = [j \in Inodes |-> IF m = None THEN Full ELSE m]
        /\ data = [j \in Inodes |-> IF j = cas THEN "blob" ELSE "other"]
  BY DEF Init
<1>2. mode \in [Inodes -> Modes]
  BY <1>1 DEF Modes
<1>3. /\ data \in [Inodes -> {"blob", "part", "other"} \cup Results]
      /\ cas \in Inodes \cup {None} /\ banked \in Inodes \cup {None}
  BY <1>1
<1>4. task \in [Tasks -> [at : Ats, op : {"none", "put", "stream", "adopt", "stage"} \cup Results,
                          file : Inodes \cup {None}]]
  BY DEF Init, Idle, Ats
<1>5. BusyOK
  BY DEF Init, Idle, BusyOK, Busy, At
<1> QED
  BY <1>2, <1>3, <1>4, <1>5 DEF Init, TypeInv, TypeOK

LEMMA TypeStep ==
  ASSUME StoreAssumption, TypeInv, [Next]_vars
  PROVE  TypeInv'
<1> USE DEF rowVars
<1>0. /\ \A t \in Tasks : task[t] \in TaskType
      /\ data \in [Inodes -> Contents] /\ mode \in [Inodes -> Modes]
      /\ cas \in Inodes \cup {None} /\ row \in Inodes \cup {None} /\ rowTmp \in Inodes \cup {None}
      /\ inputs \subseteq Inodes /\ stored \in BOOLEAN /\ BusyOK
      /\ banked \in Inodes \cup {None} /\ mixed \subseteq RowTasks
  BY DEF TypeInv, TypeOK, TaskType, Contents, Ops
<1> DEFINE Fields == /\ data' \in [Inodes -> Contents] /\ mode' \in [Inodes -> Modes]
                     /\ cas' \in Inodes \cup {None} /\ row' \in Inodes \cup {None}
                     /\ rowTmp' \in Inodes \cup {None}
                     /\ inputs' \subseteq Inodes /\ stored' \in BOOLEAN
                     /\ banked' \in Inodes \cup {None} /\ mixed' \subseteq RowTasks
<1>1. ASSUME Fields, task' \in [Tasks -> TaskType], BusyOK' PROVE TypeInv'
  BY <1>1 DEF TypeInv, TypeOK, TaskType, Contents, Ops
<1>2. ASSUME NEW t \in Tasks, NEW at \in Ats, NEW op \in Ops, NEW i \in Inodes, Do(t, at, op, i),
             at = "writeRow" => op \in Results
      PROVE  task' \in [Tasks -> TaskType] /\ BusyOK'
  <2>1. /\ task' \in [Tasks -> TaskType]
        /\ task'[t] = [at |-> at, op |-> op, file |-> i]
        /\ \A u \in Tasks \ {t} : task'[u] = task[u]
    BY <1>2, Doing
  <2> QED
    BY <1>0, <1>2, <2>1 DEF BusyOK, Busy, At
<1>3. ASSUME NEW t \in Tasks, Finish(t)
      PROVE  task' \in [Tasks -> TaskType] /\ BusyOK'
  BY <1>0, <1>3, Finishing DEF BusyOK, Busy, At, Idle
<1>4. ASSUME NEW t \in Tasks, NEW at \in Ats \ {"writeRow"}, Busy(t), GoOn(t, at)
      PROVE  task' \in [Tasks -> TaskType] /\ BusyOK'
  <2>1. /\ task' \in [Tasks -> TaskType]
        /\ task'[t] = [at |-> at, op |-> task[t].op, file |-> task[t].file]
        /\ \A u \in Tasks \ {t} : task'[u] = task[u]
    BY <1>4, GoingOn
  <2> QED
    BY <1>0, <1>4, <2>1 DEF BusyOK, Busy, At
<1>5. {"rw-", "r-x", "rwx"} = Modes /\ Plain \in Modes /\ ReadOnly \in Modes /\ Full \in Modes
  BY DEF Modes, Plain, ReadOnly, Full
<1>6. \A t \in Tasks : UNCHANGED task => task' \in [Tasks -> TaskType] /\ BusyOK'
  BY <1>0 DEF TypeInv, TypeOK, TaskType, Ops, BusyOK, Busy, At
<1>7. ASSUME NEW t \in Tasks, BlobStep(t) PROVE TypeInv'
  <2>0. /\ Busy(t) => task[t].file \in Inodes /\ data[task[t].file] \in Contents
        /\ {"put", "stream", "adopt", "stage"} \subseteq Ops /\ {"part", "blob", "other"} \subseteq Contents
    BY <1>0 DEF BusyOK, Ops, Contents
  <2>1. CASE Present(t)
    BY <1>0, <1>1, <1>6, <2>1 DEF Present
  <2>2. CASE Put(t) \/ Stream(t)
    BY <1>0, <1>1, <1>2, <1>5, <2>0, <2>2, Creating DEF Put, Stream, Ats
  <2>3. CASE Write(t) \/ Receive(t)
    BY <1>0, <1>1, <1>4, <2>0, <2>3 DEF Write, Receive, Ats, Busy, At
  <2>4. CASE Seal(t) \/ SealOutput(t)
    BY <1>0, <1>1, <1>4, <1>5, <2>0, <2>4 DEF Seal, SealOutput, Ats, Busy, At
  <2>5. CASE Rename(t) \/ LinkIn(t)
    BY <1>0, <1>1, <1>3, <2>0, <2>5 DEF Rename, LinkIn, Busy, At
  <2>6. CASE Verify(t)
    BY <1>0, <1>1, <1>3, <1>4, <2>6 DEF Verify, Ats, Busy, At
  <2>7. CASE Adopt(t)
    BY <1>0, <1>1, <1>2, <1>5, <2>0, <2>7, Creating DEF Adopt, Ats
  <2>8. CASE CloneIn(t)
    BY <1>0, <1>1, <1>2, <1>5, <2>0, <2>8, Creating DEF CloneIn, Ats, Busy, At
  <2>9. CASE LinkRefused(t)
    BY <1>0, <1>1, <1>2, <1>5, <2>0, <2>9, Creating DEF LinkRefused, Ats
  <2>10. CASE StageLink(t)
    BY <1>0, <1>1, <1>2, <2>0, <2>10 DEF StageLink, Ats
  <2>11. CASE StageCopy(t)
    <3>1. /\ cas \in Inodes /\ data[cas] \in Contents
          /\ \A m \in {Plain, mode[cas]} : m \in Modes
      BY <1>0, <1>5, <2>11 DEF StageCopy
    <3> QED
      BY <1>0, <1>1, <1>2, <2>0, <2>11, <3>1, Creating DEF StageCopy, Ats
  <2>12. CASE MakeExecutable(t)
    BY <1>0, <1>1, <1>3, <1>5, <2>0, <2>12 DEF MakeExecutable
  <2> QED
    BY <1>7, <2>1, <2>2, <2>3, <2>4, <2>5, <2>6, <2>7, <2>8, <2>9, <2>10, <2>11, <2>12 DEF BlobStep
<1>8. ASSUME NEW t \in Tasks, RowStep(t) PROVE TypeInv'
  <2>0. Results \subseteq Ops /\ Results \subseteq Contents /\ {"part", "other"} \subseteq Contents
    BY DEF Ops, Contents
  <2>1. CASE OpenRow(t)
    <3>1. PICK i \in Inodes, r \in Results :
            /\ IF rowTmp = None
                 THEN Create(i, "part", Plain)
                 ELSE i = rowTmp /\ data' = [data EXCEPT ![i] = "part"] /\ UNCHANGED mode
            /\ rowTmp' = i
            /\ Do(t, "writeRow", r, i)
      BY <2>1 DEF OpenRow
    <3>1a. mixed' \subseteq RowTasks
      BY <1>0, <2>1 DEF OpenRow, Mix
    <3>2. data' \in [Inodes -> Contents] /\ mode' \in [Inodes -> Modes]
      BY <1>0, <1>5, <2>0, <3>1, Creating
    <3>3. task' \in [Tasks -> TaskType] /\ BusyOK'
      BY <1>2, <2>0, <3>1 DEF Ats
    <3> QED
      BY <1>0, <1>1, <2>1, <3>1, <3>1a, <3>2, <3>3 DEF OpenRow
  <2>2. CASE WriteRow(t)
    <3>1. task[t].op \in Results
      BY <1>0, <2>2 DEF WriteRow, BusyOK
    <3>2. data' \in [Inodes -> Contents]
      <4>1. PICK content \in {task[t].op, "other"} :
              data' = [data EXCEPT ![task[t].file] = content]
        BY <2>2 DEF WriteRow
      <4>2. content \in Contents
        BY <2>0, <3>1
      <4> QED
        BY <1>0, <4>1, <4>2
    <3>3. task' \in [Tasks -> TaskType] /\ BusyOK'
      BY <1>4, <2>2 DEF WriteRow, Ats, Busy, At
    <3>4. UNCHANGED <<mode, cas, row, rowTmp, mixed, inputs, stored, banked>>
      BY <2>2 DEF WriteRow
    <3> QED
      BY <1>0, <1>1, <3>2, <3>3, <3>4
  <2>3. CASE RenameRow(t)
    BY <1>0, <1>1, <1>3, <2>3 DEF RenameRow
  <2> QED
    BY <1>8, <2>1, <2>2, <2>3 DEF RowStep
<1>9. ASSUME NEW i \in Inodes, Scribble(i) \/ Unstage(i)
      PROVE  TypeInv'
  <2>1. task' \in [Tasks -> TaskType] /\ BusyOK'
    BY <1>9 DEF Scribble, Unstage, TypeInv, TypeOK, TaskType, Ops, BusyOK, Busy, At
  <2>2. "other" \in Contents
    BY DEF Contents
  <2> QED
    BY <1>0, <1>1, <1>9, <2>1, <2>2 DEF Scribble, Unstage
<1>10. CASE Crash
  <2>1. task' \in [Tasks -> TaskType] /\ BusyOK'
    BY <1>10 DEF Crash, Idle, TaskType, Ats, Ops, BusyOK, Busy, At
  <2> QED
    BY <1>0, <1>1, <1>10, <2>1 DEF Crash
<1>11. CASE UNCHANGED vars
  BY <1>11 DEF vars, TypeInv, TypeOK, BusyOK, Busy, At
<1>12. CASE DeleteRow
  BY <1>12 DEF DeleteRow, TypeInv, TypeOK, BusyOK, Busy, At
<1> QED
  BY <1>7, <1>8, <1>9, <1>10, <1>11, <1>12 DEF Next

\* Type correctness of the store: in particular a file always has one of the
\* three modes, and a task that works has a file.
THEOREM TypeCorrect == Spec => []TypeOK
<1>1. TypeInv /\ [Next]_vars => TypeInv'
  BY TypeStep, StoreAssumption
<1>2. TypeInv => TypeOK
  BY DEF TypeInv
<1> QED
  BY <1>1, <1>2, TypeInit, StoreAssumption, PTL DEF Spec

----------------------------------------------------------------------------
(* Blobs.  A blob's file is sealed, so no action writes to it; a file on   *)
(* its way to the name is the ingesting task's alone.                      *)

Ingesting(t) == task[t].at \in {"write", "receive", "verify", "clone", "seal", "rename", "link"}

Alone(t) ==
  /\ task[t].file \notin {cas, rowTmp} \cup inputs
  /\ \A u \in Tasks \ {t} : Busy(u) => task[u].file # task[t].file

\* The file a bank brought writable keeps the name.
BlobSealed ==
  /\ cas # None => cas # rowTmp
  /\ cas # None /\ banked = None => data[cas] = "blob" /\ mode[cas] = ReadOnly
  /\ banked # None => cas = banked

\* Nobody stores a blob that is there; a stream is received for nothing.
IngestOK ==
  \A t \in Tasks :
    /\ Ingesting(t) => Alone(t)
    /\ task[t].at \in {"clone", "seal", "rename", "link"} => data[task[t].file] = "blob"
    /\ task[t].at \in {"rename", "link"} => mode[task[t].file] = ReadOnly
    /\ Ingesting(t) /\ banked # None => task[t].at \in {"receive", "verify"}
    /\ task[t].at \in {"writeRow", "renameRow"} => task[t].file # cas

BlobInv == TypeInv /\ BlobSealed /\ IngestOK /\ (stored => cas # None)

LEMMA BlobInit == StoreAssumption /\ Init => BlobInv
<1> SUFFICES ASSUME StoreAssumption, Init PROVE BlobInv
  OBVIOUS
<1>1. TypeInv
  BY TypeInit
<1>2. PICK i \in Inodes, m \in Modes \cup {None} :
        /\ cas = IF m = None THEN None ELSE i
        /\ banked = IF m \in {None, ReadOnly} THEN None ELSE i
        /\ mode = [j \in Inodes |-> IF m = None THEN Full ELSE m]
        /\ data = [j \in Inodes |-> IF j = cas THEN "blob" ELSE "other"]
  BY DEF Init
<1>3. BlobSealed
  BY <1>2 DEF Init, BlobSealed, StoreAssumption
<1>4. IngestOK /\ (stored => cas # None)
  BY DEF Init, Idle, IngestOK, Ingesting
<1> QED
  BY <1>1, <1>3, <1>4 DEF BlobInv

LEMMA BlobStepKeeps ==
  ASSUME StoreAssumption, BlobInv, NEW t \in Tasks, BlobStep(t)
  PROVE  BlobSealed' /\ IngestOK' /\ (stored => cas # None)'
<1> USE DEF rowVars
<1>0. /\ TypeInv /\ BlobSealed /\ IngestOK /\ (stored => cas # None)
      /\ data \in [Inodes -> Contents] /\ mode \in [Inodes -> Modes]
      /\ cas \in Inodes \cup {None} /\ rowTmp \in Inodes \cup {None} /\ inputs \subseteq Inodes
      /\ \A u \in Tasks : Busy(u) => task[u].file \in Inodes
      /\ None \notin Inodes
  BY DEF BlobInv, TypeInv, TypeOK, Contents, BusyOK, StoreAssumption
<1>0a. UNCHANGED banked
  BY DEF BlobStep, Present, Put, Write, Seal, Rename, Stream, Receive, Verify, Adopt, CloneIn,
         SealOutput, LinkIn, LinkRefused, StageLink, StageCopy, MakeExecutable
<1>0b. /\ cas = None => banked = None
       /\ Ingesting(t) => banked = None \/ task[t].at \in {"receive", "verify"}
  BY <1>0 DEF BlobSealed, IngestOK
<1> DEFINE Others == \A u \in Tasks \ {t} : task'[u] = task[u]
           Becomes(at, i) == task'[t].at = at /\ task'[t].file = i
<1>1. {"put", "stream", "adopt", "stage"} \subseteq Ops /\ {"part", "blob", "other"} \subseteq Contents
  BY DEF Ops, Contents
<1>2. Plain \in Modes /\ ReadOnly \in Modes /\ Full \in Modes /\ Plain # ReadOnly
  BY DEF Modes, Plain, ReadOnly, Full
<1>2a. Ats = {"idle", "write", "seal", "rename", "receive", "verify", "clone", "link",
              "linked", "private", "writeRow", "renameRow"}
  BY DEF Ats
<1>2b. ASSUME NEW at \in Ats, NEW op \in Ops, NEW i \in Inodes, Do(t, at, op, i)
       PROVE  Others /\ Becomes(at, i)
  <2>1. /\ task'[t] = [at |-> at, op |-> op, file |-> i]
        /\ \A u \in Tasks \ {t} : task'[u] = task[u]
    BY <1>0, <1>2b, Doing
  <2> QED
    BY <2>1
<1>2c. ASSUME NEW at \in Ats, Busy(t), GoOn(t, at)
       PROVE  Others /\ Becomes(at, task[t].file)
  <2>1. /\ task'[t] = [at |-> at, op |-> task[t].op, file |-> task[t].file]
        /\ \A u \in Tasks \ {t} : task'[u] = task[u]
    BY <1>0, <1>2c, GoingOn
  <2> QED
    BY <2>1
<1>3. CASE Present(t)
  BY <1>0, <1>0a, <1>3 DEF Present, BlobSealed, IngestOK, Ingesting, Alone, Busy
\* A new file, of which nothing is known yet.
<1>4. ASSUME NEW i \in Inodes, NEW d \in Contents, NEW m \in Modes,
             NEW at \in {"write", "receive", "clone", "seal", "private"},
             NEW op \in {"put", "stream", "adopt", "stage"},
             Create(i, d, m), Do(t, at, op, i),
             at \in {"clone", "seal"} => d = "blob",
             banked = None \/ at \in {"receive", "private"},
             inputs' = inputs \/ (at = "private" /\ inputs' = inputs \cup {i}),
             UNCHANGED <<cas, rowTmp, stored>>
      PROVE  BlobSealed' /\ IngestOK' /\ (stored => cas # None)'
  <2>1. Others /\ Becomes(at, i)
    BY <1>1, <1>4, <1>2a, <1>2b
  <2>2. /\ data'[i] = d /\ mode'[i] = m
        /\ \A j \in Inodes \ {i} : data'[j] = data[j] /\ mode'[j] = mode[j]
        /\ i \notin {cas, rowTmp} \cup inputs
        /\ \A u \in Tasks : task[u].file # i
    BY <1>0, <1>4, Creating
  <2>3. BlobSealed' /\ (stored => cas # None)'
    BY <1>0, <1>0a, <1>4, <2>2 DEF BlobSealed
  <2>4. IngestOK'
    BY <1>0, <1>0a, <1>4, <2>1, <2>2 DEF IngestOK, Ingesting, Alone, Busy
  <2> QED
    BY <2>3, <2>4
<1>5. CASE Put(t)
  BY <1>0b, <1>1, <1>2, <1>4, <1>5 DEF Put
<1>6. CASE Stream(t)
  BY <1>1, <1>2, <1>4, <1>6 DEF Stream
<1>7. CASE Adopt(t)
  BY <1>0b, <1>1, <1>2, <1>4, <1>7 DEF Adopt
<1>8. CASE CloneIn(t)
  <2>1. data[task[t].file] = "blob" /\ banked = None
    BY <1>0, <1>0b, <1>8 DEF CloneIn, IngestOK, Ingesting, At
  <2> QED
    BY <1>1, <1>2, <1>4, <1>8, <2>1 DEF CloneIn
<1>9. CASE LinkRefused(t)
  BY <1>0b, <1>1, <1>2, <1>4, <1>9 DEF LinkRefused, Ingesting, At
<1>10. CASE StageCopy(t)
  <2>1. cas \in Inodes /\ data[cas] \in Contents /\ \A m \in {Plain, mode[cas]} : m \in Modes
    BY <1>0, <1>2, <1>10 DEF StageCopy
  <2> QED
    BY <1>1, <1>4, <1>10, <2>1 DEF StageCopy
\* The file on its way is filled, or sealed.
<1>11. CASE Write(t) \/ Receive(t)
  <2>1. Busy(t) /\ Ingesting(t) /\ task[t].file \in Inodes /\ Alone(t)
    BY <1>0, <1>11 DEF Write, Receive, At, Busy, Ingesting, IngestOK
  <2>2. PICK d \in {"blob", "part", "other"} :
          /\ data' = [data EXCEPT ![task[t].file] = d]
          /\ \/ d = "blob" /\ banked = None /\ GoOn(t, "seal")
             \/ GoOn(t, "verify")
    BY <1>0b, <1>11, <2>1 DEF Write, Receive, At
  <2>3. Others /\ \E at \in {"seal", "verify"} :
                    /\ at = "seal" => d = "blob" /\ banked = None
                    /\ Becomes(at, task[t].file)
    BY <1>2a, <1>2c, <2>1, <2>2
  <2>4. UNCHANGED <<mode, cas, rowTmp, inputs, stored>>
    BY <1>11 DEF Write, Receive
  <2>5. data'[task[t].file] = d /\ \A j \in Inodes \ {task[t].file} : data'[j] = data[j]
    BY <1>0, <2>1, <2>2
  <2> QED
    BY <1>0, <1>0a, <2>1, <2>3, <2>4, <2>5 DEF BlobSealed, IngestOK, Ingesting, Alone, Busy
<1>12. CASE Seal(t) \/ SealOutput(t)
  <2>1. /\ Busy(t) /\ Ingesting(t) /\ task[t].file \in Inodes /\ Alone(t)
        /\ data[task[t].file] = "blob" /\ banked = None
    BY <1>0, <1>12 DEF Seal, SealOutput, At, Busy, Ingesting, IngestOK
  <2>2. Others /\ \E at \in {"rename", "link"} : Becomes(at, task[t].file)
    BY <1>12, <1>2a, <1>2c, <2>1 DEF Seal, SealOutput
  <2>3. UNCHANGED <<data, cas, rowTmp, inputs, stored>>
    BY <1>12 DEF Seal, SealOutput
  <2>4. mode'[task[t].file] = ReadOnly /\ \A j \in Inodes \ {task[t].file} : mode'[j] = mode[j]
    BY <1>0, <1>12, <2>1 DEF Seal, SealOutput
  <2> QED
    BY <1>0, <1>0a, <2>1, <2>2, <2>3, <2>4 DEF BlobSealed, IngestOK, Ingesting, Alone, Busy
\* The file gets the name, or the task ends without.
<1>13. CASE Rename(t) \/ LinkIn(t)
  <2>1. /\ Busy(t) /\ task[t].file \in Inodes /\ Alone(t)
        /\ data[task[t].file] = "blob" /\ mode[task[t].file] = ReadOnly /\ banked = None
    BY <1>0, <1>13 DEF Rename, LinkIn, At, Busy, Ingesting, IngestOK
  <2>2. Others /\ task'[t].at = "idle"
    BY <1>0, <1>13, Finishing DEF Rename, LinkIn, Idle
  <2>3. UNCHANGED <<data, mode, rowTmp, inputs>>
    BY <1>13 DEF Rename, LinkIn
  <2>4. cas' \in {cas, task[t].file} /\ (stored' => cas' # None)
    BY <1>0, <1>13, <2>1 DEF Rename, LinkIn
  <2> QED
    BY <1>0, <1>0a, <2>1, <2>2, <2>3, <2>4 DEF BlobSealed, IngestOK, Ingesting, Alone, Busy
<1>14. CASE Verify(t)
  <2>1. Busy(t) /\ task[t].file \in Inodes /\ Alone(t)
    BY <1>0, <1>14 DEF Verify, At, Busy, Ingesting, IngestOK
  <2>2. UNCHANGED <<data, mode, cas, rowTmp, inputs>> /\ (stored' => cas # None)
    BY <1>0, <1>14 DEF Verify
  <2>3. CASE Finish(t)
    <3>1. Others /\ task'[t].at = "idle"
      BY <1>0, <2>3, Finishing DEF Idle
    <3> QED
      BY <1>0, <1>0a, <2>2, <3>1 DEF BlobSealed, IngestOK, Ingesting, Alone, Busy
  <2>4. CASE GoOn(t, "seal") /\ data[task[t].file] = "blob" /\ cas = None
    <3>1. Others /\ Becomes("seal", task[t].file)
      BY <1>2a, <1>2c, <2>1, <2>4
    <3> QED
      BY <1>0, <1>0a, <1>0b, <2>1, <2>2, <2>4, <3>1 DEF BlobSealed, IngestOK, Ingesting, Alone, Busy
  <2> QED
    BY <1>14, <2>3, <2>4 DEF Verify
\* An action gets the file, and perhaps a bit of its mode.
<1>15. CASE StageLink(t)
  <2>1. cas \in Inodes
    BY <1>0, <1>15 DEF StageLink
  <2>2. Others /\ Becomes("linked", cas)
    BY <1>1, <1>15, <1>2a, <1>2b, <2>1 DEF StageLink
  <2> QED
    BY <1>0, <1>0a, <1>15, <2>1, <2>2 DEF StageLink, BlobSealed, IngestOK, Ingesting, Alone, Busy
<1>16. CASE MakeExecutable(t)
  <2>1. Others /\ task'[t].at = "idle"
    BY <1>0, <1>16, Finishing DEF MakeExecutable, Idle
  <2>2. \A j \in Inodes : mode[j] = ReadOnly => mode'[j] = ReadOnly
    BY <1>0, <1>2, <1>16 DEF MakeExecutable
  <2>3. UNCHANGED <<data, cas, rowTmp, inputs, stored>>
    BY <1>16 DEF MakeExecutable
  <2> QED
    BY <1>0, <1>0a, <2>1, <2>2, <2>3 DEF BlobSealed, IngestOK, Ingesting, Alone, Busy
<1> QED
  BY <1>3, <1>5, <1>6, <1>7, <1>8, <1>9, <1>10, <1>11, <1>12, <1>13, <1>14, <1>15, <1>16 DEF BlobStep

LEMMA RowStepKeepsBlobs ==
  ASSUME StoreAssumption, BlobInv, NEW t \in Tasks, RowStep(t)
  PROVE  BlobSealed' /\ IngestOK' /\ (stored => cas # None)'
<1> USE DEF rowVars
<1>0. /\ TypeInv /\ BlobSealed /\ IngestOK /\ (stored => cas # None)
      /\ data \in [Inodes -> Contents] /\ mode \in [Inodes -> Modes]
      /\ cas \in Inodes \cup {None} /\ rowTmp \in Inodes \cup {None} /\ inputs \subseteq Inodes
      /\ \A u \in Tasks : Busy(u) => task[u].file \in Inodes
      /\ None \notin Inodes
  BY DEF BlobInv, TypeInv, TypeOK, Contents, BusyOK, StoreAssumption
<1> DEFINE Others == \A u \in Tasks \ {t} : task'[u] = task[u]
<1>1. CASE OpenRow(t)
  <2>1. PICK i \in Inodes, r \in Results :
          /\ IF rowTmp = None
               THEN Create(i, "part", Plain)
               ELSE i = rowTmp /\ data' = [data EXCEPT ![i] = "part"] /\ UNCHANGED mode
          /\ rowTmp' = i
          /\ Do(t, "writeRow", r, i)
    BY <1>1 DEF OpenRow
  <2>2. Others /\ task'[t].at = "writeRow" /\ task'[t].file = i
    <3>1. "writeRow" \in Ats /\ r \in Ops
      BY DEF Ats, Ops
    <3>2. /\ task'[t] = [at |-> "writeRow", op |-> r, file |-> i]
          /\ \A u \in Tasks \ {t} : task'[u] = task[u]
      BY <1>0, <2>1, <3>1, Doing
    <3> QED
      BY <3>2
  <2>3. i # cas /\ i \notin {task[u].file : u \in {v \in Tasks : Ingesting(v)}}
    <3>1. CASE rowTmp = None
      <4>1. "part" \in Contents /\ Plain \in Modes
        BY DEF Contents, Modes
      <4> QED
        BY <1>0, <2>1, <3>1, <4>1, Creating
    <3>2. CASE rowTmp # None
      BY <1>0, <2>1, <3>2 DEF BlobSealed, IngestOK, Alone
    <3> QED
      BY <3>1, <3>2
  <2>4. \A j \in Inodes \ {i} : data'[j] = data[j] /\ mode'[j] = mode[j]
    BY <1>0, <2>1 DEF Create
  <2>5. UNCHANGED <<cas, inputs, stored, banked>>
    BY <1>1 DEF OpenRow
  <2> QED
    BY <1>0, <2>1, <2>2, <2>3, <2>4, <2>5 DEF BlobSealed, IngestOK, Ingesting, Alone, Busy
<1>2. CASE WriteRow(t)
  <2>1. Busy(t) /\ task[t].file \in Inodes /\ task[t].file # cas
    BY <1>0, <1>2 DEF WriteRow, At, Busy, IngestOK
  <2>2. Others /\ task'[t].at = "renameRow" /\ task'[t].file = task[t].file
    <3>1. "renameRow" \in Ats /\ GoOn(t, "renameRow")
      BY <1>2 DEF Ats, WriteRow
    <3>2. /\ task'[t] = [at |-> "renameRow", op |-> task[t].op, file |-> task[t].file]
          /\ \A u \in Tasks \ {t} : task'[u] = task[u]
      BY <1>0, <2>1, <3>1, GoingOn
    <3> QED
      BY <3>2
  <2>3. \A j \in Inodes \ {task[t].file} : data'[j] = data[j]
    BY <1>0, <1>2 DEF WriteRow
  <2>4. UNCHANGED <<mode, cas, rowTmp, inputs, stored, banked>>
    BY <1>2 DEF WriteRow
  <2> QED
    BY <1>0, <2>1, <2>2, <2>3, <2>4 DEF BlobSealed, IngestOK, Ingesting, Alone, Busy
<1>3. CASE RenameRow(t)
  <2>1. Others /\ task'[t].at = "idle"
    BY <1>0, <1>3, Finishing DEF RenameRow, Idle
  <2>2. UNCHANGED <<data, mode, cas, inputs, stored, banked>> /\ rowTmp' \in {rowTmp, None}
    BY <1>3 DEF RenameRow
  <2> QED
    BY <1>0, <2>1, <2>2 DEF BlobSealed, IngestOK, Ingesting, Alone, Busy
<1> QED
  BY <1>1, <1>2, <1>3 DEF RowStep

LEMMA BlobStepInv ==
  ASSUME StoreAssumption, BlobInv, [Next]_vars
  PROVE  BlobInv'
<1>0. /\ TypeInv /\ BlobSealed /\ IngestOK /\ (stored => cas # None)
      /\ data \in [Inodes -> Contents] /\ mode \in [Inodes -> Modes]
      /\ \A u \in Tasks : Busy(u) => task[u].file \in Inodes
      /\ cas \in Inodes \cup {None} /\ None \notin Inodes
  BY DEF BlobInv, TypeInv, TypeOK, Contents, BusyOK, StoreAssumption
<1>1. TypeInv'
  BY <1>0, TypeStep
<1>2. ASSUME NEW t \in Tasks, BlobStep(t) \/ RowStep(t) PROVE BlobInv'
  BY <1>1, <1>2, BlobStepKeeps, RowStepKeepsBlobs DEF BlobInv
<1>3. ASSUME NEW i \in Inodes, Scribble(i) PROVE BlobInv'
  <2>1. /\ i = cas => banked # None
        /\ \A t \in Tasks : Ingesting(t) => i # task[t].file
    BY <1>0, <1>3 DEF Scribble, BlobSealed, IngestOK, Alone
  <2>2. UNCHANGED <<mode, cas, rowTmp, inputs, task, stored, banked>>
    BY <1>3 DEF Scribble, rowVars
  <2>3. \A j \in Inodes \ {i} : data'[j] = data[j]
    BY <1>0, <1>3 DEF Scribble
  <2> QED
    BY <1>0, <1>1, <2>1, <2>2, <2>3 DEF BlobInv, BlobSealed, IngestOK, Ingesting, Alone, Busy
<1>4. ASSUME NEW i \in Inodes, Unstage(i) PROVE BlobInv'
  BY <1>0, <1>1, <1>4 DEF Unstage, rowVars, BlobInv, BlobSealed, IngestOK, Ingesting, Alone, Busy
<1>5. CASE DeleteRow
  BY <1>0, <1>1, <1>5 DEF DeleteRow, BlobInv, BlobSealed, IngestOK, Ingesting, Alone, Busy
<1>6. CASE Crash
  <2>1. \A t \in Tasks : task'[t].at = "idle"
    BY <1>6 DEF Crash, Idle
  <2> QED
    BY <1>0, <1>1, <1>6, <2>1 DEF Crash, BlobInv, BlobSealed, IngestOK, Ingesting
<1>7. CASE UNCHANGED vars
  BY <1>0, <1>1, <1>7 DEF vars, rowVars, BlobInv, BlobSealed, IngestOK, Ingesting, Alone, Busy
<1> QED
  BY <1>2, <1>3, <1>4, <1>5, <1>6, <1>7 DEF Next

\* A blob's file is the blob, whichever tasks store and stage it and whenever
\* the process crashes, or it is the file that a bank brought writable.
THEOREM OnlyBankedSpoilt == Spec => []OnlyBankedFilesAreSpoilt
<1>1. Init => BlobInv
  BY BlobInit, StoreAssumption
<1>2. BlobInv /\ [Next]_vars => BlobInv'
  BY BlobStepInv, StoreAssumption
<1>3. BlobInv => OnlyBankedFilesAreSpoilt
  BY DEF BlobInv, BlobSealed, OnlyBankedFilesAreSpoilt, TypeInv, TypeOK, StoreAssumption
<1> QED
  BY <1>1, <1>2, <1>3, PTL DEF Spec

\* What somebody was told is in the store stays there, and is the blob or that
\* file.
THEOREM StoredForGood == Spec => []StoredBlobsStay
<1>1. Init => BlobInv
  BY BlobInit, StoreAssumption
<1>2. BlobInv /\ [Next]_vars => BlobInv'
  BY BlobStepInv, StoreAssumption
<1>3. BlobInv => StoredBlobsStay
  BY DEF BlobInv, BlobSealed, StoredBlobsStay
<1> QED
  BY <1>1, <1>2, <1>3, PTL DEF Spec

----------------------------------------------------------------------------
(* Rows.  The temporary file of a row has one name in a process.  A put    *)
(* that overlaps no other finds in it what it wrote; of those that do it is *)
(* only known which files they write to.                                   *)

RowContents == {"part", "other"} \cup Results

RowFile(j) == j \in {row, rowTmp} \/ \E t \in Tasks : PutsRow(t) /\ task[t].file = j

RowsApart ==
  \A j \in Inodes : RowFile(j) =>
    /\ j \notin {cas} \cup inputs
    /\ \A t \in Tasks : Busy(t) /\ ~PutsRow(t) => task[t].file # j

RowKept ==
  /\ row # None => row # rowTmp /\ data[row] \in RowContents
  /\ rowTmp # None => data[rowTmp] \in RowContents

RowTasksOK ==
  \A t \in Tasks :
    /\ PutsRow(t) => t \in RowTasks /\ task[t].op \in Results
    /\ PutsRow(t) /\ t \notin mixed =>
         /\ rowTmp = task[t].file
         /\ data[rowTmp] = IF At(t, "writeRow") THEN "part" ELSE task[t].op
         /\ \A u \in Tasks \ {t} : ~PutsRow(u)

RowInv == TypeInv /\ RowsApart /\ RowKept /\ RowTasksOK

LEMMA RowInit == StoreAssumption /\ Init => RowInv
<1> SUFFICES ASSUME StoreAssumption, Init PROVE RowInv
  OBVIOUS
<1>1. TypeInv
  BY TypeInit
<1>2. \A t \in Tasks : ~PutsRow(t) /\ ~Busy(t)
  BY DEF Init, Idle, PutsRow, At, Busy
<1>3. row = None /\ rowTmp = None /\ None \notin Inodes
  BY DEF Init, StoreAssumption
<1> QED
  BY <1>1, <1>2, <1>3 DEF RowInv, RowsApart, RowFile, RowKept, RowTasksOK

\* A step of a task with the blob leaves the row's files alone.
LEMMA BlobStepKeepsRows ==
  ASSUME StoreAssumption, RowInv, NEW t \in Tasks, BlobStep(t)
  PROVE  /\ RowsApart' /\ RowKept' /\ RowTasksOK'
         /\ UNCHANGED <<row, rowTmp, mixed>> /\ (row # None => data'[row] = data[row])
         /\ \A u \in Tasks \ {t} : task'[u] = task[u]
         /\ ~PutsRow(t) /\ ~PutsRow(t)'
<1>0. /\ TypeInv /\ RowsApart /\ RowKept /\ RowTasksOK
      /\ data \in [Inodes -> Contents] /\ mode \in [Inodes -> Modes]
      /\ cas \in Inodes \cup {None} /\ row \in Inodes \cup {None}
      /\ rowTmp \in Inodes \cup {None} /\ inputs \subseteq Inodes
      /\ \A u \in Tasks : Busy(u) => task[u].file \in Inodes
      /\ None \notin Inodes
  BY DEF RowInv, TypeInv, TypeOK, Contents, BusyOK, StoreAssumption
<1>1. {"put", "stream", "adopt", "stage"} \subseteq Ops /\ {"part", "blob", "other"} \subseteq Contents
  BY DEF Ops, Contents
<1>2. Plain \in Modes /\ ReadOnly \in Modes /\ Full \in Modes
  BY DEF Modes
<1>3. Ats = {"idle", "write", "seal", "rename", "receive", "verify", "clone", "link",
             "linked", "private", "writeRow", "renameRow"}
  BY DEF Ats
<1> DEFINE RowAts == {"writeRow", "renameRow"}
           Others == \A u \in Tasks \ {t} : task'[u] = task[u]
           Becomes(at, i) == task'[t].at = at /\ task'[t].file = i
           Kept == \A j \in Inodes : RowFile(j) => data'[j] = data[j]
           Apart == \A j \in Inodes : RowFile(j) => j \notin {cas'} \cup inputs'
           Elsewhere == /\ Others /\ task'[t].at \notin RowAts
                        /\ task'[t].at # "idle" => ~RowFile(task'[t].file)
<1>5. ASSUME NEW at \in Ats, NEW op \in Ops, NEW i \in Inodes, Do(t, at, op, i)
      PROVE  Others /\ Becomes(at, i)
  <2>1. /\ task'[t] = [at |-> at, op |-> op, file |-> i]
        /\ \A u \in Tasks \ {t} : task'[u] = task[u]
    BY <1>0, <1>5, Doing
  <2> QED
    BY <2>1
<1>6. ASSUME NEW at \in Ats, Busy(t), GoOn(t, at)
      PROVE  Others /\ Becomes(at, task[t].file)
  <2>1. /\ task'[t] = [at |-> at, op |-> task[t].op, file |-> task[t].file]
        /\ \A u \in Tasks \ {t} : task'[u] = task[u]
    BY <1>0, <1>6, GoingOn
  <2> QED
    BY <2>1
<1>7. ASSUME Finish(t) PROVE Others /\ task'[t].at = "idle"
  BY <1>0, <1>7, Finishing DEF Idle
<1>8. ASSUME NEW i \in Inodes, NEW d \in Contents, NEW m \in Modes, Create(i, d, m)
      PROVE  Kept /\ ~RowFile(i)
  <2>1. /\ \A j \in Inodes \ {i} : data'[j] = data[j]
        /\ i \notin {cas, row, rowTmp} \cup inputs
        /\ \A u \in Tasks : task[u].file # i
    BY <1>0, <1>8, Creating
  <2> QED
    BY <1>0, <2>1 DEF RowFile
<1>9. UNCHANGED <<row, rowTmp, mixed>>
  BY DEF rowVars, BlobStep, Present, Put, Write, Seal, Rename, Stream, Receive, Verify, Adopt, CloneIn,
         SealOutput, LinkIn, LinkRefused, StageLink, StageCopy, MakeExecutable
<1>9a. ~PutsRow(t)
  BY DEF BlobStep, Present, Put, Write, Seal, Rename, Stream, Receive, Verify, Adopt, CloneIn,
         SealOutput, LinkIn, LinkRefused, StageLink, StageCopy, MakeExecutable, At, PutsRow
<1>9b. Busy(t) => task[t].file \in Inodes /\ ~RowFile(task[t].file)
  BY <1>0, <1>9a DEF RowsApart
<1>10. Apart
  <2>1. ASSUME UNCHANGED <<cas, inputs>> PROVE Apart
    BY <1>0, <2>1 DEF RowsApart
  <2>2. CASE Rename(t) \/ LinkIn(t)
    <3>1. ~RowFile(task[t].file) /\ cas' \in {cas, task[t].file} /\ inputs' = inputs
      BY <1>9b, <2>2 DEF Rename, LinkIn, At, Busy
    <3> QED
      BY <1>0, <3>1 DEF RowsApart
  <2>3. CASE StageLink(t)
    BY <1>0, <2>3 DEF StageLink, RowsApart
  <2>4. CASE StageCopy(t)
    <3>1. cas \in Inodes /\ data[cas] \in Contents /\ \A m \in {Plain, mode[cas]} : m \in Modes
      BY <1>0, <1>2, <2>4 DEF StageCopy
    <3>2. PICK i \in Inodes, m \in {Plain, mode[cas]} :
            Create(i, data[cas], m) /\ inputs' = inputs \cup {i}
      BY <2>4 DEF StageCopy
    <3>3. ~RowFile(i)
      BY <1>8, <3>1, <3>2
    <3> QED
      BY <1>0, <2>4, <3>2, <3>3 DEF StageCopy, RowsApart
  <2> QED
    BY <2>1, <2>2, <2>3, <2>4 DEF BlobStep, Present, Put, Write, Seal, Stream, Receive, Verify,
       Adopt, CloneIn, SealOutput, LinkRefused, MakeExecutable
<1>11. Kept /\ Elsewhere
  <2>1. CASE Present(t)
    BY <1>0, <2>1 DEF Present, At
  <2>2. CASE Put(t) \/ Stream(t) \/ Adopt(t) \/ LinkRefused(t)
    <3>1. PICK i \in Inodes, d \in Contents, m \in Modes, at \in Ats \ RowAts, op \in Ops :
            Create(i, d, m) /\ Do(t, at, op, i)
      BY <1>1, <1>2, <1>3, <2>2 DEF Put, Stream, Adopt, LinkRefused
    <3> QED
      BY <1>5, <1>8, <3>1
  <2>3. CASE CloneIn(t)
    <3>1. task[t].file \in Inodes /\ data[task[t].file] \in Contents
      BY <1>0, <2>3 DEF CloneIn, At, Busy
    <3>2. PICK i \in Inodes : Create(i, data[task[t].file], Plain) /\ Do(t, "seal", "adopt", i)
      BY <2>3 DEF CloneIn
    <3> QED
      BY <1>1, <1>2, <1>3, <1>5, <1>8, <3>1, <3>2
  <2>4. CASE StageCopy(t)
    <3>1. cas \in Inodes /\ data[cas] \in Contents /\ \A m \in {Plain, mode[cas]} : m \in Modes
      BY <1>0, <1>2, <2>4 DEF StageCopy
    <3>2. PICK i \in Inodes, m \in {Plain, mode[cas]} :
            Create(i, data[cas], m) /\ Do(t, "private", "stage", i)
      BY <2>4 DEF StageCopy
    <3> QED
      BY <1>1, <1>3, <1>5, <1>8, <3>1, <3>2
  <2>5. CASE StageLink(t)
    <3>1. cas \in Inodes /\ ~RowFile(cas) /\ Kept
      BY <1>0, <2>5 DEF StageLink, RowsApart
    <3> QED
      BY <1>1, <1>3, <1>5, <2>5, <3>1 DEF StageLink
  <2>6. CASE Write(t) \/ Receive(t) \/ Seal(t) \/ SealOutput(t)
    <3>1. Busy(t) /\ task[t].file \in Inodes /\ ~RowFile(task[t].file)
      BY <1>9b, <2>6 DEF Write, Receive, Seal, SealOutput, At, Busy
    <3>2. Kept
      BY <1>0, <2>6, <3>1 DEF Write, Receive, Seal, SealOutput
    <3>3. PICK at \in Ats \ RowAts : GoOn(t, at)
      BY <1>3, <2>6 DEF Write, Receive, Seal, SealOutput
    <3> QED
      BY <1>6, <3>1, <3>2, <3>3
  <2>7. CASE Verify(t)
    <3>1. Busy(t) /\ task[t].file \in Inodes /\ ~RowFile(task[t].file)
      BY <1>9b, <2>7 DEF Verify, At, Busy
    <3>2. Kept
      BY <2>7 DEF Verify
    <3>3. Finish(t) \/ GoOn(t, "seal")
      BY <2>7 DEF Verify
    <3> QED
      BY <1>3, <1>6, <1>7, <3>1, <3>2, <3>3
  <2>8. CASE Rename(t) \/ LinkIn(t) \/ MakeExecutable(t)
    BY <1>7, <2>8 DEF Rename, LinkIn, MakeExecutable
  <2> QED
    BY <2>1, <2>2, <2>3, <2>4, <2>5, <2>6, <2>7, <2>8 DEF BlobStep
<1>12. ~PutsRow(t)' /\ \A u \in Tasks : PutsRow(u)' <=> PutsRow(u)
  BY <1>9a, <1>11 DEF PutsRow, At
<1>13. \A j \in Inodes : RowFile(j)' <=> RowFile(j)
  BY <1>9, <1>9a, <1>11, <1>12 DEF RowFile
<1>14. RowsApart'
  BY <1>0, <1>10, <1>11, <1>12, <1>13 DEF RowsApart, Busy
<1>15. \A j \in {row, rowTmp} : j # None => data'[j] = data[j]
  BY <1>0, <1>11 DEF RowFile
<1>16. RowKept'
  BY <1>0, <1>9, <1>15 DEF RowKept
<1>17. RowTasksOK'
  <2>1. ASSUME NEW u \in Tasks, PutsRow(u)' PROVE u # t /\ PutsRow(u) /\ task'[u] = task[u]
    BY <1>9a, <1>11, <1>12, <2>1
  <2>2. ASSUME NEW u \in Tasks, PutsRow(u)', u \notin mixed'
        PROVE  /\ rowTmp' = task'[u].file
               /\ data'[rowTmp'] = IF At(u, "writeRow")' THEN "part" ELSE task'[u].op
               /\ \A v \in Tasks \ {u} : ~PutsRow(v)'
    <3>1. rowTmp = task[u].file /\ rowTmp \in Inodes
      BY <1>0, <1>9, <2>1, <2>2 DEF RowTasksOK, Busy, PutsRow, At
    <3> QED
      BY <1>0, <1>9, <1>12, <1>15, <2>1, <2>2, <3>1 DEF RowTasksOK, At
  <2> QED
    BY <1>0, <2>1, <2>2 DEF RowTasksOK
<1> QED
  BY <1>9, <1>9a, <1>11, <1>12, <1>14, <1>15, <1>16, <1>17

LEMMA RowStepKeepsRows ==
  ASSUME StoreAssumption, RowInv, NEW t \in Tasks, RowStep(t)
  PROVE  RowsApart' /\ RowKept' /\ RowTasksOK'
<1> USE DEF rowVars
<1>0. /\ TypeInv /\ RowsApart /\ RowKept /\ RowTasksOK
      /\ data \in [Inodes -> Contents] /\ mode \in [Inodes -> Modes]
      /\ cas \in Inodes \cup {None} /\ row \in Inodes \cup {None}
      /\ rowTmp \in Inodes \cup {None} /\ inputs \subseteq Inodes
      /\ \A u \in Tasks : Busy(u) => task[u].file \in Inodes
      /\ None \notin Inodes
  BY DEF RowInv, TypeInv, TypeOK, Contents, BusyOK, StoreAssumption
<1> DEFINE Others == \A u \in Tasks \ {t} : task'[u] = task[u]
<1>2. CASE OpenRow(t)
  <2>1. PICK i \in Inodes, r \in Results :
          /\ IF rowTmp = None
               THEN Create(i, "part", Plain)
               ELSE i = rowTmp /\ data' = [data EXCEPT ![i] = "part"] /\ UNCHANGED mode
          /\ rowTmp' = i
          /\ Do(t, "writeRow", r, i)
    BY <1>2 DEF OpenRow
  <2>2. Others /\ task'[t].at = "writeRow" /\ task'[t].file = i /\ task'[t].op = r
    <3>1. "writeRow" \in Ats /\ r \in Ops
      BY DEF Ats, Ops
    <3>2. /\ task'[t] = [at |-> "writeRow", op |-> r, file |-> i]
          /\ \A u \in Tasks \ {t} : task'[u] = task[u]
      BY <1>0, <2>1, <3>1, Doing
    <3> QED
      BY <3>2
  <2>3. /\ i \notin {cas, row} \cup inputs
        /\ \A u \in Tasks : Busy(u) /\ ~PutsRow(u) => task[u].file # i
    <3>1. CASE rowTmp = None
      <4>1. "part" \in Contents /\ Plain \in Modes
        BY DEF Contents, Modes
      <4> QED
        BY <1>0, <2>1, <3>1, <4>1, Creating
    <3>2. CASE rowTmp # None
      BY <1>0, <2>1, <3>2 DEF RowsApart, RowFile, RowKept
    <3> QED
      BY <3>1, <3>2
  <2>4. data'[i] = "part" /\ \A j \in Inodes \ {i} : data'[j] = data[j]
    BY <1>0, <2>1 DEF Create
  <2>5. UNCHANGED <<cas, row, inputs>> /\ t \in RowTasks /\ ~Busy(t) /\ ~PutsRow(t) /\ Mix(t)
    BY <1>2 DEF OpenRow, At, Busy, PutsRow
  <2>6. \A u \in Tasks : PutsRow(u)' <=> u = t \/ PutsRow(u)
    BY <2>2 DEF PutsRow, At
  <2>7. \A j \in Inodes : RowFile(j)' => RowFile(j) \/ j = i
    <3>1. ASSUME NEW j \in Inodes, NEW u \in Tasks, PutsRow(u)', task'[u].file = j
          PROVE  RowFile(j) \/ j = i
      BY <2>2, <2>6, <3>1 DEF RowFile
    <3> QED
      BY <2>1, <2>5, <3>1 DEF RowFile
  <2>8. RowsApart'
    <3>1. ASSUME NEW j \in Inodes, RowFile(j)'
          PROVE  j \notin {cas} \cup inputs /\ \A u \in Tasks : Busy(u) /\ ~PutsRow(u) => task[u].file # j
      BY <1>0, <2>3, <2>7, <3>1 DEF RowsApart
    <3>2. ASSUME NEW j \in Inodes, RowFile(j)', NEW u \in Tasks, Busy(u)', ~PutsRow(u)'
          PROVE  task'[u].file # j
      BY <2>2, <2>6, <3>1, <3>2 DEF Busy
    <3> QED
      BY <2>5, <3>1, <3>2 DEF RowsApart
  <2>9. RowKept'
    <3>1. "part" \in RowContents
      BY DEF RowContents
    <3> QED
      BY <1>0, <2>1, <2>3, <2>4, <2>5, <3>1 DEF RowKept
  <2>10. RowTasksOK'
    <3>1. ASSUME NEW u \in Tasks, PutsRow(u)', u \notin mixed'
          PROVE  u = t /\ \A v \in Tasks \ {t} : ~PutsRow(v)
      BY <1>0, <2>5, <2>6, <3>1 DEF Mix, RowTasksOK
    <3>2. \A u \in Tasks : PutsRow(u)' => u \in RowTasks /\ task'[u].op \in Results
      BY <1>0, <2>2, <2>5, <2>6 DEF RowTasksOK
    <3> QED
      BY <2>1, <2>2, <2>4, <2>6, <3>1, <3>2 DEF RowTasksOK, At
  <2> QED
    BY <2>8, <2>9, <2>10
<1>3. CASE WriteRow(t)
  <2>1. Busy(t) /\ PutsRow(t) /\ task[t].file \in Inodes /\ task[t].op \in Results /\ t \in RowTasks
    BY <1>0, <1>3 DEF WriteRow, At, Busy, RowTasksOK, PutsRow
  <2>2. Others /\ task'[t].at = "renameRow" /\ task'[t].file = task[t].file /\ task'[t].op = task[t].op
    <3>1. "renameRow" \in Ats /\ GoOn(t, "renameRow")
      BY <1>3 DEF Ats, WriteRow
    <3>2. /\ task'[t] = [at |-> "renameRow", op |-> task[t].op, file |-> task[t].file]
          /\ \A u \in Tasks \ {t} : task'[u] = task[u]
      BY <1>0, <2>1, <3>1, GoingOn
    <3> QED
      BY <3>2
  <2>3. PICK content \in {task[t].op, "other"} :
          /\ data[task[t].file] \in {"part", task[t].op} => content = task[t].op
          /\ data' = [data EXCEPT ![task[t].file] = content]
    BY <1>3 DEF WriteRow
  <2>4. UNCHANGED <<cas, row, rowTmp, inputs, mixed>>
    BY <1>3 DEF WriteRow
  <2>5. \A u \in Tasks : PutsRow(u)' <=> PutsRow(u)
    BY <2>1, <2>2 DEF PutsRow, At
  <2>6. \A u \in Tasks : task'[u].file = task[u].file /\ task'[u].op = task[u].op
    BY <2>2
  <2>7. RowsApart'
    <3>1. \A u \in Tasks : Busy(u)' <=> Busy(u)
      BY <2>1, <2>2 DEF Busy
    <3>2. \A j \in Inodes : RowFile(j)' <=> RowFile(j)
      BY <2>4, <2>5, <2>6 DEF RowFile
    <3> QED
      BY <1>0, <2>4, <2>5, <2>6, <3>1, <3>2 DEF RowsApart
  <2>8. RowKept'
    <3>1. content \in RowContents /\ \A j \in Inodes : data'[j] \in {data[j], content}
      BY <1>0, <2>1, <2>3 DEF RowContents
    <3> QED
      BY <1>0, <2>4, <3>1 DEF RowKept
  <2>9. RowTasksOK'
    <3>1. ASSUME NEW u \in Tasks, PutsRow(u), u \notin mixed PROVE u = t
      BY <1>0, <2>1, <3>1 DEF RowTasksOK
    <3>2. ASSUME t \notin mixed
          PROVE  /\ rowTmp = task[t].file /\ data'[rowTmp] = task[t].op
                 /\ \A u \in Tasks \ {t} : ~PutsRow(u)
      <4>1. At(t, "writeRow")
        BY <1>3 DEF WriteRow
      <4>2. rowTmp = task[t].file /\ data[rowTmp] = "part" /\ \A u \in Tasks \ {t} : ~PutsRow(u)
        BY <1>0, <2>1, <3>2, <4>1 DEF RowTasksOK
      <4> QED
        BY <1>0, <2>1, <2>3, <4>2
    <3> QED
      BY <1>0, <2>2, <2>4, <2>5, <2>6, <3>1, <3>2 DEF RowTasksOK, At
  <2> QED
    BY <2>7, <2>8, <2>9
<1>4. CASE RenameRow(t)
  <2>1. Busy(t) /\ PutsRow(t)
    BY <1>4 DEF RenameRow, At, Busy, PutsRow
  <2>2. Others /\ task'[t].at = "idle"
    BY <1>0, <1>4, Finishing DEF RenameRow, Idle
  <2>3. /\ UNCHANGED <<data, cas, inputs>> /\ mixed' = mixed \ {t}
        /\ \/ UNCHANGED <<row, rowTmp>>
           \/ rowTmp # None /\ row' = rowTmp /\ rowTmp' = None
    BY <1>4 DEF RenameRow
  <2>4. \A u \in Tasks : PutsRow(u)' <=> u # t /\ PutsRow(u)
    BY <2>2 DEF PutsRow, At
  <2>5. RowsApart'
    <3>1. \A j \in Inodes : RowFile(j)' => RowFile(j)
      BY <1>0, <2>2, <2>3, <2>4 DEF RowFile
    <3> QED
      BY <1>0, <2>2, <2>3, <2>4, <3>1 DEF RowsApart, Busy
  <2>6. RowKept'
    BY <1>0, <2>3 DEF RowKept
  <2>7. RowTasksOK'
    <3>1. ASSUME NEW u \in Tasks, PutsRow(u)' PROVE u \in mixed' /\ task'[u] = task[u] /\ PutsRow(u)
      BY <1>0, <2>1, <2>2, <2>3, <2>4, <3>1 DEF RowTasksOK
    <3> QED
      BY <1>0, <3>1 DEF RowTasksOK
  <2> QED
    BY <2>5, <2>6, <2>7
<1> QED
  BY <1>2, <1>3, <1>4 DEF RowStep

LEMMA RowStepInv ==
  ASSUME StoreAssumption, RowInv, [Next]_vars
  PROVE  RowInv'
<1>0. /\ TypeInv /\ RowsApart /\ RowKept /\ RowTasksOK
      /\ data \in [Inodes -> Contents] /\ None \notin Inodes
      /\ row \in Inodes \cup {None} /\ rowTmp \in Inodes \cup {None}
      /\ \A u \in Tasks : Busy(u) => task[u].file \in Inodes
  BY DEF RowInv, TypeInv, TypeOK, Contents, BusyOK, StoreAssumption
<1>1. TypeInv'
  BY <1>0, TypeStep
<1>2. ASSUME NEW t \in Tasks, BlobStep(t) \/ RowStep(t) PROVE RowInv'
  BY <1>1, <1>2, BlobStepKeepsRows, RowStepKeepsRows DEF RowInv
<1>3. ASSUME NEW i \in Inodes, Scribble(i) PROVE RowInv'
  <2>1. ~RowFile(i)
    BY <1>0, <1>3 DEF Scribble, RowsApart
  <2>2. UNCHANGED <<mode, cas, row, rowTmp, mixed, inputs, task>>
    BY <1>3 DEF Scribble, rowVars
  <2>3. \A j \in Inodes \ {i} : data'[j] = data[j]
    BY <1>0, <1>3 DEF Scribble
  <2>4. i \notin {row, rowTmp}
    BY <2>1 DEF RowFile
  <2>5. RowsApart'
    BY <1>0, <2>2 DEF RowsApart, RowFile, PutsRow, At, Busy
  <2>6. RowKept'
    BY <1>0, <2>2, <2>3, <2>4 DEF RowKept
  <2>7. RowTasksOK'
    BY <1>0, <2>2, <2>3, <2>4 DEF RowTasksOK, PutsRow, At, Busy
  <2> QED
    BY <1>1, <2>5, <2>6, <2>7 DEF RowInv
<1>4. ASSUME NEW i \in Inodes, Unstage(i) PROVE RowInv'
  BY <1>0, <1>1, <1>4 DEF Unstage, rowVars, RowInv, RowsApart, RowFile, RowKept, RowTasksOK, PutsRow, At, Busy
<1>5. CASE DeleteRow
  BY <1>0, <1>1, <1>5 DEF DeleteRow, RowInv, RowsApart, RowFile, RowKept, RowTasksOK, PutsRow, At, Busy
<1>6. CASE Crash
  <2>1. \A t \in Tasks : ~PutsRow(t)' /\ ~Busy(t)'
    BY <1>6 DEF Crash, Idle, PutsRow, At, Busy
  <2>2. UNCHANGED <<data, cas, row>> /\ inputs' = {} /\ rowTmp' \in {rowTmp, None}
    BY <1>6 DEF Crash
  <2>3. RowsApart'
    BY <1>0, <2>1, <2>2 DEF RowsApart, RowFile
  <2>4. RowKept' /\ RowTasksOK'
    BY <1>0, <2>1, <2>2 DEF RowKept, RowTasksOK
  <2> QED
    BY <1>1, <2>3, <2>4 DEF RowInv
<1>7. CASE UNCHANGED vars
  BY <1>0, <1>1, <1>7 DEF vars, rowVars, RowInv, RowsApart, RowFile, RowKept, RowTasksOK, PutsRow, At, Busy
<1> QED
  BY <1>2, <1>3, <1>4, <1>5, <1>6, <1>7 DEF Next

----------------------------------------------------------------------------
(* The store seen from outside.  The mapping takes what the names lead to; *)
(* the steps before a name is given, and those that read, are not seen.    *)

Blob    == IF cas = None THEN None ELSE data[cas]
Result  == IF row = None THEN None ELSE data[row]
Putting == [t \in RowTasks |-> IF PutsRow(t) THEN task[t].op ELSE None]
Soft    == banked # None

Seen == <<Blob, Result, Putting, stored, Soft, mixed>>

\* What a step on one side leaves to be seen of the other.
LEMMA RowStepKeepsBlob ==
  ASSUME StoreAssumption, BlobInv, NEW t \in Tasks, RowStep(t)
  PROVE  UNCHANGED <<Blob, stored, Soft>>
<1>0. /\ BlobSealed /\ IngestOK /\ data \in [Inodes -> Contents]
      /\ cas \in Inodes \cup {None} /\ None \notin Inodes
      /\ \A u \in Tasks : Busy(u) => task[u].file \in Inodes
  BY DEF BlobInv, TypeInv, TypeOK, Contents, BusyOK, StoreAssumption
<1>1. UNCHANGED <<cas, stored, banked>>
  BY DEF RowStep, OpenRow, WriteRow, RenameRow
<1>2. ASSUME cas # None PROVE data'[cas] = data[cas]
  <2>1. CASE OpenRow(t)
    BY <1>0, <1>2, <2>1 DEF OpenRow, Create, Free, InUse, BlobSealed
  <2>2. CASE WriteRow(t)
    BY <1>0, <1>2, <2>2 DEF WriteRow, At, IngestOK
  <2>3. CASE RenameRow(t)
    BY <2>3 DEF RenameRow
  <2> QED
    BY <2>1, <2>2, <2>3 DEF RowStep
<1> QED
  BY <1>1, <1>2 DEF Blob, Soft

\* A blob is never taken away, and nobody is told that it is there but once it is.
LEMMA BlobGrows ==
  ASSUME StoreAssumption, BlobInv, BlobInv', NEW t \in Tasks, BlobStep(t)
  PROVE  /\ \/ Blob' = Blob /\ stored' = stored
            \/ Blob' = (IF Blob = None THEN "blob" ELSE Blob) /\ stored' \in {stored, TRUE}
         /\ UNCHANGED Soft
<1>0. /\ BlobSealed /\ IngestOK /\ data \in [Inodes -> Contents]
      /\ cas \in Inodes \cup {None} /\ None \notin Inodes /\ None \notin Contents
      /\ \A u \in Tasks : Busy(u) => task[u].file \in Inodes
  BY DEF BlobInv, TypeInv, TypeOK, Contents, BusyOK, StoreAssumption
<1>1. cas # None => cas' # None
  <2>1. UNCHANGED cas \/ Rename(t) \/ LinkIn(t)
    BY DEF BlobStep, Present, Put, Write, Seal, Stream, Receive, Verify, Adopt, CloneIn,
           SealOutput, LinkRefused, StageLink, StageCopy, MakeExecutable
  <2> QED
    BY <1>0, <2>1 DEF Rename, LinkIn, At, Busy
<1>2. stored' \in {stored, TRUE}
  <2>1. stored \in BOOLEAN /\ stored' \in BOOLEAN
    BY DEF BlobInv, TypeInv, TypeOK
  <2>2. stored => stored'
    BY DEF BlobStep, Present, Put, Write, Seal, Rename, Stream, Receive, Verify, Adopt, CloneIn,
           SealOutput, LinkIn, LinkRefused, StageLink, StageCopy, MakeExecutable
  <2> QED
    BY <2>1, <2>2
<1>3. UNCHANGED banked
  BY DEF BlobStep, Present, Put, Write, Seal, Rename, Stream, Receive, Verify, Adopt, CloneIn,
         SealOutput, LinkIn, LinkRefused, StageLink, StageCopy, MakeExecutable
<1>4. CASE cas' = None
  <2>1. stored = FALSE /\ stored' = FALSE
    BY <1>1, <1>4 DEF BlobInv, TypeInv, TypeOK
  <2> QED
    BY <1>1, <1>3, <1>4, <2>1 DEF Blob, Soft
<1>5. CASE cas' # None /\ banked = None
  <2>1. Blob' = "blob" /\ Blob \in {None, "blob"}
    BY <1>0, <1>3, <1>5 DEF BlobInv, BlobSealed, Blob
  <2> QED
    BY <1>2, <1>3, <2>1 DEF Soft
<1>6. CASE banked # None
  <2>1. cas = banked /\ cas' = cas /\ cas \in Inodes
    BY <1>0, <1>3, <1>6 DEF BlobInv, BlobSealed
  <2>2. data'[cas] = data[cas]
    <3>1. ASSUME NEW i \in Inodes, NEW c, NEW m, Create(i, c, m)
          PROVE  data'[cas] = data[cas]
      BY <1>0, <2>1, <3>1 DEF Create, Free, InUse
    <3>2. CASE Write(t) \/ Receive(t)
      <4>1. task[t].file # cas
        BY <1>0, <3>2 DEF Write, Receive, At, IngestOK, Ingesting, Alone
      <4> QED
        BY <1>0, <2>1, <3>2, <4>1 DEF Write, Receive
    <3>3. CASE Put(t) \/ Stream(t) \/ Adopt(t) \/ CloneIn(t) \/ LinkRefused(t) \/ StageCopy(t)
      <4>1. \E i \in Inodes, c \in {"part", "blob", data[task[t].file], data[cas]},
               m \in {Plain, Full, ReadOnly, mode[cas]} : Create(i, c, m)
        BY <3>3 DEF Put, Stream, Adopt, CloneIn, LinkRefused, StageCopy
      <4> QED
        BY <3>1, <4>1
    <3>4. CASE UNCHANGED data
      BY <3>4
    <3> QED
      BY <3>2, <3>3, <3>4 DEF BlobStep, Present, Seal, Rename, Verify, SealOutput, LinkIn, StageLink,
         MakeExecutable
  <2>3. Blob' = Blob /\ Blob = data[cas] /\ Blob # None
    <3>1. data[cas] # None
      BY <1>0, <2>1
    <3> QED
      BY <1>0, <2>1, <2>2, <3>1 DEF Blob
  <2> QED
    BY <1>2, <1>3, <2>3 DEF Soft
<1> QED
  BY <1>4, <1>5, <1>6

LEMMA AtomicInit == StoreAssumption /\ Init => Atomic!Init
<1> SUFFICES ASSUME StoreAssumption, Init PROVE Atomic!Init
  OBVIOUS
<1>1. PICK i \in Inodes, m \in Modes \cup {None} :
        /\ cas = IF m = None THEN None ELSE i
        /\ banked = IF m \in {None, ReadOnly} THEN None ELSE i
        /\ data = [j \in Inodes |-> IF j = cas THEN "blob" ELSE "other"]
  BY DEF Init
<1>2. Blob \in {None, "blob"} /\ Soft \in BOOLEAN /\ (Soft => Blob = "blob")
  BY <1>1 DEF Blob, Soft, StoreAssumption
<1>3. Result = None /\ Putting = [t \in RowTasks |-> None] /\ stored = FALSE /\ mixed = {}
  BY DEF Init, Result, Putting, PutsRow, At, Idle, Tasks
<1> QED
  BY <1>2, <1>3 DEF Atomic!Init, Blob, Soft, Result, Putting

\* Each step of the store is one of the promise, or not to be seen.
LEMMA AtomicStep ==
  ASSUME StoreAssumption, BlobInv, BlobInv', RowInv, RowInv', [Next]_vars
  PROVE  [Atomic!Next]_(Atomic!vars)
<1> DEFINE Still == UNCHANGED Seen
<1>0. /\ TypeInv /\ RowsApart /\ RowKept /\ RowTasksOK
      /\ None \notin Inodes \cup Results
      /\ data \in [Inodes -> Contents]
      /\ row \in Inodes \cup {None} /\ cas \in Inodes \cup {None} /\ rowTmp \in Inodes \cup {None}
      /\ \A u \in Tasks : Busy(u) => task[u].file \in Inodes
  BY DEF RowInv, TypeInv, TypeOK, Contents, BusyOK, StoreAssumption
<1>1. Still => UNCHANGED Atomic!vars
  BY DEF Atomic!vars, Seen, Blob, Result, Putting, Soft
<1>2. \A t \in RowTasks : Putting[t] = IF PutsRow(t) THEN task[t].op ELSE None
  BY DEF Putting
<1>3. \A t \in RowTasks : Putting[t] # None <=> PutsRow(t)
  BY <1>0, <1>2 DEF RowTasksOK, Tasks
<1>4. ASSUME NEW t \in Tasks, \A u \in Tasks \ {t} : task'[u] = task[u]
      PROVE  \A u \in RowTasks \ {t} : Putting'[u] = Putting[u]
  BY <1>4 DEF Putting, PutsRow, At, Tasks
<1>5. ASSUME NEW t \in Tasks, BlobStep(t) PROVE Still \/ Atomic!StoreBlob
  <2>1. /\ UNCHANGED <<row, rowTmp, mixed>> /\ (row # None => data'[row] = data[row])
        /\ \A u \in Tasks \ {t} : task'[u] = task[u]
        /\ ~PutsRow(t) /\ ~PutsRow(t)'
    BY <1>5, BlobStepKeepsRows
  <2>2. UNCHANGED Result
    BY <2>1 DEF Result
  <2>3. UNCHANGED Putting
    <3>1. \A u \in RowTasks : Putting'[u] = Putting[u]
      BY <1>4, <2>1 DEF Putting, Tasks
    <3> QED
      BY <3>1 DEF Putting
  <2>4. /\ \/ Blob' = Blob /\ stored' = stored
           \/ Blob' = (IF Blob = None THEN "blob" ELSE Blob) /\ stored' \in {stored, TRUE}
        /\ UNCHANGED Soft
    BY <1>5, BlobGrows
  <2> QED
    BY <2>1, <2>2, <2>3, <2>4 DEF Atomic!StoreBlob, Seen, Blob, Result, Putting, Soft
<1>6. ASSUME NEW t \in Tasks, RowStep(t)
      PROVE  Still \/ \E u \in RowTasks : Atomic!BeginPut(u) \/ Atomic!PutResult(u) \/ Atomic!Garble(u)
  <2>1. UNCHANGED <<Blob, stored, Soft>>
    BY <1>6, RowStepKeepsBlob
  <2>2. t \in RowTasks
    BY <1>0, <1>6 DEF RowStep, OpenRow, WriteRow, RenameRow, RowTasksOK, PutsRow
  <2>3. CASE OpenRow(t)
    <3>1. PICK i \in Inodes, r \in Results :
            /\ IF rowTmp = None
                 THEN Create(i, "part", Plain)
                 ELSE i = rowTmp /\ data' = [data EXCEPT ![i] = "part"] /\ UNCHANGED mode
            /\ Do(t, "writeRow", r, i)
      BY <2>3 DEF OpenRow
    <3>2. task'[t].at = "writeRow" /\ task'[t].op = r /\ \A u \in Tasks \ {t} : task'[u] = task[u]
      <4>1. "writeRow" \in Ats /\ r \in Ops
        BY DEF Ats, Ops
      <4>2. /\ task'[t] = [at |-> "writeRow", op |-> r, file |-> i]
            /\ \A u \in Tasks \ {t} : task'[u] = task[u]
        BY <1>0, <3>1, <4>1, Doing
      <4> QED
        BY <4>2
    <3>3. ~PutsRow(t) /\ row' = row /\ Mix(t)
      BY <2>3 DEF OpenRow, At, PutsRow
    <3>4. i # row
      BY <1>0, <3>1 DEF Create, Free, InUse, RowKept
    <3>5. UNCHANGED Result
      BY <1>0, <3>1, <3>3, <3>4 DEF Result, Create
    <3>6. Putting[t] = None
      BY <1>3, <2>2, <3>3
    <3>7. Putting' = [Putting EXCEPT ![t] = r]
      <4>1. Putting'[t] = r /\ \A u \in RowTasks \ {t} : Putting'[u] = Putting[u]
        BY <1>4, <2>2, <3>2 DEF Putting, PutsRow, At
      <4> QED
        BY <4>1 DEF Putting
    <3>8. {u \in RowTasks : PutsRow(u)} = {u \in RowTasks : Putting[u] # None}
      BY <1>3
    <3>9. mixed' = IF {u \in RowTasks : Putting[u] # None} = {} THEN mixed
                     ELSE mixed \cup {u \in RowTasks : Putting[u] # None} \cup {t}
      BY <3>3, <3>8 DEF Mix
    <3> QED
      BY <2>1, <2>2, <3>5, <3>6, <3>7, <3>9
      DEF Atomic!BeginPut, Blob, Result, Putting, Soft
  <2>4. CASE WriteRow(t)
    <3>1. /\ Busy(t) /\ PutsRow(t) /\ GoOn(t, "renameRow") /\ row' = row /\ mixed' = mixed
          /\ At(t, "writeRow")
      BY <2>4 DEF WriteRow, At, Busy, PutsRow, rowVars
    <3>2. /\ task'[t].at = "renameRow" /\ task'[t].op = task[t].op
          /\ \A u \in Tasks \ {t} : task'[u] = task[u]
      <4>1. "renameRow" \in Ats
        BY DEF Ats
      <4>2. /\ task'[t] = [at |-> "renameRow", op |-> task[t].op, file |-> task[t].file]
            /\ \A u \in Tasks \ {t} : task'[u] = task[u]
        BY <1>0, <3>1, <4>1, GoingOn
      <4> QED
        BY <4>2
    <3>3. UNCHANGED Putting
      <4>1. \A u \in RowTasks : Putting'[u] = Putting[u]
        BY <1>4, <3>1, <3>2 DEF Putting, PutsRow, At
      <4> QED
        BY <4>1 DEF Putting
    <3>4. CASE row = None \/ task[t].file # row
      <4>1. UNCHANGED Result
        BY <1>0, <2>4, <3>1, <3>4 DEF Result, WriteRow
      <4> QED
        BY <2>1, <3>1, <3>3, <4>1 DEF Seen
    <3>5. CASE row # None /\ task[t].file = row
      <4>1. t \in mixed
        BY <1>0, <3>1, <3>5 DEF RowTasksOK, RowKept
      <4>2. Result' \in Results \cup {"part", "other"}
        <5>1. task[t].op \in Results
          BY <1>0, <3>1 DEF RowTasksOK
        <5> QED
          BY <1>0, <2>4, <3>1, <3>5, <5>1 DEF WriteRow, Result
      <4> QED
        BY <2>1, <2>2, <3>1, <3>3, <4>1, <4>2
        DEF Atomic!Garble, Atomic!Garbled, Blob, Result, Putting, Soft
    <3> QED
      BY <3>4, <3>5
  <2>5. CASE RenameRow(t)
    <3>1. Busy(t) /\ PutsRow(t) /\ task[t].at = "renameRow" /\ Finish(t) /\ mixed' = mixed \ {t}
      BY <2>5 DEF RenameRow, At, Busy, PutsRow
    <3>2. task'[t].at = "idle" /\ \A u \in Tasks \ {t} : task'[u] = task[u]
      BY <1>0, <3>1, Finishing DEF Idle
    <3>3. Putting' = [Putting EXCEPT ![t] = None]
      <4>1. Putting'[t] = None /\ \A u \in RowTasks \ {t} : Putting'[u] = Putting[u]
        BY <1>4, <2>2, <3>2 DEF Putting, PutsRow, At
      <4> QED
        BY <4>1 DEF Putting
    <3>4. Putting[t] = task[t].op /\ Putting[t] # None
      BY <1>2, <1>3, <2>2, <3>1
    <3>5. \/ t \notin mixed /\ Result' = Putting[t]
          \/ t \in mixed /\ (Result' \in Results \cup {"part", "other"} \/ UNCHANGED Result)
      <4>1. CASE t \notin mixed
        <5>1. rowTmp # None /\ data[rowTmp] = task[t].op
          BY <1>0, <3>1, <4>1 DEF RowTasksOK, At
        <5> QED
          BY <2>5, <3>4, <4>1, <5>1 DEF RenameRow, Result
      <4>2. CASE t \in mixed
        BY <1>0, <2>5, <4>2 DEF RenameRow, Result, RowKept, RowContents
      <4> QED
        BY <4>1, <4>2
    <3> QED
      BY <2>1, <2>2, <3>1, <3>3, <3>4, <3>5
      DEF Atomic!PutResult, Atomic!Garbled, Blob, Result, Putting, Soft
  <2> QED
    BY <1>6, <2>3, <2>4, <2>5 DEF RowStep
<1>7. ASSUME NEW i \in Inodes, Scribble(i) \/ Unstage(i) PROVE Still \/ Atomic!Spoil
  <2>1. UNCHANGED <<cas, row, task, stored, banked, mixed>>
    BY <1>7 DEF Scribble, Unstage, rowVars
  <2>2. row # None => data'[row] = data[row]
    BY <1>0, <1>7 DEF Scribble, Unstage, RowsApart, RowFile
  <2>3. UNCHANGED <<Result, Putting, stored, Soft, mixed>>
    BY <2>1, <2>2 DEF Result, Putting, PutsRow, At, Soft
  <2>4. \/ UNCHANGED Blob
        \/ Soft /\ Blob' = "other"
    <3>1. banked = None /\ cas # None => mode[cas] = ReadOnly
      BY DEF BlobInv, BlobSealed
    <3> QED
      BY <1>0, <1>7, <2>1, <3>1 DEF Scribble, Unstage, Blob, Soft
  <2> QED
    BY <2>3, <2>4 DEF Seen, Atomic!Spoil, Blob, Result, Putting, Soft
<1>8. CASE DeleteRow
  <2>1. UNCHANGED <<data, cas, task, stored, banked, mixed>> /\ Result' = None
    BY <1>8 DEF DeleteRow, Result
  <2>2. UNCHANGED <<Blob, Putting, Soft>>
    BY <2>1 DEF Blob, Putting, PutsRow, At, Soft
  <2>3. Atomic!DeleteResult
    BY <2>1, <2>2 DEF Atomic!DeleteResult, Blob, Result, Putting, Soft
  <2> QED
    BY <2>3 DEF Atomic!Next
<1>9. CASE Crash
  <2>1. UNCHANGED <<data, cas, row, stored, banked>> /\ mixed' = {}
    BY <1>9 DEF Crash
  <2>2. Putting' = [t \in RowTasks |-> None]
    BY <1>9 DEF Crash, Putting, PutsRow, At, Idle, Tasks
  <2>3. UNCHANGED <<Blob, Result, Soft>>
    BY <2>1 DEF Blob, Result, Soft
  <2>4. Atomic!Crash
    BY <2>1, <2>2, <2>3 DEF Atomic!Crash, Blob, Result, Putting, Soft
  <2> QED
    BY <2>4 DEF Atomic!Next
<1>10. CASE UNCHANGED vars
  <2>1. Still
    BY <1>10 DEF vars, rowVars, Seen, Blob, Result, Putting, PutsRow, At, Soft
  <2> QED
    BY <1>1, <2>1
<1> QED
  BY <1>1, <1>5, <1>6, <1>7, <1>8, <1>9, <1>10 DEF Next, Atomic!Next

\* The store does what AtomicStore promises, for any number of tasks, files and
\* actions: every put, adoption and deletion is seen at once, and a crash loses
\* only what was under way.
THEOREM StoreIsAtomic == Spec => ImplementsAtomicStore
<1>1. Init => BlobInv /\ RowInv /\ Atomic!Init
  BY BlobInit, RowInit, AtomicInit, StoreAssumption
<1>2. BlobInv /\ RowInv /\ [Next]_vars => BlobInv' /\ RowInv'
  BY BlobStepInv, RowStepInv, StoreAssumption
<1>3. BlobInv /\ RowInv /\ BlobInv' /\ RowInv' /\ [Next]_vars => [Atomic!Next]_(Atomic!vars)
  BY AtomicStep, StoreAssumption
<1> QED
  BY <1>1, <1>2, <1>3, PTL DEF Spec, ImplementsAtomicStore, Atomic!Spec
=============================================================================
