----------------------------- MODULE Canonical -----------------------------
(* The canonical action cache (norm.rs, driver.rs): actions that do the     *)
(* same work under different target labels share one row, keyed by what is  *)
(* left of the action when everything derived from its label is replaced    *)
(* by a placeholder, and served under the requester's own paths.            *)
(*                                                                          *)
(* A token of a command or an argsfile is modelled by its work-relevant     *)
(* part, by the label that occurs in it (Plain if none does), and by        *)
(* whether it is an @-reference to the file of that name; so is a path.     *)
(* A hash is modelled by the set of actions that hash alike.  The compiler  *)
(* is modelled by the premise the cache rests on: what it makes depends on  *)
(* its work (Work) and on the platform, not on labels.                      *)
EXTENDS Integers, Sequences, FiniteSets, SequencesExt

CONSTANTS
  Actions,
  Args,         \* Args[a]: the arguments of a's command, as tokens
  Envs,         \* Envs[a]: its environment, likewise
  Declared,     \* Declared[a]: its output paths, likewise
  Tree,         \* Tree[a]: its input tree, a function from paths to lines
  Platform,     \* Platform[a]: where it is to run
  Uncached,     \* actions with do_not_cache
  Compilers,    \* actions that go through rustc_action.py
  Requests,     \* calls of execute
  Plain, Norm,  \* no label; the placeholder for one
  Corrupt,      \* what does not decode
  Bank,         \* whoever left the rows that are there at the start
  None          \* no such thing

ASSUME CanonicalAssumption ==
  /\ None \notin Requests \cup {Bank} /\ Bank \notin Requests
  /\ \A a \in Actions : \A s \in {Args[a], Envs[a], Declared[a]} : s \in Seq(Range(s))

VARIABLES
  memo,       \* memo_canonical
  acn,        \* acn[k]: the file under key k's name; a file goes by who created it
  tmp,        \* tmp[k]: the file under the temporary name of k
  text,       \* text[f]: what is in file f
  step,       \* where each request is
  asks,       \* asks[r]: the action r is for
  key,        \* key[r]: its canonical key, or None
  row,        \* row[r]: the row it found, or the one it is to write
  fd,         \* fd[r]: the file it writes
  served,     \* served[r]: the result a canonical hit answered it with, or None
  collided    \* for the properties only: keys whose row two requests wrote at once

disk == <<acn, tmp, text, fd>>
canonVars == <<memo, acn, tmp, text, fd, step, asks, key, row, served, collided>>

-----------------------------------------------------------------------------
(* The key                                                                 *)

\* normalize_token: what comes from a label becomes the placeholder.
NormalToken(t) ==
  [word |-> t.word, label |-> IF t.label = Plain THEN Plain ELSE Norm, at |-> t.at]
NormalLines(s) == [i \in DOMAIN s |-> NormalToken(s[i])]

\* The files that lines refer to, by their paths as they stand.  A reference goes
\* by its place: the hash takes the files in the order of these places, which
\* are to be seen in the command and the files before them.
PathOf(t)   == [word |-> t.word, label |-> t.label, at |-> FALSE]
Refs(lines) == [i \in {i \in DOMAIN lines : lines[i].at} |-> PathOf(lines[i])]
At(a, p) == IF p \in DOMAIN Tree[a] THEN Tree[a][p] ELSE <<>>

\* The argsfiles, followed for two levels.
FirstLevel(a)  == Refs(Args[a])
Within(a, i)   == Refs(At(a, FirstLevel(a)[i]))
SecondLevel(a) ==
  [ij \in UNION {{i} \X DOMAIN Within(a, i) : i \in DOMAIN FirstLevel(a)} |->
     Within(a, ij[1])[ij[2]]]
Argsfiles(a) == Range(FirstLevel(a)) \cup Range(SecondLevel(a))

\* Arguments, environment and outputs one after the other; nothing marks where
\* one ends.  The platform and the working directory are not among them.
NormalCommand(a) == NormalLines(Args[a] \o Envs[a] \o Declared[a])

\* Mutant: the first level alone goes into the key.
FirstNormalFiles(a) ==
  [i \in DOMAIN FirstLevel(a) |-> NormalLines(At(a, FirstLevel(a)[i]))]
NormalFiles(a) ==
  << [i \in DOMAIN FirstLevel(a) |-> NormalLines(At(a, FirstLevel(a)[i]))],
     [ij \in DOMAIN SecondLevel(a) |-> NormalLines(At(a, SecondLevel(a)[ij]))] >>

\* source_content_hash: every other file of the tree, as it is.
Sources(a) == {<<p, Tree[a][p]>> : p \in DOMAIN Tree[a] \ Argsfiles(a)}

\* An argsfile that is not in the tree leaves the action without a key.
Hashed(a) == <<NormalCommand(a), NormalFiles(a), Sources(a)>>
CanonicalKey ==
  [a \in Actions |->
     IF a \in Compilers /\ Argsfiles(a) \subseteq DOMAIN Tree[a]
     THEN {b \in Actions : Hashed(b) = Hashed(a)} ELSE None]

Keys == {CanonicalKey[a] : a \in Actions} \ {None}

-----------------------------------------------------------------------------
(* Results                                                                 *)

\* Everything the command reads, labels apart: the argsfiles however deep.
Closure(a) ==
  LET paths     == DOMAIN Tree[a]
      closed(S) == paths \cap (Range(FirstLevel(a)) \cup UNION {Range(Refs(At(a, p))) : p \in S})
                     \subseteq S
  IN {p \in paths : \A S \in SUBSET paths : closed(S) => p \in S}
\* The argsfiles further down, which the key takes for sources.
Deep(a) == Closure(a) \ Argsfiles(a)
Work(a) ==
  [args |-> NormalLines(Args[a]), envs |-> NormalLines(Envs[a]),
   outs |-> NormalLines(Declared[a]),
   files |-> {IF p \in Closure(a) THEN <<NormalToken(p), NormalLines(Tree[a][p])>>
                                  ELSE <<p, Tree[a][p]>> : p \in DOMAIN Tree[a]}]

\* What running a gives; a blob goes by who made it.
Made(a) == [exit |-> 0, by |-> a,
              outs |-> [i \in DOMAIN Declared[a] |->
                          [path |-> Declared[a][i], blob |-> <<a, i>>]]]
Failed(a) == [exit |-> 1, by |-> a, outs |-> <<>>]
\* An empty file decodes to this.
Default == [exit |-> 0, by |-> None, outs |-> <<>>]

\* A result under other paths.
Under(w, paths) == [exit |-> w.exit, by |-> w.by,
                    outs |-> [i \in DOMAIN w.outs |->
                                [path |-> paths[i], blob |-> w.outs[i].blob]]]

\* normalize_result, for the store; rewrite_result, for the requester: a path
\* becomes the last declared one that has it as its normal form.
NormalResult(w) == Under(w, [i \in DOMAIN w.outs |-> NormalToken(w.outs[i].path)])
Renamed(p, a) ==
  LET js == {j \in DOMAIN Declared[a] : NormalToken(Declared[a][j]) = p}
  IN IF js = {} THEN p ELSE Declared[a][Max(js)]
Rewritten(w, a) == Under(w, [i \in DOMAIN w.outs |-> Renamed(w.outs[i].path, a)])

-----------------------------------------------------------------------------
(* execute                                                                 *)

CanonInit ==
  /\ memo = [k \in Keys |-> None]
  /\ acn \in {[k \in Keys |-> f] : f \in {None, Bank}}
  /\ tmp = [k \in Keys |-> None]
  /\ text = [r \in Requests \cup {Bank} |-> Corrupt]
  /\ step = [r \in Requests |-> "new"]
  /\ asks = [r \in Requests |-> None]
  /\ key = [r \in Requests |-> None]
  /\ row = [r \in Requests |-> None]
  /\ fd = [r \in Requests |-> None]
  /\ served = [r \in Requests |-> None]
  /\ collided = {}

Enter(r) ==
  /\ step[r] = "new"
  /\ \E a \in Actions :
       /\ asks' = [asks EXCEPT ![r] = a]
       /\ step' = [step EXCEPT ![r] = IF a \in Compilers THEN "keying" ELSE "running"]
  /\ UNCHANGED <<memo, disk, key, row, served, collided>>

\* A directory or an argsfile that cannot be read means no key.
MakeKey(r) ==
  /\ step[r] = "keying"
  /\ key' \in {[key EXCEPT ![r] = k] : k \in {CanonicalKey[asks[r]], None}}
  /\ step' = [step EXCEPT ![r] = IF key'[r] = None THEN "running" ELSE "probing"]
  /\ UNCHANGED <<memo, disk, asks, row, served, collided>>

\* canonical_probe reads the memo or else the row; one that does not decode is
\* a miss.
Probe(r) ==
  LET k == key[r]
      w == IF memo[k] # None THEN memo[k] ELSE IF acn[k] # None THEN text[acn[k]] ELSE Corrupt
  IN /\ step[r] = "probing"
     /\ \/ /\ w = Corrupt
           /\ step' = [step EXCEPT ![r] = "running"]
           /\ UNCHANGED row
        \/ /\ w # Corrupt
           /\ step' = [step EXCEPT ![r] = "checking"]
           /\ row' = [row EXCEPT ![r] = w]
     /\ UNCHANGED <<memo, disk, asks, key, served, collided>>

\* The fleet has the blobs the result names, or not; without any it is not asked.
Check(r) ==
  /\ step[r] = "checking"
  /\ \/ /\ served' = [served EXCEPT ![r] = Rewritten(row[r], asks[r])]
        /\ step' = [step EXCEPT ![r] = "done"]
     \/ /\ row[r].outs # <<>>
        /\ step' = [step EXCEPT ![r] = "running"]
        /\ UNCHANGED served
  /\ UNCHANGED <<memo, disk, asks, key, row, collided>>

\* Only what succeeded and may be cached is.
Bankable(r, w) == key[r] # None /\ w.exit = 0 /\ asks[r] \notin Uncached

\* The action is dispatched and run.
RunAction(r) ==
  /\ step[r] = "running"
  /\ \E w \in {Made(asks[r]), Failed(asks[r])} :
       /\ row' = [row EXCEPT ![r] = NormalResult(w)]
       /\ step' = [step EXCEPT ![r] = IF Bankable(r, w) THEN "opening" ELSE "done"]
  /\ UNCHANGED <<memo, disk, asks, key, served, collided>>

\* acn_put: the temporary file has one name per key and process, so a call
\* truncates the one that another has under way.
OpenRow(r) ==
  LET k == key[r]
      f == IF tmp[k] = None THEN r ELSE tmp[k]
  IN /\ step[r] = "opening"
     /\ tmp' = [tmp EXCEPT ![k] = f]
     /\ text' = [text EXCEPT ![f] = Default]
     /\ collided' = IF tmp[k] = None THEN collided ELSE collided \cup {k}
     /\ fd' = [fd EXCEPT ![r] = f]
     /\ step' = [step EXCEPT ![r] = "writing"]
     /\ UNCHANGED <<memo, acn, asks, key, row, served>>
WriteRow(r) ==
  /\ step[r] = "writing"
  /\ text' = [text EXCEPT ![fd[r]] = row[r]]
  /\ step' = [step EXCEPT ![r] = "renaming"]
  /\ UNCHANGED <<memo, acn, tmp, fd, asks, key, row, served, collided>>
RenameRow(r) ==
  /\ step[r] = "renaming"
  /\ tmp[key[r]] # None
  /\ acn' = [acn EXCEPT ![key[r]] = tmp[key[r]]]
  /\ tmp' = [tmp EXCEPT ![key[r]] = None]
  /\ step' = [step EXCEPT ![r] = "memoizing"]
  /\ UNCHANGED <<memo, text, fd, asks, key, row, served, collided>>

\* Then the memo; a put that fails is forgotten, and the action still answered.
Memoize(r) ==
  /\ step[r] = "memoizing"
  /\ memo' = [memo EXCEPT ![key[r]] = row[r]]
  /\ step' = [step EXCEPT ![r] = "done"]
  /\ UNCHANGED <<disk, asks, key, row, served, collided>>
PutFails(r) ==
  /\ step[r] \in {"opening", "writing", "renaming"}
  /\ step' = [step EXCEPT ![r] = "done"]
  /\ UNCHANGED <<memo, disk, asks, key, row, served, collided>>

\* The driver dies and another starts on its store.
Restart ==
  /\ memo' = [k \in Keys |-> None]
  /\ tmp' = [k \in Keys |-> None]
  /\ step' = [r \in Requests |-> IF step[r] = "new" THEN "new" ELSE "done"]
  /\ UNCHANGED <<acn, text, fd, asks, key, row, served, collided>>

CanonNext ==
  \/ \E r \in Requests :
       \/ Enter(r) \/ MakeKey(r) \/ Probe(r) \/ Check(r) \/ RunAction(r)
       \/ OpenRow(r) \/ WriteRow(r) \/ RenameRow(r) \/ Memoize(r) \/ PutFails(r)
  \/ Restart

CanonSpec == CanonInit /\ [][CanonNext]_canonVars

-----------------------------------------------------------------------------
(* Properties                                                              *)

\* A canonical hit is what the requester's own run would have given, blob by
\* blob and under its own paths: twins share, whoever ran first and however deep
\* their argsfiles nest, and actions that differ in a flag, a source or an
\* argsfile do not.  Not so, and the key cannot tell, for another platform, for
\* commands that divide the same words otherwise between arguments, environment
\* and outputs, for argsfiles beyond the second level that go by their labels,
\* nor if two outputs have one normal form; and a row that two calls wrote at
\* once may be empty.
CanonicalHitsAreTwins ==
  \A r \in Requests :
    served[r] # None =>
      LET a == asks[r]
          b == served[r].by
      IN \/ served[r] = Default /\ key[r] \in collided
         \/ b \in Actions
            /\ \/ /\ Work(a) = Work(b) /\ Platform[a] = Platform[b]
                  /\ served[r] = Under(Made(b), Declared[a])
               \/ Platform[a] # Platform[b]
               \/ Len(Args[a]) # Len(Args[b]) \/ Len(Declared[a]) # Len(Declared[b])
               \/ Deep(a) # Deep(b)
               \/ ~IsInjective(NormalLines(Declared[a]))
=============================================================================
