-------------------------- MODULE ExecutionProofs --------------------------
(* Theorems about run_action, for any calls, crates, processes, machines,   *)
(* directories, deaths and surviving commands, and about the canonical key. *)
EXTENDS Execution, Canonical, SequenceTheorems, TLAPS

-----------------------------------------------------------------------------
(* The invariant                                                           *)

Before == {"new", "locking", "clearing", "deleting", "making"}
Busy   == {"staging", "running", "collecting"}

\* Nobody else was on its path, and the path was cleared.
Lone(t) == t \notin soiled \cup met

\* Two calls that have the lock of one path have met.
Excluded(t, u) ==
  t # u /\ Keyed(t) /\ stage[t] \in Holding /\ stage[u] \in Holding /\ Where(t) = Where(u)
    => t \in met

\* A directory is on one path, and on none when it was renamed aside.
Apart ==
  \A bk, other \in Paths : place[bk] # Nil =>
    /\ bk # other => place[other] # place[bk]
    /\ \A e \in bin[other] : e.dir # place[bk]

Staged(t) ==
  /\ stage[t] \in {"locking", "clearing", "deleting", "making"} => Keyed(t)
  /\ stage[t] = "staging" /\ ~Keyed(t) => cwd[t] # Nil
  /\ stage[t] \in Before => linked[t] = {}

\* A lone call finds its path free, and then works in a directory that no other
\* call works in, with all it staged and nothing that is not its own.
Settled(t) ==
  Lone(t) =>
    /\ \A f \in taken[t] : f.by = t
    /\ stage[t] = "making" => Root(t) = Nil
    /\ stage[t] \in Busy =>
         /\ Root(t) # Nil
         /\ ~Keyed(t) => ~Named(Root(t))
         /\ \A u \in Tasks \ {t} : stage[u] # "ended" => cwd[u] # Root(t)
         /\ \A f \in files[Root(t)] : f.by = t
         /\ \A n \in linked[t] : Put(n, t) \in files[Root(t)]
    /\ stage[t] \in {"running", "collecting"} => cwd[t] = Root(t) /\ linked[t] = Inputs[t]

RunInv ==
  /\ ExecTypeOK /\ Apart
  /\ \A t, u \in Tasks : Excluded(t, u)
  /\ \A t \in Tasks : Staged(t) /\ Settled(t)

LEMMA InitRuns == ExecInit => RunInv
<1> SUFFICES ASSUME ExecInit PROVE RunInv
  OBVIOUS
<1> USE DEF ExecInit
<1>1. PICK trash \in [Paths -> Dirs \cup {Nil}] :
        /\ \A bk, other \in Paths : place[bk] # Nil =>
             place[bk] # trash[other] /\ (bk # other => place[bk] # place[other])
        /\ bin = [bk \in Paths |-> IF trash[bk] = Nil THEN {}
                                   ELSE {[no |-> 0, dir |-> trash[bk], by |-> Nil]}]
        /\ files = [d \in Dirs |-> IF \E bk \in Paths : d \in {place[bk], trash[bk]}
                                  THEN Leftovers ELSE {}]
  OBVIOUS
<1>2. ExecTypeOK
  <2>1. bin \in [Paths -> SUBSET [no : Nat, dir : Dirs, by : Procs \cup {Nil}]]
    BY <1>1
  <2>2. Leftovers \subseteq Files
    BY DEF Leftovers, Files, Put
  <2>3. files \in [Dirs -> SUBSET Files]
    BY <1>1, <2>2
  <2> QED
    BY <2>1, <2>3, ExecutionAssumption DEF ExecTypeOK, Working
<1>3. Apart
  BY <1>1 DEF Apart
<1>4. \A t, u \in Tasks : Excluded(t, u)
  BY DEF Excluded, Holding
<1>5. \A t \in Tasks : Staged(t) /\ Settled(t)
  BY DEF Staged, Settled, Busy
<1> QED
  BY <1>2, <1>3, <1>4, <1>5 DEF RunInv

\* A keyed call that began has its path.
LEMMA PathTyped ==
  ASSUME ExecTypeOK, NEW t \in Tasks, Keyed(t), stage[t] \in Working
  PROVE  Where(t) \in Paths
<1>1. host[t] \in Procs
  BY DEF ExecTypeOK
<1>2. Crate[t] \in Crates
  BY DEF Crates, Keyed
<1> QED
  BY <1>1, <1>2 DEF Where, Boxes, Paths

LEMMA RootTyped ==
  ASSUME ExecTypeOK, NEW t \in Tasks, stage[t] \in Working
  PROVE  Root(t) \in Dirs \cup {Nil}
BY PathTyped DEF ExecTypeOK, Root

\* The directory of a lone call is not taken for a new one.
LEMMA NotFree ==
  ASSUME RunInv, NEW t \in Tasks, Lone(t), stage[t] \in Busy
  PROVE  Root(t) \in Dirs /\ ~Free(Root(t))
<1>1. ExecTypeOK /\ Settled(t) /\ stage[t] \in Working /\ stage[t] # "ended"
  BY DEF RunInv, Busy, Working
<1>2. Root(t) \in Dirs
  BY <1>1, RootTyped DEF Settled
<1>3. CASE Keyed(t)
  <2>1. Where(t) \in Paths
    BY <1>1, <1>3, PathTyped
  <2> QED
    BY <1>2, <1>3, <2>1 DEF Root, Named, Free
<1>4. CASE ~Keyed(t)
  BY <1>1, <1>2, <1>4 DEF Root, Free
<1> QED
  BY <1>2, <1>3, <1>4

\* The path of a lone call is no other call's that has a lock.
LEMMA OtherPath ==
  ASSUME RunInv, NEW t \in Tasks, NEW u \in Tasks \ {t}, Lone(t), Keyed(t),
         stage[t] \in Holding, stage[u] \in Holding
  PROVE  Where(u) # Where(t)
BY DEF RunInv, Excluded, Lone

\* Nor is its directory.
LEMMA OtherRoot ==
  ASSUME RunInv, NEW t \in Tasks, NEW u \in Tasks \ {t}, Lone(t),
         stage[t] \in Busy, stage[u] \in Holding
  PROVE  Root(u) # Root(t)
<1>1. /\ ExecTypeOK /\ Apart /\ Settled(t)
      /\ stage[t] \in Holding /\ stage[t] \in Working /\ stage[u] \in Working /\ stage[u] # "ended"
  BY DEF RunInv, Busy, Holding, Working
<1>2. /\ Root(t) # Nil /\ (~Keyed(t) => ~Named(Root(t))) /\ cwd[u] # Root(t)
  BY <1>1 DEF Settled
<1>3. CASE Keyed(u) /\ Keyed(t)
  <2>1. Where(u) # Where(t) /\ Where(u) \in Paths /\ Where(t) \in Paths
    BY <1>1, <1>3, OtherPath, PathTyped
  <2> QED
    BY <1>1, <1>2, <1>3, <2>1 DEF Apart, Root
<1>4. CASE Keyed(u) /\ ~Keyed(t)
  <2>1. Where(u) \in Paths
    BY <1>1, <1>4, PathTyped
  <2> QED
    BY <1>2, <1>4, <2>1 DEF Named, Root
<1>5. CASE ~Keyed(u)
  BY <1>2, <1>5 DEF Root
<1> QED
  BY <1>3, <1>4, <1>5

-----------------------------------------------------------------------------
(* Every step keeps it                                                     *)

\* What a step must leave alone for a call to stay settled.
LEMMA Undisturbed ==
  ASSUME RunInv, NEW t \in Tasks, Lone(t)' => Lone(t),
         stage'[t] = stage[t], linked'[t] = linked[t], taken'[t] = taken[t], cwd'[t] = cwd[t],
         Lone(t) /\ stage[t] \in Busy \cup {"making"} => Root(t)' = Root(t),
         Lone(t) /\ stage[t] \in Busy =>
           /\ files'[Root(t)] = files[Root(t)]
           /\ ~Keyed(t) => ~(\E bk \in Paths : place'[bk] = Root(t) \/ \E e \in bin'[bk] : e.dir = Root(t))
           /\ \A u \in Tasks \ {t} : stage'[u] # "ended" => cwd'[u] # Root(t)
  PROVE  Settled(t)'
<1> SUFFICES ASSUME Lone(t)' PROVE Settled(t)'
  BY DEF Settled
<1>1. Lone(t) /\ Settled(t)
  BY DEF RunInv
<1>2. \A f \in taken'[t] : f.by = t
  BY <1>1 DEF Settled
<1>3. stage'[t] = "making" => Root(t)' = Nil
  BY <1>1 DEF Settled
<1>4. ASSUME stage'[t] \in Busy
      PROVE  /\ Root(t)' # Nil
             /\ ~Keyed(t) => ~Named(Root(t))'
             /\ \A u \in Tasks \ {t} : stage'[u] # "ended" => cwd'[u] # Root(t)'
             /\ \A f \in files'[Root(t)'] : f.by = t
             /\ \A n \in linked'[t] : Put(n, t) \in files'[Root(t)']
  <2>1. Root(t)' = Root(t) /\ stage[t] \in Busy
    BY <1>1, <1>4
  <2>2. ~Keyed(t) => ~Named(Root(t))'
    BY <1>1, <2>1 DEF Named
  <2> QED
    BY <1>1, <2>1, <2>2 DEF Settled
<1>5. stage'[t] \in {"running", "collecting"} => cwd'[t] = Root(t)' /\ linked'[t] = Inputs[t]
  BY <1>1 DEF Settled, Busy
<1> QED
  BY <1>2, <1>3, <1>4, <1>5 DEF Settled, Keyed, Put

\* What one call does leaves the lone ones settled: it changes the path whose
\* lock it has, and what is in its own directory, where it works, and in new
\* ones.
LEMMA OthersStay ==
  ASSUME RunInv, NEW w \in Tasks, NEW t \in Tasks \ {w}, Lone(t)' => Lone(t),
         \A u \in Tasks \ {w} : /\ stage'[u] = stage[u] /\ host'[u] = host[u] /\ linked'[u] = linked[u]
                               /\ taken'[u] = taken[u] /\ cwd'[u] = cwd[u],
         stage'[w] # "ended" => \/ stage[w] # "ended" /\ cwd'[w] = cwd[w]
                                \/ stage[w] = "new" /\ Free(cwd'[w])
                                \/ stage[w] = "staging" /\ cwd'[w] = Root(w),
         \A bk \in Paths : \/ place'[bk] = place[bk]
                           \/ stage[w] \in Holding /\ Keyed(w) /\ bk = Where(w),
         \A d \in Dirs : (\E bk \in Paths : place'[bk] = d \/ \E e \in bin'[bk] : e.dir = d)
                           => Named(d) \/ Free(d),
         \A d \in Dirs : \/ files'[d] = files[d]
                         \/ Free(d)
                         \/ stage[w] \in Holding /\ d = Root(w)
                         \/ stage[w] # "ended" /\ d = cwd[w]
  PROVE  Settled(t)'
<1>1. ExecTypeOK /\ Settled(t) /\ Keyed(t)' = Keyed(t) /\ Where(t)' = Where(t)
  BY DEF RunInv, Keyed, Where
<1>2. ASSUME Lone(t), stage[t] \in Busy \cup {"making"}
      PROVE  Root(t)' = Root(t)
  <2>1. CASE Keyed(t)
    <3>1. stage[t] \in Holding /\ stage[t] \in Working
      BY <1>2 DEF Busy, Holding, Working
    <3>2. Where(t) \in Paths
      BY <1>1, <2>1, <3>1, PathTyped
    <3>3. stage[w] \in Holding => Where(w) # Where(t)
      BY <1>2, <2>1, <3>1, OtherPath
    <3> QED
      BY <1>1, <2>1, <3>2, <3>3 DEF Root
  <2>2. CASE ~Keyed(t)
    BY <1>1, <2>2 DEF Root
  <2> QED
    BY <2>1, <2>2
<1>3. ASSUME Lone(t), stage[t] \in Busy
      PROVE  /\ files'[Root(t)] = files[Root(t)]
             /\ ~Keyed(t) => ~(\E bk \in Paths : place'[bk] = Root(t) \/ \E e \in bin'[bk] : e.dir = Root(t))
             /\ \A u \in Tasks \ {t} : stage'[u] # "ended" => cwd'[u] # Root(t)
  <2>1. Root(t) \in Dirs /\ ~Free(Root(t))
    BY <1>3, NotFree
  <2>2. stage[w] \in Holding => Root(w) # Root(t)
    BY <1>3, OtherRoot
  <2>3. /\ ~Keyed(t) => ~Named(Root(t))
        /\ \A u \in Tasks \ {t} : stage[u] # "ended" => cwd[u] # Root(t)
    BY <1>1, <1>3 DEF Settled
  <2>4. stage[w] = "staging" => stage[w] \in Holding
    BY DEF Holding
  <2>5. files'[Root(t)] = files[Root(t)]
    BY <2>1, <2>2, <2>3
  <2>6. ~Keyed(t) => ~(\E bk \in Paths : place'[bk] = Root(t) \/ \E e \in bin'[bk] : e.dir = Root(t))
    BY <2>1, <2>3
  <2>7. ASSUME NEW u \in Tasks \ {t}, stage'[u] # "ended"
        PROVE  cwd'[u] # Root(t)
    <3>1. CASE u = w
      BY <2>1, <2>2, <2>3, <2>4, <2>7, <3>1
    <3>2. CASE u # w
      BY <2>3, <2>7, <3>2
    <3> QED
      BY <3>1, <3>2
  <2> QED
    BY <2>5, <2>6, <2>7
<1>4. stage'[t] = stage[t] /\ linked'[t] = linked[t] /\ taken'[t] = taken[t] /\ cwd'[t] = cwd[t]
  OBVIOUS
<1> QED
  BY <1>2, <1>3, <1>4, Undisturbed

\* Locks are taken by Lock only.
LEMMA ExcludedStays ==
  ASSUME RunInv, met \subseteq met', NEW t \in Tasks, NEW u \in Tasks,
         \A v \in {t, u} : Keyed(v) /\ stage'[v] \in Holding => stage[v] \in Holding /\ host'[v] = host[v]
  PROVE  Excluded(t, u)'
<1> SUFFICES ASSUME t # u, Keyed(t), stage'[t] \in Holding, stage'[u] \in Holding, Where(t)' = Where(u)'
             PROVE  t \in met'
  BY DEF Excluded, Keyed
<1>1. Keyed(u)
  BY DEF Where, Keyed
<1>2. Where(t)' = Where(t) /\ Where(u)' = Where(u) /\ stage[t] \in Holding /\ stage[u] \in Holding
  BY <1>1 DEF Where
<1>3. Where(t) = Where(u)
  BY <1>2
<1> QED
  BY <1>2, <1>3 DEF RunInv, Excluded

\* A call begins: one without a key in a new directory.
LEMMA BeginKeeps ==
  ASSUME RunInv, NEW t \in Tasks, NEW p \in Procs, Begin(t, p)
  PROVE  RunInv'
<1>1. ExecTypeOK /\ Apart /\ Staged(t) /\ Settled(t) /\ stage[t] = "new"
  BY DEF RunInv, Begin
<1>2. host' = [host EXCEPT ![t] = p] /\ UNCHANGED <<place, bin, linked, serial, deaths, taken, soiled, met>>
  BY DEF Begin
<1>3. CASE Keyed(t) /\ stage' = [stage EXCEPT ![t] = "locking"] /\ UNCHANGED <<cwd, files>>
  <2>1. ExecTypeOK'
    BY <1>1, <1>2, <1>3, ExecutionAssumption DEF ExecTypeOK, Working
  <2>2. /\ stage'[t] = "locking"
        /\ \A u \in Tasks \ {t} : stage'[u] = stage[u] /\ host'[u] = host[u]
    BY <1>1, <1>2, <1>3 DEF ExecTypeOK
  <2>3. Apart'
    BY <1>1, <1>2 DEF Apart
  <2>4. \A u, v \in Tasks : Excluded(u, v)'
    BY <1>2, <2>2, ExcludedStays DEF Holding
  <2>5. ASSUME NEW u \in Tasks
        PROVE  Staged(u)'
    BY <1>1, <1>2, <1>3, <2>2 DEF RunInv, Staged, Keyed, Before
  <2>6. Settled(t)'
    BY <1>1, <1>2, <2>2 DEF Settled, Lone, Busy
  <2>7. ASSUME NEW u \in Tasks \ {t}
        PROVE  Settled(u)'
    BY <1>1, <1>2, <1>3, <2>2, OthersStay DEF Lone, Named
  <2> QED
    BY <2>1, <2>3, <2>4, <2>5, <2>6, <2>7 DEF RunInv
<1>4. CASE ~Keyed(t) /\ stage' = [stage EXCEPT ![t] = "staging"]
  <2>1. PICK d \in Dirs : /\ Free(d)
                          /\ cwd' = [cwd EXCEPT ![t] = d]
                          /\ files' = [files EXCEPT ![d] = {}]
    BY <1>4 DEF Begin
  <2>2. ExecTypeOK'
    BY <1>1, <1>2, <1>4, <2>1, ExecutionAssumption DEF ExecTypeOK, Working
  <2>3. /\ stage'[t] = "staging" /\ cwd'[t] = d /\ files'[d] = {} /\ d # Nil
        /\ \A u \in Tasks \ {t} : stage'[u] = stage[u] /\ host'[u] = host[u] /\ cwd'[u] = cwd[u]
        /\ \A e \in Dirs \ {d} : files'[e] = files[e]
    BY <1>1, <1>2, <1>4, <2>1, ExecutionAssumption DEF ExecTypeOK
  <2>4. Apart'
    BY <1>1, <1>2 DEF Apart
  <2>5. \A u, v \in Tasks : Excluded(u, v)'
    BY <1>2, <1>4, <2>3, ExcludedStays
  <2>6. ASSUME NEW u \in Tasks
        PROVE  Staged(u)'
    BY <1>1, <1>2, <1>4, <2>3 DEF RunInv, Staged, Keyed, Before
  <2>7. Settled(t)'
    <3>1. Root(t)' = d /\ ~Keyed(t)' /\ linked'[t] = {}
      BY <1>1, <1>2, <1>4, <2>3 DEF Root, Keyed, Staged, Before
    <3>2. ~Named(d)' /\ \A u \in Tasks \ {t} : stage'[u] # "ended" => cwd'[u] # d
      BY <1>2, <2>1, <2>3 DEF Free, Named
    <3>3. ~Named(Root(t))'
      BY <3>1, <3>2 DEF Named
    <3> QED
      BY <1>1, <1>2, <2>3, <3>1, <3>2, <3>3 DEF Settled, Lone
  <2>8. ASSUME NEW u \in Tasks \ {t}
        PROVE  Settled(u)'
    <3>1. \A e \in Dirs : files'[e] = files[e] \/ Free(e)
      BY <2>1, <2>3
    <3>2. Lone(u)' => Lone(u)
      BY <1>2 DEF Lone
    <3>3. \A e \in Dirs : (\E bk \in Paths : place'[bk] = e \/ \E x \in bin'[bk] : x.dir = e)
                             => Named(e) \/ Free(e)
      BY <1>2 DEF Named
    <3> QED
      BY <1>1, <1>2, <2>1, <2>3, <3>1, <3>2, <3>3, OthersStay
  <2> QED
    BY <2>2, <2>4, <2>5, <2>6, <2>7, <2>8 DEF RunInv
<1> QED
  BY <1>3, <1>4 DEF Begin, GoTo

\* A call that takes a lock others have for its path has met them.
LEMMA LockKeeps ==
  ASSUME RunInv, NEW t \in Tasks, Lock(t)
  PROVE  RunInv'
<1> DEFINE others == {u \in Tasks : stage[u] \in Holding /\ Where(u) = Where(t)}
<1>1. ExecTypeOK /\ Apart /\ Staged(t) /\ Settled(t) /\ stage[t] = "locking"
  BY DEF RunInv, Lock
<1>2. /\ stage' = [stage EXCEPT ![t] = "clearing"]
      /\ UNCHANGED <<host, place, bin, files, linked, cwd, serial, deaths, taken, soiled>>
      /\ met' = IF others = {} THEN met ELSE met \cup others \cup {t}
  BY DEF Lock, GoTo
<1>3. ExecTypeOK'
  BY <1>1, <1>2 DEF ExecTypeOK, Working
<1>4. /\ stage'[t] = "clearing"
      /\ \A u \in Tasks \ {t} : stage'[u] = stage[u]
      /\ \A u \in Tasks : Where(u)' = Where(u)
  BY <1>1, <1>2 DEF ExecTypeOK, Where
<1>5. met \subseteq met'
  BY <1>2
<1>6. Apart'
  BY <1>1, <1>2 DEF Apart
<1>7. ASSUME NEW u \in Tasks, NEW v \in Tasks
      PROVE  Excluded(u, v)'
  <2>1. CASE t \notin {u, v}
    BY <2>1, <1>2, <1>4, <1>5, ExcludedStays
  <2>2. CASE t \in {u, v}
    <3> SUFFICES ASSUME u # v, stage'[u] \in Holding, stage'[v] \in Holding, Where(u) = Where(v)
                 PROVE  u \in met'
      BY <1>4 DEF Excluded
    <3>1. \E w \in {u, v} : w # t /\ w \in others
      BY <2>2, <1>4
    <3> QED
      BY <3>1, <2>2, <1>2, <1>4
  <2> QED
    BY <2>1, <2>2
<1>8. ASSUME NEW u \in Tasks
      PROVE  Staged(u)'
  BY <1>1, <1>2, <1>4 DEF RunInv, Staged, Keyed, Before
<1>9. Settled(t)'
  BY <1>1, <1>2, <1>4, <1>5 DEF Settled, Lone, Busy
<1>10. ASSUME NEW u \in Tasks \ {t}
       PROVE  Settled(u)'
  BY <1>1, <1>2, <1>4, <1>5, OthersStay DEF Lone, Named
<1> QED
  BY <1>3, <1>6, <1>7, <1>8, <1>9, <1>10 DEF RunInv

\* What is renamed aside leaves the path free.
LEMMA ClearKeeps ==
  ASSUME RunInv, NEW t \in Tasks, Clear(t)
  PROVE  RunInv'
<1> DEFINE W  == Where(t)
           n  == serial[host[t]]
           e0 == [no |-> n, dir |-> place[W], by |-> host[t]]
<1>1. ExecTypeOK /\ Apart /\ Staged(t) /\ Settled(t) /\ stage[t] = "clearing"
  BY DEF RunInv, Clear
<1>2. Keyed(t) /\ W \in Paths /\ host[t] \in Procs
  BY <1>1, PathTyped DEF Staged, Working, ExecTypeOK
<1>3. /\ UNCHANGED <<host, files, linked, cwd, deaths, taken, soiled, met>>
      /\ serial' = [serial EXCEPT ![host[t]] = n + 1]
  BY DEF Clear
<1>4. PICK s \in {"making", "deleting"} : stage' = [stage EXCEPT ![t] = s]
  BY DEF Clear, GoTo
<1>5. \/ place' = place /\ bin' = bin /\ (s = "making" => place[W] = Nil)
      \/ /\ place[W] # Nil
         /\ place' = [place EXCEPT ![W] = Nil]
         /\ bin' = [bin EXCEPT ![W] = {e \in @ : e.no # n} \cup {e0}]
  <2>1. stage'[t] = s
    BY <1>1, <1>4 DEF ExecTypeOK
  <2> QED
    BY <1>1, <2>1 DEF Clear, GoTo, ExecTypeOK
<1>6. n \in Nat /\ serial' \in [Procs -> Nat]
  BY <1>1, <1>2, <1>3 DEF ExecTypeOK
<1>7. /\ \A bk \in Paths : place'[bk] = place[bk] \/ (bk = W /\ place'[bk] = Nil)
      /\ \A bk \in Paths : \A e \in bin'[bk] : e \in bin[bk] \/ (e = e0 /\ place[W] # Nil /\ place'[W] = Nil)
  <2>1. CASE place' = place /\ bin' = bin
    BY <2>1
  <2>2. CASE /\ place[W] # Nil
             /\ place' = [place EXCEPT ![W] = Nil]
             /\ bin' = [bin EXCEPT ![W] = {e \in @ : e.no # n} \cup {e0}]
    <3>1. \A bk \in Paths : bin'[bk] = IF bk = W THEN {e \in bin[W] : e.no # n} \cup {e0} ELSE bin[bk]
      BY <2>2, <1>1, <1>2 DEF ExecTypeOK
    <3> QED
      BY <2>2, <3>1, <1>1, <1>2 DEF ExecTypeOK
  <2> QED
    BY <1>5, <2>1, <2>2
<1>8. ExecTypeOK'
  <2>1. place' \in [Paths -> Dirs \cup {Nil}]
    BY <1>1, <1>5 DEF ExecTypeOK
  <2>2. bin' \in [Paths -> SUBSET [no : Nat, dir : Dirs, by : Procs \cup {Nil}]]
    BY <1>1, <1>2, <1>5, <1>6 DEF ExecTypeOK
  <2> QED
    BY <2>1, <2>2, <1>1, <1>2, <1>3, <1>4, <1>6 DEF ExecTypeOK, Working
<1>9. /\ stage'[t] = s /\ stage'[t] \in Holding /\ stage[t] \in Holding
      /\ \A u \in Tasks \ {t} : stage'[u] = stage[u]
  BY <1>1, <1>4 DEF ExecTypeOK, Holding
<1>10. Apart'
  BY <1>1, <1>2, <1>7, ExecutionAssumption DEF Apart, ExecTypeOK
<1>11. \A u, v \in Tasks : Excluded(u, v)'
  BY <1>3, <1>9, ExcludedStays
<1>12. ASSUME NEW u \in Tasks
       PROVE  Staged(u)'
  BY <1>1, <1>2, <1>3, <1>9 DEF RunInv, Staged, Keyed, Before
<1>13. Settled(t)'
  <2>1. s = "making" => place'[W] = Nil
    BY <1>1, <1>2, <1>5 DEF ExecTypeOK
  <2>2. s = "making" => Root(t)' = Nil
    BY <2>1, <1>2, <1>3 DEF Root, Keyed, Where
  <2> QED
    BY <2>2, <1>1, <1>3, <1>9 DEF Settled, Lone, Busy
<1>14. ASSUME NEW u \in Tasks \ {t}
       PROVE  Settled(u)'
  <2>1. \A d \in Dirs : (\E bk \in Paths : place'[bk] = d \/ \E e \in bin'[bk] : e.dir = d) => Named(d)
    BY <1>2, <1>7, ExecutionAssumption DEF Named
  <2>2. Lone(u)' => Lone(u)
    BY <1>3 DEF Lone
  <2>3. \A bk \in Paths : place'[bk] = place[bk] \/ bk = W
    BY <1>7
  <2> QED
    BY <2>1, <2>2, <2>3, <1>1, <1>2, <1>3, <1>9, OthersStay
<1> QED
  BY <1>8, <1>10, <1>11, <1>12, <1>13, <1>14 DEF RunInv

\* Removing what is on a path leaves the other paths alone.
LEMMA RemovePaths ==
  ASSUME ExecTypeOK, Apart, NEW W \in Paths, place[W] # Nil, RemoveDir(W), bin' = bin
  PROVE  /\ place' \in [Paths -> Dirs \cup {Nil}] /\ files' \in [Dirs -> SUBSET Files] /\ Apart'
         /\ \A bk \in Paths : place'[bk] = place[bk] \/ (bk = W /\ place'[bk] = Nil)
         /\ \A d \in Dirs : files'[d] = files[d] \/ d = place[W]
         /\ \A d \in Dirs : (\E bk \in Paths : place'[bk] = d \/ \E e \in bin'[bk] : e.dir = d) => Named(d)
<1>1. place[W] \in Dirs
  BY DEF ExecTypeOK
<1>2. PICK left \in SUBSET files[place[W]] :
        /\ files' = [files EXCEPT ![place[W]] = left]
        /\ place' = [place EXCEPT ![W] = Nil] \/ place' = place
  BY DEF RemoveDir
<1>3. place' \in [Paths -> Dirs \cup {Nil}] /\ files' \in [Dirs -> SUBSET Files]
  BY <1>1, <1>2 DEF ExecTypeOK
<1>4. \A bk \in Paths : place'[bk] = place[bk] \/ (bk = W /\ place'[bk] = Nil)
  BY <1>2 DEF ExecTypeOK
<1>5. \A d \in Dirs : files'[d] = files[d] \/ d = place[W]
  BY <1>2 DEF ExecTypeOK
<1>6. Apart'
  BY <1>4 DEF Apart
<1>7. \A d \in Dirs : (\E bk \in Paths : place'[bk] = d \/ \E e \in bin'[bk] : e.dir = d) => Named(d)
  BY <1>4, ExecutionAssumption DEF Named
<1> QED
  BY <1>3, <1>4, <1>5, <1>6, <1>7

\* A directory is made where there was none, and it is a new one.
LEMMA CreatePaths ==
  ASSUME ExecTypeOK, Apart, NEW W \in Paths, CreateDir(W), bin' = bin
  PROVE  /\ place' \in [Paths -> Dirs \cup {Nil}] /\ files' \in [Dirs -> SUBSET Files] /\ Apart'
         /\ \A bk \in Paths : place'[bk] = place[bk] \/ bk = W
         /\ place[W] = Nil => /\ place'[W] \in Dirs /\ Free(place'[W]) /\ files'[place'[W]] = {}
         /\ \A d \in Dirs : files'[d] = files[d] \/ Free(d)
         /\ \A d \in Dirs : (\E bk \in Paths : place'[bk] = d \/ \E e \in bin'[bk] : e.dir = d)
                              => Named(d) \/ Free(d)
<1>1. CASE place[W] # Nil
  <2>1. place' = place /\ files' = files
    BY <1>1 DEF CreateDir
  <2> QED
    BY <1>1, <2>1 DEF ExecTypeOK, Apart, Named
<1>2. CASE place[W] = Nil
  <2>1. PICK d \in Dirs : /\ Free(d)
                          /\ place' = [place EXCEPT ![W] = d]
                          /\ files' = [files EXCEPT ![d] = {}]
    BY <1>2 DEF CreateDir
  <2>2. \A bk \in Paths : place'[bk] = IF bk = W THEN d ELSE place[bk]
    BY <2>1 DEF ExecTypeOK
  <2>3. \A e \in Dirs : files'[e] = IF e = d THEN {} ELSE files[e]
    BY <2>1 DEF ExecTypeOK
  <2>4. place' \in [Paths -> Dirs \cup {Nil}] /\ files' \in [Dirs -> SUBSET Files]
    BY <2>1 DEF ExecTypeOK
  <2>5. Apart'
    BY <2>1, <2>2 DEF Apart, Free, Named
  <2>6. \A e \in Dirs : (\E bk \in Paths : place'[bk] = e \/ \E x \in bin'[bk] : x.dir = e)
                          => Named(e) \/ Free(e)
    BY <2>1, <2>2 DEF Named
  <2> QED
    BY <2>1, <2>2, <2>3, <2>4, <2>5, <2>6
<1> QED
  BY <1>1, <1>2

\* A call that goes on in what it could not delete is soiled.
LEMMA DeleteKeeps ==
  ASSUME RunInv, NEW t \in Tasks, DeleteInline(t)
  PROVE  RunInv'
<1> DEFINE W == Where(t)
<1>1. ExecTypeOK /\ Apart /\ Staged(t) /\ Settled(t) /\ stage[t] = "deleting"
  BY DEF RunInv, DeleteInline
<1>2. Keyed(t) /\ W \in Paths /\ Root(t) = place[W]
  BY <1>1, PathTyped DEF Staged, Working, Root
<1>3. /\ stage' = [stage EXCEPT ![t] = "making"]
      /\ UNCHANGED <<host, bin, linked, cwd, serial, deaths, taken, met>>
      /\ soiled' = IF place'[W] = Nil THEN soiled ELSE soiled \cup {t}
  BY DEF DeleteInline, GoTo
<1>4. /\ place' \in [Paths -> Dirs \cup {Nil}] /\ files' \in [Dirs -> SUBSET Files] /\ Apart'
      /\ \A bk \in Paths : place'[bk] = place[bk] \/ bk = W
      /\ \A d \in Dirs : files'[d] = files[d] \/ d = Root(t)
      /\ \A d \in Dirs : (\E bk \in Paths : place'[bk] = d \/ \E e \in bin'[bk] : e.dir = d) => Named(d)
  <2>1. CASE Root(t) = Nil
    <3>1. place' = place /\ files' = files
      BY <2>1 DEF DeleteInline
    <3> QED
      BY <3>1, <1>1, <1>3 DEF ExecTypeOK, Apart, Named
  <2>2. CASE Root(t) # Nil
    <3>1. RemoveDir(W)
      BY <2>2 DEF DeleteInline
    <3> QED
      BY <2>2, <3>1, <1>1, <1>2, <1>3, RemovePaths
  <2> QED
    BY <2>1, <2>2
<1>5. /\ stage'[t] = "making" /\ stage'[t] \in Holding /\ stage[t] \in Holding
      /\ \A u \in Tasks \ {t} : stage'[u] = stage[u]
  BY <1>1, <1>3 DEF ExecTypeOK, Holding
<1>6. ExecTypeOK'
  BY <1>1, <1>2, <1>3, <1>4 DEF ExecTypeOK, Working
<1>7. \A u, v \in Tasks : Excluded(u, v)'
  BY <1>3, <1>5, ExcludedStays
<1>8. ASSUME NEW u \in Tasks
      PROVE  Staged(u)'
  BY <1>1, <1>2, <1>3, <1>5 DEF RunInv, Staged, Keyed, Before
<1>9. Settled(t)'
  <2>1. Lone(t)' => place'[W] = Nil /\ Lone(t)
    BY <1>3 DEF Lone
  <2>2. Root(t)' = place'[W]
    BY <1>2, <1>3 DEF Root, Keyed, Where
  <2> QED
    BY <2>1, <2>2, <1>1, <1>3, <1>5 DEF Settled, Busy
<1>10. ASSUME NEW u \in Tasks \ {t}
       PROVE  Settled(u)'
  <2>1. Lone(u)' => Lone(u)
    BY <1>3 DEF Lone
  <2> QED
    BY <2>1, <1>1, <1>2, <1>3, <1>4, <1>5, OthersStay
<1> QED
  BY <1>4, <1>6, <1>7, <1>8, <1>9, <1>10 DEF RunInv

\* A lone call makes the directory, and it is new.
LEMMA MakeKeeps ==
  ASSUME RunInv, NEW t \in Tasks, MakeDir(t)
  PROVE  RunInv'
<1> DEFINE W == Where(t)
<1>1. ExecTypeOK /\ Apart /\ Staged(t) /\ Settled(t) /\ stage[t] = "making"
  BY DEF RunInv, MakeDir
<1>2. Keyed(t) /\ W \in Paths /\ Root(t) = place[W]
  BY <1>1, PathTyped DEF Staged, Working, Root
<1>3. /\ stage' = [stage EXCEPT ![t] = "staging"]
      /\ UNCHANGED <<host, bin, linked, cwd, serial, deaths, taken, soiled, met>>
  BY DEF MakeDir, GoTo
<1>4. /\ place' \in [Paths -> Dirs \cup {Nil}] /\ files' \in [Dirs -> SUBSET Files] /\ Apart'
      /\ \A bk \in Paths : place'[bk] = place[bk] \/ bk = W
      /\ place[W] = Nil => /\ place'[W] \in Dirs /\ Free(place'[W]) /\ files'[place'[W]] = {}
      /\ \A d \in Dirs : files'[d] = files[d] \/ Free(d)
      /\ \A d \in Dirs : (\E bk \in Paths : place'[bk] = d \/ \E e \in bin'[bk] : e.dir = d)
                           => Named(d) \/ Free(d)
  BY <1>1, <1>2, <1>3, CreatePaths DEF MakeDir
<1>5. /\ stage'[t] = "staging" /\ stage'[t] \in Holding /\ stage[t] \in Holding
      /\ \A u \in Tasks \ {t} : stage'[u] = stage[u]
  BY <1>1, <1>3 DEF ExecTypeOK, Holding
<1>6. ExecTypeOK'
  BY <1>1, <1>2, <1>3, <1>4 DEF ExecTypeOK, Working
<1>7. \A u, v \in Tasks : Excluded(u, v)'
  BY <1>3, <1>5, ExcludedStays
<1>8. ASSUME NEW u \in Tasks
      PROVE  Staged(u)'
  BY <1>1, <1>2, <1>3, <1>5 DEF RunInv, Staged, Keyed, Before
<1>9. Settled(t)'
  <2>1. Root(t)' = place'[W] /\ Keyed(t)'
    BY <1>2, <1>3 DEF Root, Keyed, Where
  <2>2. linked'[t] = {} /\ (Lone(t)' <=> Lone(t)) /\ taken' = taken
    BY <1>1, <1>3 DEF Staged, Before, Lone
  <2>3. Lone(t) => place[W] = Nil /\ \A f \in taken[t] : f.by = t
    BY <1>1, <1>2 DEF Settled
  <2>4. place[W] = Nil => \A u \in Tasks \ {t} : stage'[u] # "ended" => cwd'[u] # place'[W]
    BY <1>3, <1>4, <1>5 DEF Free
  <2>5. Lone(t) => Root(t)' # Nil /\ files'[Root(t)'] = {}
    BY <2>1, <2>3, <1>4, ExecutionAssumption
  <2> QED
    BY <2>1, <2>2, <2>3, <2>4, <2>5, <1>5 DEF Settled
<1>10. ASSUME NEW u \in Tasks \ {t}
       PROVE  Settled(u)'
  <2>1. Lone(u)' => Lone(u)
    BY <1>3 DEF Lone
  <2> QED
    BY <2>1, <1>1, <1>2, <1>3, <1>4, <1>5, OthersStay
<1> QED
  BY <1>4, <1>6, <1>7, <1>8, <1>9, <1>10 DEF RunInv

\* A call whose directory was taken away is not a lone one.
LEMMA MakeAgainKeeps ==
  ASSUME RunInv, NEW t \in Tasks, MakeAgain(t)
  PROVE  RunInv'
<1> DEFINE W == Where(t)
<1>1. ExecTypeOK /\ Apart /\ Staged(t) /\ Settled(t) /\ stage[t] = "staging" /\ Root(t) = Nil
  BY DEF RunInv, MakeAgain
<1>2. Keyed(t) /\ W \in Paths
  BY <1>1, PathTyped DEF Staged, Working, Root
<1>3. UNCHANGED <<stage, host, bin, linked, cwd, serial, deaths, taken, soiled, met>>
  BY DEF MakeAgain
<1>4. /\ place' \in [Paths -> Dirs \cup {Nil}] /\ files' \in [Dirs -> SUBSET Files] /\ Apart'
      /\ \A bk \in Paths : place'[bk] = place[bk] \/ bk = W
      /\ \A d \in Dirs : files'[d] = files[d] \/ Free(d)
      /\ \A d \in Dirs : (\E bk \in Paths : place'[bk] = d \/ \E e \in bin'[bk] : e.dir = d)
                           => Named(d) \/ Free(d)
  BY <1>1, <1>2, <1>3, CreatePaths DEF MakeAgain
<1>5. ExecTypeOK'
  BY <1>1, <1>3, <1>4 DEF ExecTypeOK
<1>6. \A u, v \in Tasks : Excluded(u, v)'
  BY <1>3, ExcludedStays
<1>7. ASSUME NEW u \in Tasks
      PROVE  Staged(u)'
  BY <1>3 DEF RunInv, Staged, Keyed
<1>8. Settled(t)'
  BY <1>1, <1>3 DEF Settled, Lone, Busy
<1>9. ASSUME NEW u \in Tasks \ {t}
      PROVE  Settled(u)'
  <2>1. Lone(u)' => Lone(u)
    BY <1>3 DEF Lone
  <2>2. stage[t] \in Holding
    BY <1>1 DEF Holding
  <2> QED
    BY <2>1, <2>2, <1>1, <1>2, <1>3, <1>4, OthersStay
<1> QED
  BY <1>4, <1>5, <1>6, <1>7, <1>8, <1>9 DEF RunInv

\* A lone call stages where no other works.
LEMMA StageKeeps ==
  ASSUME RunInv, NEW t \in Tasks, Stage(t)
  PROVE  RunInv'
<1> DEFINE R == Root(t)
<1>1. ExecTypeOK /\ Apart /\ Settled(t) /\ stage[t] = "staging" /\ stage[t] \in Holding
  BY DEF RunInv, Stage, Holding
<1>2. UNCHANGED <<stage, host, place, bin, cwd, serial, deaths, taken, soiled, met>>
  BY DEF Stage
<1>3. R \in Dirs
  BY <1>1, RootTyped DEF Stage, Working
<1>4. PICK n \in Inputs[t] \ linked[t] :
        /\ files' = [files EXCEPT ![R] = {f \in @ : f.name # n} \cup {Put(n, t)}]
        /\ linked' = [linked EXCEPT ![t] = @ \cup {n}]
  BY DEF Stage
<1>5. /\ files'[R] = {f \in files[R] : f.name # n} \cup {Put(n, t)}
      /\ \A d \in Dirs : files'[d] = files[d] \/ d = R
      /\ linked'[t] = linked[t] \cup {n}
      /\ \A u \in Tasks \ {t} : linked'[u] = linked[u]
  BY <1>1, <1>3, <1>4 DEF ExecTypeOK
<1>6. ExecTypeOK'
  <2>1. Put(n, t) \in Files
    BY DEF Put, Files
  <2>2. files' \in [Dirs -> SUBSET Files]
    BY <2>1, <1>1, <1>4 DEF ExecTypeOK
  <2>3. linked' \in [Tasks -> SUBSET UNION {Inputs[u] : u \in Tasks}]
    BY <1>1, <1>4 DEF ExecTypeOK
  <2> QED
    BY <2>2, <2>3, <1>1, <1>2 DEF ExecTypeOK
<1>7. Apart'
  BY <1>1, <1>2 DEF Apart
<1>8. \A u, v \in Tasks : Excluded(u, v)'
  BY <1>2, ExcludedStays
<1>9. ASSUME NEW u \in Tasks
      PROVE  Staged(u)'
  BY <1>1, <1>2, <1>5 DEF RunInv, Staged, Keyed, Before
<1>10. Settled(t)'
  <2>1. Root(t)' = R /\ (Lone(t)' <=> Lone(t)) /\ (Named(R)' <=> Named(R)) /\ Keyed(t)' = Keyed(t)
    BY <1>2 DEF Root, Keyed, Where, Lone, Named
  <2>2. \A m \in linked[t] : Put(m, t).name = m
    BY DEF Put
  <2>3. Put(n, t).by = t
    BY DEF Put
  <2>4. Lone(t) => /\ \A f \in files'[R] : f.by = t
                   /\ \A m \in linked'[t] : Put(m, t) \in files'[R]
    BY <2>2, <2>3, <1>1, <1>5 DEF Settled, Busy
  <2>5. (~Keyed(t) => ~Named(R)) => (~Keyed(t)' => ~Named(Root(t))')
    BY <2>1 DEF Named
  <2> QED
    BY <2>1, <2>4, <2>5, <1>1, <1>2 DEF Settled, Busy, Put
<1>11. ASSUME NEW u \in Tasks \ {t}
       PROVE  Settled(u)'
  BY <1>1, <1>2, <1>3, <1>5, OthersStay DEF Lone, Named
<1> QED
  BY <1>6, <1>7, <1>8, <1>9, <1>10, <1>11 DEF RunInv

\* A command starts when all its inputs are there.
LEMMA RunKeeps ==
  ASSUME RunInv, NEW t \in Tasks, Run(t)
  PROVE  RunInv'
<1>1. ExecTypeOK /\ Apart /\ Settled(t) /\ stage[t] = "staging" /\ linked[t] = Inputs[t]
  BY DEF RunInv, Run
<1>2. /\ stage' = [stage EXCEPT ![t] = "running"]
      /\ cwd' = [cwd EXCEPT ![t] = Root(t)]
      /\ UNCHANGED <<host, place, bin, files, linked, serial, deaths, taken, soiled, met>>
  BY DEF Run, GoTo
<1>3. Root(t) \in Dirs /\ Root(t) # Nil
  BY <1>1, RootTyped DEF Run, Working
<1>4. /\ stage'[t] = "running" /\ cwd'[t] = Root(t)
      /\ \A u \in Tasks \ {t} : stage'[u] = stage[u] /\ cwd'[u] = cwd[u]
  BY <1>1, <1>2 DEF ExecTypeOK
<1>5. ExecTypeOK'
  BY <1>1, <1>2, <1>3, <1>4 DEF ExecTypeOK, Working
<1>6. Apart'
  BY <1>1, <1>2 DEF Apart
<1>7. \A u, v \in Tasks : Excluded(u, v)'
  BY <1>1, <1>2, <1>4, ExcludedStays DEF Holding
<1>8. ASSUME NEW u \in Tasks
      PROVE  Staged(u)'
  BY <1>1, <1>2, <1>4 DEF RunInv, Staged, Keyed, Before
<1>9. Settled(t)'
  <2>1. Root(t)' = Root(t) /\ (Lone(t)' <=> Lone(t)) /\ Keyed(t)' = Keyed(t)
    BY <1>2, <1>4 DEF Root, Keyed, Where, Lone
  <2>2. ~Named(Root(t)) => ~Named(Root(t))'
    BY <2>1, <1>2 DEF Named
  <2> QED
    BY <2>1, <2>2, <1>1, <1>2, <1>3, <1>4 DEF Settled, Busy, Put
<1>10. ASSUME NEW u \in Tasks \ {t}
       PROVE  Settled(u)'
  BY <1>1, <1>2, <1>4, OthersStay DEF Lone, Named
<1> QED
  BY <1>5, <1>6, <1>7, <1>8, <1>9, <1>10 DEF RunInv

\* A command writes where it works, and none of its inputs.
LEMMA ProduceKeeps ==
  ASSUME RunInv, NEW t \in Tasks, Produce(t)
  PROVE  RunInv'
<1> DEFINE c == cwd[t]
<1>1. ExecTypeOK /\ Apart /\ Settled(t) /\ stage[t] \in {"running", "orphan"}
  BY DEF RunInv, Produce
<1>2. UNCHANGED <<stage, host, place, bin, linked, cwd, serial, deaths, taken, soiled, met>>
  BY DEF Produce
<1>3. c \in Dirs
  BY <1>1 DEF ExecTypeOK
<1>4. PICK n \in Outs[t] : files' = [files EXCEPT ![c] = {f \in @ : f.name # n} \cup {Put(n, t)}]
  BY DEF Produce
<1>5. /\ files'[c] = {f \in files[c] : f.name # n} \cup {Put(n, t)}
      /\ \A d \in Dirs : files'[d] = files[d] \/ d = c
  BY <1>1, <1>3, <1>4 DEF ExecTypeOK
<1>6. ExecTypeOK'
  <2>1. Put(n, t) \in Files
    BY DEF Put, Files
  <2>2. files' \in [Dirs -> SUBSET Files]
    BY <2>1, <1>1, <1>4 DEF ExecTypeOK
  <2> QED
    BY <2>2, <1>1, <1>2 DEF ExecTypeOK
<1>7. Apart'
  BY <1>1, <1>2 DEF Apart
<1>8. \A u, v \in Tasks : Excluded(u, v)'
  BY <1>2, ExcludedStays
<1>9. ASSUME NEW u \in Tasks
      PROVE  Staged(u)'
  BY <1>2 DEF RunInv, Staged, Keyed
<1>10. Settled(t)'
  <2>1. Root(t)' = Root(t) /\ (Lone(t)' <=> Lone(t)) /\ Keyed(t)' = Keyed(t)
    BY <1>2 DEF Root, Keyed, Where, Lone
  <2>2. ~Named(Root(t)) => ~Named(Root(t))'
    BY <2>1, <1>2 DEF Named
  <2>3. \A m \in Inputs[t] : Put(m, t).name = m /\ m # n
    BY ExecutionAssumption DEF Put
  <2>4. Put(n, t).by = t
    BY DEF Put
  <2>5. Lone(t) /\ stage[t] \in Busy =>
          /\ \A f \in files'[c] : f.by = t
          /\ \A m \in linked[t] : Put(m, t) \in files'[c]
    BY <2>3, <2>4, <1>1, <1>5 DEF Settled, Busy
  <2>6. Lone(t) /\ stage[t] \in Busy => Root(t) = c
    BY <1>1 DEF Settled, Busy
  <2> QED
    BY <2>1, <2>2, <2>5, <2>6, <1>1, <1>2 DEF Settled, Busy, Put
<1>11. ASSUME NEW u \in Tasks \ {t}
       PROVE  Settled(u)'
  BY <1>1, <1>2, <1>3, <1>5, OthersStay DEF Lone, Named
<1> QED
  BY <1>6, <1>7, <1>8, <1>9, <1>10, <1>11 DEF RunInv

\* A command ends.
LEMMA ExitKeeps ==
  ASSUME RunInv, NEW t \in Tasks, Exit(t)
  PROVE  RunInv'
<1>1. ExecTypeOK /\ Apart /\ Settled(t) /\ stage[t] \in {"running", "orphan"}
  BY DEF RunInv, Exit
<1>2. /\ stage' = [stage EXCEPT ![t] = IF stage[t] = "running" THEN "collecting" ELSE "ended"]
      /\ UNCHANGED <<host, place, bin, files, linked, cwd, serial, deaths, taken, soiled, met>>
  BY DEF Exit, GoTo
<1>3. /\ stage'[t] = IF stage[t] = "running" THEN "collecting" ELSE "ended"
      /\ \A u \in Tasks \ {t} : stage'[u] = stage[u]
  BY <1>1, <1>2 DEF ExecTypeOK
<1>4. ExecTypeOK'
  BY <1>1, <1>2, <1>3 DEF ExecTypeOK, Working
<1>5. Apart'
  BY <1>1, <1>2 DEF Apart
<1>6. \A u, v \in Tasks : Excluded(u, v)'
  BY <1>1, <1>2, <1>3, ExcludedStays DEF Holding
<1>7. ASSUME NEW u \in Tasks
      PROVE  Staged(u)'
  BY <1>1, <1>2, <1>3 DEF RunInv, Staged, Keyed, Before
<1>8. Settled(t)'
  <2>1. Root(t)' = Root(t) /\ (Lone(t)' <=> Lone(t)) /\ Keyed(t)' = Keyed(t)
    BY <1>2 DEF Root, Keyed, Where, Lone
  <2>2. ~Named(Root(t)) => ~Named(Root(t))'
    BY <2>1, <1>2 DEF Named
  <2> QED
    BY <2>1, <2>2, <1>1, <1>2, <1>3 DEF Settled, Busy, Put
<1>9. ASSUME NEW u \in Tasks \ {t}
      PROVE  Settled(u)'
  BY <1>1, <1>2, <1>3, OthersStay DEF Lone, Named
<1> QED
  BY <1>4, <1>5, <1>6, <1>7, <1>8, <1>9 DEF RunInv

\* What a lone call collects is where its command worked.
LEMMA CollectKeeps ==
  ASSUME RunInv, NEW t \in Tasks, Collect(t)
  PROVE  RunInv'
<1>1. ExecTypeOK /\ Apart /\ Settled(t) /\ stage[t] = "collecting"
  BY DEF RunInv, Collect
<1>2. /\ stage' = [stage EXCEPT ![t] = "leaving"]
      /\ taken' = [taken EXCEPT ![t] =
           IF Root(t) = Nil THEN {} ELSE {f \in files[Root(t)] : f.name \in Outs[t]}]
      /\ UNCHANGED <<host, place, bin, files, linked, cwd, serial, deaths, soiled, met>>
  BY DEF Collect, GoTo
<1>3. Root(t) \in Dirs \cup {Nil}
  BY <1>1, RootTyped DEF Working
<1>4. /\ stage'[t] = "leaving"
      /\ taken'[t] = IF Root(t) = Nil THEN {} ELSE {f \in files[Root(t)] : f.name \in Outs[t]}
      /\ \A u \in Tasks \ {t} : stage'[u] = stage[u] /\ taken'[u] = taken[u]
  BY <1>1, <1>2 DEF ExecTypeOK
<1>5. ExecTypeOK'
  <2>1. taken' \in [Tasks -> SUBSET Files]
    BY <1>1, <1>2, <1>3 DEF ExecTypeOK
  <2> QED
    BY <2>1, <1>1, <1>2, <1>4 DEF ExecTypeOK, Working
<1>6. Apart'
  BY <1>1, <1>2 DEF Apart
<1>7. \A u, v \in Tasks : Excluded(u, v)'
  BY <1>1, <1>2, <1>4, ExcludedStays DEF Holding
<1>8. ASSUME NEW u \in Tasks
      PROVE  Staged(u)'
  BY <1>1, <1>2, <1>4 DEF RunInv, Staged, Keyed, Before
<1>9. Settled(t)'
  <2>1. Lone(t)' <=> Lone(t)
    BY <1>2 DEF Lone
  <2>2. Lone(t) => \A f \in taken'[t] : f.by = t
    BY <1>1, <1>4 DEF Settled, Busy
  <2> QED
    BY <2>1, <2>2, <1>4 DEF Settled, Busy
<1>10. ASSUME NEW u \in Tasks \ {t}
       PROVE  Settled(u)'
  BY <1>1, <1>2, <1>4, OthersStay DEF Lone, Named
<1> QED
  BY <1>5, <1>6, <1>7, <1>8, <1>9, <1>10 DEF RunInv

\* What a call ends with: what it changed is on its path or where it worked.
LEMMA EndKeeps ==
  ASSUME RunInv, NEW t \in Tasks, stage[t] \in Holding,
         stage' = [stage EXCEPT ![t] = "ended"],
         UNCHANGED <<host, bin, linked, cwd, serial, deaths, taken, soiled, met>>,
         place' \in [Paths -> Dirs \cup {Nil}], files' \in [Dirs -> SUBSET Files], Apart',
         \A bk \in Paths : place'[bk] = place[bk] \/ (Keyed(t) /\ bk = Where(t)),
         \A d \in Dirs : (\E bk \in Paths : place'[bk] = d \/ \E e \in bin'[bk] : e.dir = d) => Named(d),
         \A d \in Dirs : files'[d] = files[d] \/ d \in {Root(t), cwd[t]}
  PROVE  RunInv'
<1>1. ExecTypeOK /\ Settled(t)
  BY DEF RunInv
<1>2. /\ stage'[t] = "ended" /\ stage[t] # "ended"
      /\ \A u \in Tasks \ {t} : stage'[u] = stage[u]
  BY <1>1 DEF ExecTypeOK, Holding
<1>3. ExecTypeOK'
  BY <1>1 DEF ExecTypeOK, Working
<1>4. \A u, v \in Tasks : Excluded(u, v)'
  BY <1>2, ExcludedStays DEF Holding
<1>5. ASSUME NEW u \in Tasks
      PROVE  Staged(u)'
  BY <1>2 DEF RunInv, Staged, Keyed, Before
<1>6. Settled(t)'
  BY <1>1, <1>2 DEF Settled, Lone, Busy
<1>7. ASSUME NEW u \in Tasks \ {t}
      PROVE  Settled(u)'
  BY <1>2, OthersStay DEF Lone
<1> QED
  BY <1>3, <1>4, <1>5, <1>6, <1>7 DEF RunInv

\* Nothing happens to the paths.
LEMMA PathsStay ==
  ASSUME ExecTypeOK, Apart, UNCHANGED <<place, bin>>
  PROVE  /\ place' \in [Paths -> Dirs \cup {Nil}] /\ Apart'
         /\ \A d \in Dirs : (\E bk \in Paths : place'[bk] = d \/ \E e \in bin'[bk] : e.dir = d) => Named(d)
BY DEF ExecTypeOK, Apart, Named

LEMMA LeaveKeeps ==
  ASSUME RunInv, NEW t \in Tasks, Leave(t)
  PROVE  RunInv'
<1>1. ExecTypeOK /\ Apart /\ stage[t] = "leaving" /\ stage[t] \in Holding /\ stage[t] \in Working
  BY DEF RunInv, Leave, Holding, Working
<1>2. /\ stage' = [stage EXCEPT ![t] = "ended"]
      /\ UNCHANGED <<host, bin, linked, cwd, serial, deaths, taken, soiled, met>>
  BY DEF Leave, GoTo
<1>3. CASE UNCHANGED <<files, place>>
  <2>1. files' \in [Dirs -> SUBSET Files]
    BY <1>1, <1>3 DEF ExecTypeOK
  <2> QED
    BY <1>1, <1>2, <1>3, <2>1, PathsStay, EndKeeps
<1>4. CASE Keyed(t) /\ Root(t) # Nil /\ RemoveDir(Where(t))
  <2>1. Where(t) \in Paths /\ Root(t) = place[Where(t)]
    BY <1>1, <1>4, PathTyped DEF Root
  <2>2. /\ place' \in [Paths -> Dirs \cup {Nil}] /\ files' \in [Dirs -> SUBSET Files] /\ Apart'
        /\ \A bk \in Paths : place'[bk] = place[bk] \/ (bk = Where(t) /\ place'[bk] = Nil)
        /\ \A d \in Dirs : files'[d] = files[d] \/ d = place[Where(t)]
        /\ \A d \in Dirs : (\E bk \in Paths : place'[bk] = d \/ \E e \in bin'[bk] : e.dir = d) => Named(d)
    BY <1>1, <1>2, <1>4, <2>1, RemovePaths
  <2> QED
    BY <1>1, <1>2, <1>4, <2>1, <2>2, EndKeeps
<1>5. CASE ~Keyed(t) /\ files' = [files EXCEPT ![cwd[t]] = {}] /\ UNCHANGED place
  <2>1. files' \in [Dirs -> SUBSET Files] /\ \A d \in Dirs : files'[d] = files[d] \/ d = cwd[t]
    BY <1>1, <1>5 DEF ExecTypeOK
  <2> QED
    BY <1>1, <1>2, <1>5, <2>1, PathsStay, EndKeeps
<1> QED
  BY <1>3, <1>4, <1>5 DEF Leave

\* A failed call leaves the path to the next.
LEMMA FailKeeps ==
  ASSUME RunInv, NEW t \in Tasks, Fail(t)
  PROVE  RunInv'
<1>1. ExecTypeOK /\ Apart /\ stage[t] \in Holding /\ UNCHANGED <<place, bin>>
  BY DEF RunInv, Fail, Holding
<1>2. /\ stage' = [stage EXCEPT ![t] = "ended"]
      /\ UNCHANGED <<host, place, bin, linked, cwd, serial, deaths, taken, soiled, met>>
  BY DEF Fail, GoTo
<1>3. files' \in [Dirs -> SUBSET Files] /\ \A d \in Dirs : files'[d] = files[d] \/ d = cwd[t]
  <2>1. files' = files \/ files' = [files EXCEPT ![cwd[t]] = {}]
    BY DEF Fail
  <2> QED
    BY <1>1, <2>1 DEF ExecTypeOK
<1> QED
  BY <1>1, <1>2, <1>3, PathsStay, EndKeeps

\* What is swept is on no path.
LEMMA SweepKeeps ==
  ASSUME RunInv, NEW W \in Paths, Sweep(W)
  PROVE  RunInv'
<1>1. ExecTypeOK /\ Apart
  BY DEF RunInv
<1>2. PICK e \in bin[W] :
        \E left \in SUBSET files[e.dir] :
            /\ files' = [files EXCEPT ![e.dir] = left]
            /\ \/ bin' = [bin EXCEPT ![W] = @ \ {e}]
               \/ bin' = [bin EXCEPT ![W] = (@ \ {e}) \cup {[e EXCEPT !.by = Nil]}]
  BY DEF Sweep
<1>3. UNCHANGED <<stage, host, place, linked, cwd, serial, deaths, taken, soiled, met>>
  BY DEF Sweep
<1>4. e \in [no : Nat, dir : Dirs, by : Procs \cup {Nil}]
  BY <1>1, <1>2 DEF ExecTypeOK
<1>5. [e EXCEPT !.by = Nil] \in [no : Nat, dir : Dirs, by : Procs \cup {Nil}]
      /\ [e EXCEPT !.by = Nil].dir = e.dir
  BY <1>4
<1>6. /\ bin' \in [Paths -> SUBSET [no : Nat, dir : Dirs, by : Procs \cup {Nil}]]
      /\ files' \in [Dirs -> SUBSET Files]
      /\ \A d \in Dirs : files'[d] = files[d] \/ d = e.dir
      /\ \A bk \in Paths : \A x \in bin'[bk] : \E y \in bin[bk] : x.dir = y.dir
  BY <1>1, <1>2, <1>4, <1>5 DEF ExecTypeOK
<1>7. ExecTypeOK'
  BY <1>1, <1>3, <1>6 DEF ExecTypeOK
<1>8. Apart'
  BY <1>1, <1>3, <1>6 DEF Apart
<1>9. \A u, v \in Tasks : Excluded(u, v)'
  BY <1>3, ExcludedStays
<1>10. ASSUME NEW u \in Tasks
       PROVE  Staged(u)'
  BY <1>3 DEF RunInv, Staged, Keyed
<1>11. ASSUME NEW u \in Tasks
       PROVE  Settled(u)'
  <2>1. Root(u)' = Root(u) /\ (Lone(u)' <=> Lone(u))
    BY <1>3 DEF Root, Keyed, Where, Lone
  <2>2. ASSUME Lone(u), stage[u] \in Busy
        PROVE  /\ files'[Root(u)] = files[Root(u)]
               /\ ~Keyed(u) => ~(\E bk \in Paths : place'[bk] = Root(u) \/ \E x \in bin'[bk] : x.dir = Root(u))
               /\ \A v \in Tasks \ {u} : stage'[v] # "ended" => cwd'[v] # Root(u)
    <3>1. Settled(u) /\ Root(u) \in Dirs /\ stage[u] \in Working
      BY <2>2, NotFree DEF RunInv, Busy, Working
    <3>2. Root(u) # e.dir
      <4>1. CASE Keyed(u)
        <5>1. Where(u) \in Paths /\ Root(u) = place[Where(u)] /\ Root(u) # Nil
          BY <3>1, <4>1, <1>1, <2>2, PathTyped DEF Root, Settled
        <5> QED
          BY <5>1, <1>1, <1>2 DEF Apart
      <4>2. CASE ~Keyed(u)
        BY <3>1, <4>2, <2>2, <1>2 DEF Settled, Named
      <4> QED
        BY <4>1, <4>2
    <3>3. ~Keyed(u) => ~(\E bk \in Paths : place'[bk] = Root(u) \/ \E x \in bin'[bk] : x.dir = Root(u))
      BY <3>1, <2>2, <1>3, <1>6 DEF Settled, Named
    <3>4. \A v \in Tasks \ {u} : stage'[v] # "ended" => cwd'[v] # Root(u)
      BY <3>1, <2>2, <1>3 DEF Settled
    <3> QED
      BY <3>1, <3>2, <3>3, <3>4, <1>6
  <2> QED
    BY <2>1, <2>2, <1>3, Undisturbed
<1> QED
  BY <1>7, <1>8, <1>9, <1>10, <1>11 DEF RunInv

\* A process that dies leaves directories and commands as they are.
LEMMA DieKeeps ==
  ASSUME RunInv, NEW p \in Procs, Die(p)
  PROVE  RunInv'
<1> DEFINE Notes   == [no : Nat, dir : Dirs, by : Procs \cup {Nil}]
           Left(e) == IF e.by = p THEN [e EXCEPT !.by = Nil] ELSE e
<1>1. ExecTypeOK /\ Apart
  BY DEF RunInv
<1>2. /\ UNCHANGED <<host, place, files, linked, cwd, taken, soiled, met>>
      /\ bin' = [bk \in Paths |-> {Left(e) : e \in bin[bk]}]
  BY DEF Die
<1>3. /\ stage' \in [Tasks -> Working \cup {"new", "orphan", "ended"}]
      /\ \A u \in Tasks : \/ stage'[u] = stage[u]
                          \/ stage[u] \in Working /\ stage'[u] = "ended"
                          \/ stage[u] = "running" /\ stage'[u] = "orphan"
  <2>1. PICK survivors \in SUBSET {u \in Tasks : host[u] = p /\ stage[u] = "running"} :
          stage' = [u \in Tasks |-> IF host[u] = p /\ stage[u] \in Working
                                    THEN IF u \in survivors THEN "orphan" ELSE "ended"
                                    ELSE stage[u]]
    BY DEF Die
  <2> QED
    BY <1>1, <2>1 DEF ExecTypeOK
<1>4. deaths' \in 0 .. MaxDeaths /\ serial' \in [Procs -> Nat]
  BY <1>1, ExecutionAssumption DEF Die, ExecTypeOK
<1>5. ASSUME NEW bk \in Paths, NEW e \in bin[bk]
      PROVE  Left(e) \in Notes /\ Left(e).dir = e.dir
  <2>1. e \in Notes
    BY <1>1, <1>5 DEF ExecTypeOK
  <2> QED
    BY <2>1
<1> HIDE DEF Notes, Left
<1>6. /\ bin' \in [Paths -> SUBSET Notes]
      /\ \A bk \in Paths : \A x \in bin'[bk] : \E y \in bin[bk] : x.dir = y.dir
  BY <1>2, <1>5
<1>7. ExecTypeOK'
  <2>1. bin' \in [Paths -> SUBSET [no : Nat, dir : Dirs, by : Procs \cup {Nil}]]
    BY <1>6 DEF Notes
  <2>2. \A u \in Tasks : /\ stage'[u] \in Working => host'[u] # Nil
                         /\ stage'[u] \in {"running", "orphan"} => cwd'[u] # Nil
    BY <1>1, <1>2, <1>3 DEF ExecTypeOK, Working
  <2> QED
    BY <2>1, <2>2, <1>1, <1>2, <1>3, <1>4 DEF ExecTypeOK
<1>8. Apart'
  BY <1>1, <1>2, <1>6 DEF Apart
<1>9. \A u, v \in Tasks : Excluded(u, v)'
  BY <1>2, <1>3, ExcludedStays DEF Holding
<1>10. ASSUME NEW u \in Tasks
       PROVE  Staged(u)'
  BY <1>2, <1>3 DEF RunInv, Staged, Keyed, Before, Working
<1>11. ASSUME NEW u \in Tasks
       PROVE  Settled(u)'
  <2>1. Root(u)' = Root(u) /\ (Lone(u)' <=> Lone(u))
    BY <1>2 DEF Root, Keyed, Where, Lone
  <2>2. CASE stage'[u] = stage[u]
    <3>1. ASSUME Lone(u), stage[u] \in Busy
          PROVE  /\ ~Keyed(u) => ~(\E bk \in Paths : place'[bk] = Root(u) \/ \E x \in bin'[bk] : x.dir = Root(u))
                 /\ \A v \in Tasks \ {u} : stage'[v] # "ended" => cwd'[v] # Root(u)
      <4>1. Settled(u) /\ \A v \in Tasks : stage'[v] # "ended" => stage[v] # "ended"
        BY <1>3 DEF RunInv
      <4> QED
        BY <4>1, <3>1, <1>2, <1>6 DEF Settled, Named
    <3> QED
      BY <2>1, <2>2, <3>1, <1>2, Undisturbed
  <2>3. CASE stage'[u] # stage[u]
    <3>1. stage'[u] \in {"ended", "orphan"}
      BY <2>3, <1>3
    <3> QED
      BY <2>1, <3>1, <1>2 DEF RunInv, Settled, Busy
  <2> QED
    BY <2>2, <2>3
<1> QED
  BY <1>7, <1>8, <1>9, <1>10, <1>11 DEF RunInv

LEMMA IdleKeeps == ASSUME RunInv, UNCHANGED execVars PROVE RunInv'
<1> USE DEF execVars
<1>1. ExecTypeOK' /\ Apart'
  BY DEF RunInv, ExecTypeOK, Apart
<1>2. \A t, u \in Tasks : Excluded(t, u)'
  BY DEF RunInv, Excluded, Keyed, Where
<1>3. \A t \in Tasks : Staged(t)'
  BY DEF RunInv, Staged, Keyed
<1>4. ASSUME NEW t \in Tasks
      PROVE  Settled(t)'
  <2>1. Root(t)' = Root(t) /\ Lone(t)' = Lone(t)
    BY DEF Root, Keyed, Where, Lone
  <2>2. Lone(t) /\ stage[t] \in Busy =>
          /\ ~Keyed(t) => ~(\E bk \in Paths : place'[bk] = Root(t) \/ \E e \in bin'[bk] : e.dir = Root(t))
          /\ \A u \in Tasks \ {t} : stage'[u] # "ended" => cwd'[u] # Root(t)
    BY DEF RunInv, Settled, Named
  <2> QED
    BY <2>1, <2>2, Undisturbed
<1> QED
  BY <1>1, <1>2, <1>3, <1>4 DEF RunInv

LEMMA RunInvHolds == ExecSpec => []RunInv
<1>1. RunInv /\ [ExecNext]_execVars => RunInv'
  BY BeginKeeps, LockKeeps, ClearKeeps, DeleteKeeps, MakeKeeps, StageKeeps, MakeAgainKeeps,
     RunKeeps, ProduceKeeps, ExitKeeps, CollectKeeps, LeaveKeeps, FailKeeps, SweepKeeps, DieKeeps,
     IdleKeeps DEF ExecNext
<1> QED
  BY InitRuns, <1>1, PTL DEF ExecSpec

\* Types of the execution, for any calls, processes and machines: a command that
\* runs has a directory that it runs in, and what is left behind, renamed aside
\* and collected are files of calls.
THEOREM ExecTypeCorrect == ExecSpec => []ExecTypeOK
<1>1. RunInv => ExecTypeOK
  BY DEF RunInv
<1> QED
  BY <1>1, RunInvHolds, PTL

\* While a command of run_action runs, its directory is the one its paths lead
\* to, with all its inputs and nothing of another call, and what is collected is
\* its own - unless another process made a call of the crate at the time, or
\* clearing the directory failed: whatever the processes that died, and the
\* commands that survive them, left or still do.
THEOREM CallsKeepApart == ExecSpec => []LoneCommandsRunAlone
<1>1. ASSUME RunInv, NEW t \in Tasks \ (soiled \cup met)
      PROVE  RunsAlone(t)
  <2>1. Settled(t) /\ Lone(t)
    BY <1>1 DEF RunInv, Lone
  <2> QED
    BY <2>1 DEF Settled, RunsAlone, Busy
<1>2. RunInv => LoneCommandsRunAlone
  BY <1>1 DEF LoneCommandsRunAlone
<1> QED
  BY <1>2, RunInvHolds, PTL

-----------------------------------------------------------------------------
(* What the canonical key tells                                            *)

\* Texts alike but for labels refer to files in the same places, under names
\* alike but for labels.
LEMMA RefsAlike ==
  ASSUME NEW s, NEW u, NormalLines(s) = NormalLines(u)
  PROVE  /\ DOMAIN Refs(s) = DOMAIN Refs(u)
         /\ \A i \in DOMAIN Refs(s) : NormalToken(Refs(s)[i]) = NormalToken(Refs(u)[i])
<1>1. DOMAIN s = DOMAIN u
  BY DEF NormalLines
<1>2. ASSUME NEW i \in DOMAIN s
      PROVE  s[i].at = u[i].at /\ NormalToken(PathOf(s[i])) = NormalToken(PathOf(u[i]))
  <2>1. NormalToken(s[i]) = NormalToken(u[i])
    BY <1>1, <1>2 DEF NormalLines
  <2> DEFINE ls == IF s[i].label = Plain THEN Plain ELSE Norm
             lu == IF u[i].label = Plain THEN Plain ELSE Norm
  <2>2. /\ NormalToken(s[i]).word = s[i].word /\ NormalToken(s[i]).label = ls
        /\ NormalToken(u[i]).word = u[i].word /\ NormalToken(u[i]).label = lu
    BY DEF NormalToken
  <2>3. NormalToken(s[i]).at = s[i].at /\ NormalToken(u[i]).at = u[i].at
    BY DEF NormalToken
  <2>4. /\ NormalToken(PathOf(s[i])) = [word |-> s[i].word, label |-> ls, at |-> FALSE]
        /\ NormalToken(PathOf(u[i])) = [word |-> u[i].word, label |-> lu, at |-> FALSE]
    BY DEF NormalToken, PathOf
  <2> HIDE DEF ls, lu
  <2> QED
    BY <2>1, <2>2, <2>3, <2>4
<1>3. DOMAIN Refs(s) = DOMAIN Refs(u)
  BY <1>1, <1>2 DEF Refs
<1>4. ASSUME NEW i \in DOMAIN Refs(s)
      PROVE  NormalToken(Refs(s)[i]) = NormalToken(Refs(u)[i])
  <2>1. i \in DOMAIN s
    BY DEF Refs
  <2>2. Refs(s)[i] = PathOf(s[i]) /\ Refs(u)[i] = PathOf(u[i])
    BY <1>3, <1>4 DEF Refs
  <2> QED
    BY <1>2, <2>1, <2>2
<1> QED
  BY <1>3, <1>4

LEMMA Sums ==
  /\ \A m, n \in Nat : 1 .. m = 1 .. n => m = n
  /\ \A l, m, n, k \in Nat : l + m = n + k /\ (l = n \/ m = k) => l = n /\ m = k
  /\ \A m, n \in Nat : /\ m + n \in Nat
                       /\ \A i \in 1 .. m : i \in 1 .. m + n /\ i <= m
                       /\ \A i \in 1 .. n : /\ m + i \in 1 .. m + n /\ ~(m + i <= m)
                                            /\ (m + i) - m = i
<1>1. ASSUME NEW m \in Nat, NEW n \in Nat, 1 .. m = 1 .. n PROVE m = n
  <2>1. m >= 1 => m \in 1 .. n
    BY <1>1
  <2>2. n >= 1 => n \in 1 .. m
    BY <1>1
  <2> QED
    BY <2>1, <2>2
<1> QED
  BY <1>1

\* Two sequences of the same words, divided at the same place, agree on both
\* sides of it.
LEMMA PartsAlike ==
  ASSUME NEW S, NEW s \in Seq(S), NEW x \in Seq(S), NEW u \in Seq(S), NEW y \in Seq(S),
         NormalLines(s \o x) = NormalLines(u \o y), Len(s) = Len(u) \/ Len(x) = Len(y)
  PROVE  NormalLines(s) = NormalLines(u) /\ NormalLines(x) = NormalLines(y)
<1> DEFINE both == s \o x
           also == u \o y
           m    == Len(s)
           n    == Len(x)
<1>0. m \in Nat /\ n \in Nat /\ Len(u) \in Nat /\ Len(y) \in Nat
  BY LenProperties
<1>00. DOMAIN s = 1 .. m /\ DOMAIN x = 1 .. n /\ DOMAIN u = 1 .. Len(u) /\ DOMAIN y = 1 .. Len(y)
  BY LenProperties
<1>1. /\ both \in Seq(S) /\ Len(both) = m + n
      /\ \A i \in 1 .. m + n : both[i] = IF i <= m THEN s[i] ELSE x[i - m]
  BY ConcatProperties
<1>2. /\ also \in Seq(S) /\ Len(also) = Len(u) + Len(y)
      /\ \A i \in 1 .. Len(u) + Len(y) : also[i] = IF i <= Len(u) THEN u[i] ELSE y[i - Len(u)]
  BY ConcatProperties
<1>3. NormalLines(both) = NormalLines(also)
  OBVIOUS
<1> HIDE DEF both, also
<1>4. DOMAIN both = 1 .. m + n /\ DOMAIN also = 1 .. Len(u) + Len(y)
  BY <1>1, <1>2, LenProperties
<1>5. 1 .. m + n = 1 .. Len(u) + Len(y)
  BY <1>3, <1>4 DEF NormalLines
<1>6. m = Len(u) /\ n = Len(y)
  <2>1. m + n \in Nat /\ Len(u) + Len(y) \in Nat
    BY <1>0
  <2>2. m + n = Len(u) + Len(y)
    BY <1>5, <2>1, Sums
  <2>3. m = Len(u) \/ n = Len(y)
    OBVIOUS
  <2> QED
    BY <1>0, <2>2, <2>3, Sums
<1>7. \A i \in 1 .. m + n : NormalToken(both[i]) = NormalToken(also[i])
  BY <1>3, <1>4, <1>5 DEF NormalLines
<1>8. m \in Nat /\ n \in Nat
  BY <1>0
<1>9. /\ \A i \in 1 .. m + n : also[i] = IF i <= m THEN u[i] ELSE y[i - m]
      /\ \A i \in 1 .. m + n : both[i] = IF i <= m THEN s[i] ELSE x[i - m]
  BY <1>1, <1>2, <1>6
<1>10. DOMAIN s = 1 .. m /\ DOMAIN u = 1 .. m /\ DOMAIN x = 1 .. n /\ DOMAIN y = 1 .. n
  BY <1>00, <1>6
<1> HIDE DEF m, n
<1>11. ASSUME NEW i \in 1 .. m PROVE NormalToken(s[i]) = NormalToken(u[i])
  <2>1. i \in 1 .. m + n /\ i <= m
    BY <1>8, Sums
  <2> QED
    BY <1>7, <1>9, <2>1
<1>12. ASSUME NEW i \in 1 .. n PROVE NormalToken(x[i]) = NormalToken(y[i])
  <2>1. m + i \in 1 .. m + n /\ ~(m + i <= m) /\ (m + i) - m = i
    BY <1>8, Sums
  <2> DEFINE k == m + i
  <2>2. both[k] = x[k - m] /\ also[k] = y[k - m] /\ NormalToken(both[k]) = NormalToken(also[k])
    BY <1>7, <1>9, <2>1
  <2> QED
    BY <2>1, <2>2
<1> QED
  BY <1>10, <1>11, <1>12 DEF NormalLines

LEMMA CommandsAlike ==
  ASSUME NEW a \in Actions, NEW b \in Actions, NormalCommand(a) = NormalCommand(b),
         Len(Args[a]) = Len(Args[b]), Len(Declared[a]) = Len(Declared[b])
  PROVE  /\ NormalLines(Args[a]) = NormalLines(Args[b])
         /\ NormalLines(Envs[a]) = NormalLines(Envs[b])
         /\ NormalLines(Declared[a]) = NormalLines(Declared[b])
<1> DEFINE S == UNION {Range(Args[c]) \cup Range(Envs[c]) \cup Range(Declared[c]) : c \in Actions}
<1>1. ASSUME NEW c \in Actions
      PROVE  Args[c] \in Seq(S) /\ Envs[c] \in Seq(S) /\ Declared[c] \in Seq(S)
  <2>1. /\ Args[c] \in Seq(Range(Args[c])) /\ Envs[c] \in Seq(Range(Envs[c]))
        /\ Declared[c] \in Seq(Range(Declared[c]))
    BY CanonicalAssumption
  <2>2. Range(Args[c]) \subseteq S /\ Range(Envs[c]) \subseteq S /\ Range(Declared[c]) \subseteq S
    OBVIOUS
  <2> HIDE DEF S
  <2> QED
    BY <2>1, <2>2, SeqMonotonic
<1> HIDE DEF S
<1> DEFINE p == Args[a] \o Envs[a]
           q == Args[b] \o Envs[b]
<1>2. p \in Seq(S) /\ q \in Seq(S)
  BY <1>1, ConcatProperties
<1>3. NormalLines(p \o Declared[a]) = NormalLines(q \o Declared[b])
  BY DEF NormalCommand
<1> HIDE DEF p, q
<1>4. NormalLines(p) = NormalLines(q) /\ NormalLines(Declared[a]) = NormalLines(Declared[b])
  BY <1>1, <1>2, <1>3, PartsAlike
<1>5. NormalLines(Args[a]) = NormalLines(Args[b]) /\ NormalLines(Envs[a]) = NormalLines(Envs[b])
  BY <1>1, <1>4, PartsAlike DEF p, q
<1> QED
  BY <1>4, <1>5

\* The files of the first two levels, as the key has them.
NormalPairs(a) == {<<NormalToken(p), NormalLines(Tree[a][p])>> : p \in Argsfiles(a)}

\* An action has a key if its argsfiles are there, and one key means one hash.
LEMMA KeyTells ==
  ASSUME NEW a \in Actions, NEW b \in Actions, CanonicalKey[a] # None,
         CanonicalKey[a] = CanonicalKey[b]
  PROVE  /\ Argsfiles(a) \subseteq DOMAIN Tree[a] /\ Argsfiles(b) \subseteq DOMAIN Tree[b]
         /\ NormalCommand(a) = NormalCommand(b)
         /\ NormalFiles(a) = NormalFiles(b)
         /\ Sources(a) = Sources(b)
<1>1. ASSUME NEW c \in Actions, CanonicalKey[c] # None
      PROVE  /\ Argsfiles(c) \subseteq DOMAIN Tree[c]
             /\ CanonicalKey[c] = {d \in Actions : Hashed(d) = Hashed(c)}
  BY <1>1 DEF CanonicalKey
<1>2. Hashed(a) = Hashed(b)
  BY <1>1
<1> QED
  BY <1>1, <1>2 DEF Hashed

LEMMA FilesAlike ==
  ASSUME NEW a \in Actions, NEW b \in Actions,
         Argsfiles(a) \subseteq DOMAIN Tree[a], Argsfiles(b) \subseteq DOMAIN Tree[b],
         NormalLines(Args[a]) = NormalLines(Args[b]), NormalFiles(a) = NormalFiles(b)
  PROVE  NormalPairs(a) \subseteq NormalPairs(b)
<1>1. /\ DOMAIN FirstLevel(a) = DOMAIN FirstLevel(b)
      /\ \A i \in DOMAIN FirstLevel(a) :
           NormalToken(FirstLevel(a)[i]) = NormalToken(FirstLevel(b)[i])
  BY RefsAlike DEF FirstLevel
<1> DEFINE F(c) == [i \in DOMAIN FirstLevel(c) |-> NormalLines(At(c, FirstLevel(c)[i]))]
           G(c) == [ij \in DOMAIN SecondLevel(c) |-> NormalLines(At(c, SecondLevel(c)[ij]))]
<1>2. F(a) = F(b) /\ G(a) = G(b)
  BY DEF NormalFiles
<1>3. \A i \in DOMAIN FirstLevel(a) :
        NormalLines(At(a, FirstLevel(a)[i])) = NormalLines(At(b, FirstLevel(b)[i]))
  <2>1. ASSUME NEW i \in DOMAIN FirstLevel(a)
        PROVE  /\ F(a)[i] = NormalLines(At(a, FirstLevel(a)[i]))
               /\ F(b)[i] = NormalLines(At(b, FirstLevel(b)[i]))
    BY <1>1
  <2> HIDE DEF F
  <2> QED
    BY <1>2, <2>1
<1>4. ASSUME NEW i \in DOMAIN FirstLevel(a)
      PROVE  /\ DOMAIN Within(a, i) = DOMAIN Within(b, i)
             /\ \A j \in DOMAIN Within(a, i) :
                  NormalToken(Within(a, i)[j]) = NormalToken(Within(b, i)[j])
  BY <1>3, RefsAlike DEF Within
<1>5. ASSUME NEW ij \in DOMAIN SecondLevel(a)
      PROVE  /\ ij \in DOMAIN SecondLevel(b)
             /\ NormalToken(SecondLevel(a)[ij]) = NormalToken(SecondLevel(b)[ij])
             /\ NormalLines(At(a, SecondLevel(a)[ij])) = NormalLines(At(b, SecondLevel(b)[ij]))
  <2>0. PICK i \in DOMAIN FirstLevel(a) : \E j \in DOMAIN Within(a, i) : ij = <<i, j>>
    BY DEF SecondLevel
  <2>1. PICK j \in DOMAIN Within(a, i) : ij = <<i, j>>
    BY <2>0
  <2>2. DOMAIN G(a) = DOMAIN SecondLevel(a) /\ DOMAIN G(b) = DOMAIN SecondLevel(b)
    OBVIOUS
  <2>3. ij \in DOMAIN SecondLevel(b)
    BY <1>2, <2>2
  <2>4. SecondLevel(a)[ij] = Within(a, i)[j] /\ SecondLevel(b)[ij] = Within(b, i)[j]
    BY <2>1, <2>3 DEF SecondLevel
  <2>5. NormalToken(SecondLevel(a)[ij]) = NormalToken(SecondLevel(b)[ij])
    BY <1>4, <2>1, <2>4
  <2>6. /\ G(a)[ij] = NormalLines(At(a, SecondLevel(a)[ij]))
        /\ G(b)[ij] = NormalLines(At(b, SecondLevel(b)[ij]))
    BY <2>3
  <2> HIDE DEF G
  <2> QED
    BY <1>2, <2>3, <2>5, <2>6
<1>6. ASSUME NEW c \in Actions, Argsfiles(c) \subseteq DOMAIN Tree[c], NEW p \in Argsfiles(c)
      PROVE  At(c, p) = Tree[c][p]
  BY <1>6 DEF At
<1>7. SUFFICES ASSUME NEW p \in Argsfiles(a)
               PROVE  \E q \in Argsfiles(b) : /\ NormalToken(p) = NormalToken(q)
                                              /\ NormalLines(Tree[a][p]) = NormalLines(Tree[b][q])
  BY DEF NormalPairs
<1>8. CASE p \in Range(FirstLevel(a))
  <2>1. PICK i \in DOMAIN FirstLevel(a) : p = FirstLevel(a)[i]
    BY <1>8 DEF Range
  <2>2. FirstLevel(b)[i] \in Argsfiles(b)
    BY <1>1 DEF Argsfiles, Range
  <2>3. NormalLines(At(a, p)) = NormalLines(At(b, FirstLevel(b)[i]))
    BY <1>3, <2>1
  <2> QED
    BY <1>1, <1>6, <2>1, <2>2, <2>3
<1>9. CASE p \in Range(SecondLevel(a))
  <2>1. PICK ij \in DOMAIN SecondLevel(a) : p = SecondLevel(a)[ij]
    BY <1>9 DEF Range
  <2>2. SecondLevel(b)[ij] \in Argsfiles(b)
    BY <1>5 DEF Argsfiles, Range
  <2>3. NormalLines(At(a, p)) = NormalLines(At(b, SecondLevel(b)[ij]))
    BY <1>5, <2>1
  <2> QED
    BY <1>5, <1>6, <2>1, <2>2, <2>3
<1> QED
  BY <1>7, <1>8, <1>9 DEF Argsfiles

\* The compiler reads all that the key takes for argsfiles.
LEMMA KeyedAreRead ==
  ASSUME NEW a \in Actions, Argsfiles(a) \subseteq DOMAIN Tree[a]
  PROVE  Argsfiles(a) \subseteq Closure(a)
<1> DEFINE paths == DOMAIN Tree[a]
           read(S) == Range(FirstLevel(a)) \cup UNION {Range(Refs(At(a, p))) : p \in S}
<1>1. SUFFICES ASSUME NEW p \in Argsfiles(a), NEW S \in SUBSET paths, paths \cap read(S) \subseteq S
               PROVE  p \in S
  BY DEF Closure
<1>2. p \in paths /\ Range(FirstLevel(a)) \subseteq S
  BY <1>1 DEF Argsfiles
<1>3. CASE p \in Range(FirstLevel(a))
  BY <1>2, <1>3
<1>4. CASE p \in Range(SecondLevel(a))
  <2>1. PICK ij \in DOMAIN SecondLevel(a) : p = SecondLevel(a)[ij]
    BY <1>4 DEF Range
  <2>0. PICK i \in DOMAIN FirstLevel(a) : \E j \in DOMAIN Within(a, i) : ij = <<i, j>>
    BY DEF SecondLevel
  <2>2. PICK j \in DOMAIN Within(a, i) : ij = <<i, j>>
    BY <2>0
  <2>3. p = Within(a, i)[j]
    BY <2>1, <2>2 DEF SecondLevel
  <2>4. p \in Range(Refs(At(a, FirstLevel(a)[i])))
    BY <2>2, <2>3 DEF Within, Range
  <2>5. FirstLevel(a)[i] \in S
    BY <1>2, <2>2 DEF Range
  <2>6. p \in read(S)
    BY <2>4, <2>5
  <2> QED
    BY <1>1, <1>2, <2>6
<1> QED
  BY <1>3, <1>4 DEF Argsfiles

\* Actions of one key do the same work, unless they differ in what the key does
\* not have.
LEMMA SameKeySameWork ==
  ASSUME NEW a \in Actions, NEW b \in Actions, CanonicalKey[a] # None,
         CanonicalKey[a] = CanonicalKey[b],
         Len(Args[a]) = Len(Args[b]), Len(Declared[a]) = Len(Declared[b]), Deep(a) = Deep(b)
  PROVE  Work(a) = Work(b)
<1>1. /\ NormalLines(Args[a]) = NormalLines(Args[b])
      /\ NormalLines(Envs[a]) = NormalLines(Envs[b])
      /\ NormalLines(Declared[a]) = NormalLines(Declared[b])
  BY KeyTells, CommandsAlike
<1>2. /\ Argsfiles(a) \subseteq DOMAIN Tree[a] /\ Argsfiles(b) \subseteq DOMAIN Tree[b]
      /\ NormalFiles(a) = NormalFiles(b) /\ Sources(a) = Sources(b)
  BY KeyTells
<1>3. NormalPairs(a) = NormalPairs(b)
  BY <1>1, <1>2, FilesAlike
<1> DEFINE Seen(c, p) == IF p \in Closure(c) THEN <<NormalToken(p), NormalLines(Tree[c][p])>>
                                             ELSE <<p, Tree[c][p]>>
           Contents(c) == {Seen(c, p) : p \in DOMAIN Tree[c]}
<1>4. ASSUME NEW c \in {a, b}, NEW d \in {a, b}, Sources(c) = Sources(d), Deep(c) = Deep(d),
             NormalPairs(c) = NormalPairs(d), NEW p \in DOMAIN Tree[c]
      PROVE  \E q \in DOMAIN Tree[d] : Seen(c, p) = Seen(d, q)
  <2>0. /\ Argsfiles(c) \subseteq DOMAIN Tree[c] /\ Argsfiles(d) \subseteq DOMAIN Tree[d]
        /\ Argsfiles(c) \subseteq Closure(c) /\ Argsfiles(d) \subseteq Closure(d)
    BY <1>2, KeyedAreRead
  <2>1. CASE p \in Argsfiles(c)
    <3>1. <<NormalToken(p), NormalLines(Tree[c][p])>> \in NormalPairs(d)
      BY <1>4, <2>1 DEF NormalPairs
    <3>2. PICK q \in Argsfiles(d) : <<NormalToken(p), NormalLines(Tree[c][p])>>
                                      = <<NormalToken(q), NormalLines(Tree[d][q])>>
      BY <3>1 DEF NormalPairs
    <3> QED
      BY <2>0, <2>1, <3>2
  <2>2. CASE p \notin Argsfiles(c)
    <3>1. <<p, Tree[c][p]>> \in Sources(d)
      BY <1>4, <2>2 DEF Sources
    <3>2. p \in DOMAIN Tree[d] /\ p \notin Argsfiles(d) /\ Tree[d][p] = Tree[c][p]
      BY <3>1 DEF Sources
    <3>3. p \in Closure(c) <=> p \in Closure(d)
      BY <1>4, <2>2, <3>2 DEF Deep
    <3>4. Seen(c, p) = Seen(d, p)
      BY <3>2, <3>3
    <3> QED
      BY <3>2, <3>4
  <2> QED
    BY <2>1, <2>2
<1> HIDE DEF Seen
<1>5. \A p \in DOMAIN Tree[a] : \E q \in DOMAIN Tree[b] : Seen(a, p) = Seen(b, q)
  BY <1>2, <1>3, <1>4
<1>6. \A p \in DOMAIN Tree[b] : \E q \in DOMAIN Tree[a] : Seen(b, p) = Seen(a, q)
  BY <1>2, <1>3, <1>4
<1>7. Contents(a) = Contents(b)
  BY <1>5, <1>6
<1>8. ASSUME NEW c \in Actions
      PROVE  Work(c) = [args |-> NormalLines(Args[c]), envs |-> NormalLines(Envs[c]),
                        outs |-> NormalLines(Declared[c]), files |-> Contents(c)]
  BY DEF Work, Seen
<1> HIDE DEF Contents
<1> QED
  BY <1>1, <1>7, <1>8
-----------------------------------------------------------------------------
(* What a canonical hit serves                                             *)

LEMMA MaxOfOne == \A i \in Nat : Max({i}) = i
  BY DEF Max

\* The row of an action's twin, brought under the action's own paths, is what
\* the twin made under those paths.
LEMMA ServedAlike ==
  ASSUME NEW a \in Actions, NEW b \in Actions, CanonicalKey[a] # None,
         CanonicalKey[a] = CanonicalKey[b],
         Len(Args[a]) = Len(Args[b]), Len(Declared[a]) = Len(Declared[b]),
         IsInjective(NormalLines(Declared[a]))
  PROVE  Rewritten(NormalResult(Made(b)), a) = Under(Made(b), Declared[a])
<1> DEFINE w == NormalResult(Made(b))
           D == DOMAIN Declared[a]
<1>1. NormalLines(Declared[a]) = NormalLines(Declared[b])
  BY KeyTells, CommandsAlike
<1>2. D = DOMAIN Declared[b] /\ \A i \in D : NormalToken(Declared[a][i]) = NormalToken(Declared[b][i])
  <2>1. D = DOMAIN Declared[b]
    BY <1>1 DEF NormalLines
  <2>2. ASSUME NEW i \in D
        PROVE  /\ NormalLines(Declared[a])[i] = NormalToken(Declared[a][i])
               /\ NormalLines(Declared[b])[i] = NormalToken(Declared[b][i])
    BY <2>1 DEF NormalLines
  <2> QED
    BY <1>1, <2>1, <2>2
<1>3. Made(b).outs = [i \in D |-> [path |-> Declared[b][i], blob |-> <<b, i>>]]
      /\ Made(b).exit = 0 /\ Made(b).by = b
  BY <1>2 DEF Made
<1>4. /\ w.exit = 0 /\ w.by = b
      /\ w.outs = [i \in D |-> [path |-> NormalToken(Declared[b][i]), blob |-> <<b, i>>]]
  <2> DEFINE m == Made(b)
             P == [i \in DOMAIN m.outs |-> NormalToken(m.outs[i].path)]
  <2>1. w = Under(m, P)
    BY DEF NormalResult
  <2>2. DOMAIN m.outs = D /\ \A i \in D : m.outs[i].path = Declared[b][i] /\ m.outs[i].blob = <<b, i>>
    BY <1>3
  <2>3. \A i \in D : P[i] = NormalToken(Declared[b][i])
    BY <2>2
  <2> HIDE DEF m, P
  <2>4. /\ w.exit = m.exit /\ w.by = m.by
        /\ w.outs = [i \in D |-> [path |-> P[i], blob |-> m.outs[i].blob]]
    <3> HIDE DEF w
    <3> QED
      BY <2>1, <2>2 DEF Under
  <2>5. m.exit = 0 /\ m.by = b
    BY <1>3 DEF m
  <2> HIDE DEF w
  <2> QED
    BY <2>2, <2>3, <2>4, <2>5
<1>5. ASSUME NEW i \in D
      PROVE  Renamed(NormalToken(Declared[b][i]), a) = Declared[a][i]
  <2> DEFINE js == {j \in D : NormalToken(Declared[a][j]) = NormalToken(Declared[b][i])}
  <2>1. DOMAIN NormalLines(Declared[a]) = D
    BY DEF NormalLines
  <2>2. \A j \in D : NormalLines(Declared[a])[j] = NormalToken(Declared[a][j])
    BY DEF NormalLines
  <2>3. ASSUME NEW j \in js PROVE j = i
    BY <1>2, <2>1, <2>2 DEF IsInjective
  <2>4. js = {i}
    BY <1>2, <2>3
  <2>5. i \in Nat
    <3>1. Declared[a] \in Seq(Range(Declared[a]))
      BY CanonicalAssumption
    <3>2. D = 1 .. Len(Declared[a]) /\ Len(Declared[a]) \in Nat
      BY <3>1, LenProperties
    <3> QED
      BY <3>2
  <2>6. Max(js) = i
    BY <2>4, <2>5, MaxOfOne
  <2>7. Renamed(NormalToken(Declared[b][i]), a)
          = IF js = {} THEN NormalToken(Declared[b][i]) ELSE Declared[a][Max(js)]
    BY DEF Renamed
  <2> HIDE DEF js
  <2> QED
    BY <2>4, <2>6, <2>7
<1> DEFINE P == [i \in DOMAIN w.outs |-> Renamed(w.outs[i].path, a)]
           m == Made(b)
<1>6. Rewritten(w, a) = Under(w, P)
  BY DEF Rewritten
<1> HIDE DEF w
<1>7. DOMAIN w.outs = D
      /\ \A i \in D : w.outs[i].path = NormalToken(Declared[b][i]) /\ w.outs[i].blob = <<b, i>>
  BY <1>4
<1>8. \A i \in D : P[i] = Declared[a][i]
  BY <1>5, <1>7
<1> HIDE DEF P
<1>9. Under(w, P) = [exit |-> 0, by |-> b,
                     outs |-> [i \in D |-> [path |-> Declared[a][i], blob |-> <<b, i>>]]]
  <2>1. [i \in DOMAIN w.outs |-> [path |-> P[i], blob |-> w.outs[i].blob]]
          = [i \in D |-> [path |-> Declared[a][i], blob |-> <<b, i>>]]
    BY <1>7, <1>8
  <2> QED
    BY <1>4, <2>1 DEF Under
<1>10. DOMAIN m.outs = D /\ \A i \in D : m.outs[i].blob = <<b, i>>
  BY <1>3
<1>11. m.exit = 0 /\ m.by = b
  BY <1>3
<1> HIDE DEF m
<1>12. Under(m, Declared[a]) = [exit |-> 0, by |-> b,
                     outs |-> [i \in D |-> [path |-> Declared[a][i], blob |-> <<b, i>>]]]
  <2>1. [i \in DOMAIN m.outs |-> [path |-> Declared[a][i], blob |-> m.outs[i].blob]]
          = [i \in D |-> [path |-> Declared[a][i], blob |-> <<b, i>>]]
    BY <1>10
  <2> QED
    BY <1>11, <2>1 DEF Under
<1> QED
  BY <1>6, <1>9, <1>12 DEF w, m

\* What an empty file decodes to names no paths.
LEMMA DefaultAsIs == \A a \in Actions : Rewritten(Default, a) = Default
<1> TAKE a \in Actions
<1>1. Default.outs = <<>> /\ Default.exit = 0 /\ Default.by = None
  BY DEF Default
<1> DEFINE P == [i \in DOMAIN Default.outs |-> Renamed(Default.outs[i].path, a)]
           Q == [i \in DOMAIN Default.outs |-> [path |-> P[i], blob |-> Default.outs[i].blob]]
<1>2. Q = <<>>
  BY <1>1
<1> HIDE DEF P
<1>3. Under(Default, P) = [exit |-> 0, by |-> None, outs |-> Q]
  BY <1>1 DEF Under
<1> HIDE DEF Q
<1>4. Rewritten(Default, a) = Under(Default, P)
  BY DEF Rewritten, P
<1> QED
  BY <1>2, <1>3, <1>4 DEF Default

-----------------------------------------------------------------------------
(* What the canonical cache holds                                          *)

Steps    == {"new", "keying", "probing", "checking", "running", "opening",
             "writing", "renaming", "memoizing", "done"}
Unopened == {"new", "keying", "probing", "checking", "running", "opening"}
Rows     == {NormalResult(Made(a)) : a \in Actions} \cup {NormalResult(Failed(a)) : a \in Actions}
              \cup {Default}
Answers  == {Rewritten(w, a) : w \in Rows, a \in Actions}

CanonTyped ==
  /\ memo \in [Keys -> Rows \cup {None}]
  /\ acn \in [Keys -> Requests \cup {Bank, None}]
  /\ tmp \in [Keys -> Requests \cup {None}]
  /\ text \in [Requests \cup {Bank} -> Rows \cup {Corrupt}]
  /\ step \in [Requests -> Steps]
  /\ asks \in [Requests -> Actions \cup {None}]
  /\ key \in [Requests -> Keys \cup {None}]
  /\ row \in [Requests -> Rows \cup {None}]
  /\ fd \in [Requests -> Requests \cup {None}]
  /\ served \in [Requests -> Answers \cup {None}]
  /\ collided \subseteq Keys

\* A row of key k: the result of an action that has this key, or what a
\* collision of two writers may leave.
Whole(k, w)   == \E b \in Actions : CanonicalKey[b] = k /\ w = NormalResult(Made(b))
Legible(k, w) == Whole(k, w) \/ (w = Default /\ k \in collided)

\* A request has its action's key and, from when it read or made a row, one of
\* that key.
Asking(r) ==
  /\ step[r] \in {"new", "keying"} => key[r] = None
  /\ step[r] # "new" => asks[r] \in Actions
  /\ step[r] \in {"probing", "checking", "opening", "writing", "renaming", "memoizing"} =>
       key[r] # None
  /\ key[r] # None => asks[r] \in Actions /\ key[r] = CanonicalKey[asks[r]]
  /\ step[r] = "checking" => Legible(key[r], row[r])
  /\ step[r] \in {"opening", "writing", "renaming", "memoizing"} => Whole(key[r], row[r])
  /\ served[r] # None =>
       /\ step[r] = "done" /\ key[r] # None
       /\ \E w \in Rows : Legible(key[r], w) /\ served[r] = Rewritten(w, asks[r])

\* A file goes by the request that made it; it is one of its key.
FileOf(f, k) == f \in Requests /\ step[f] \notin Unopened /\ key[f] = k

\* While nobody else wrote the row of its key, a writer has the file under the
\* temporary name to itself.
Writing(r) ==
  step[r] \in {"writing", "renaming"} =>
    /\ FileOf(fd[r], key[r])
    /\ key[r] \notin collided =>
         /\ tmp[key[r]] = r /\ fd[r] = r
         /\ step[r] = "renaming" => Whole(key[r], text[r])

Stored(k) ==
  /\ memo[k] # None => Whole(k, memo[k])
  /\ tmp[k] # None => FileOf(tmp[k], k) /\ (Whole(k, text[tmp[k]]) \/ text[tmp[k]] = Default)
  /\ acn[k] \notin {None, Bank} => FileOf(acn[k], k) /\ Legible(k, text[acn[k]])

CanonInv ==
  /\ CanonTyped
  /\ text[Bank] = Corrupt
  /\ \A r \in Requests : Asking(r) /\ Writing(r)
  /\ \A k \in Keys : Stored(k)

-----------------------------------------------------------------------------
(* Every step keeps it                                                     *)

LEMMA KeysAre ==
  /\ \A a \in Actions : CanonicalKey[a] # None => CanonicalKey[a] \in Keys
  /\ None \notin Keys
  BY DEF Keys

LEMMA WholeRows ==
  /\ \A k, w : Whole(k, w) => w \in Rows
  /\ \A k, w : Legible(k, w) => w \in Rows
  BY DEF Whole, Legible, Rows

LEMMA CanonStarts == CanonInit => CanonInv
<1> SUFFICES ASSUME CanonInit PROVE CanonInv
  OBVIOUS
<1>1. CanonTyped
  BY DEF CanonInit, CanonTyped, Steps
<1>2. text[Bank] = Corrupt
  BY DEF CanonInit
<1>3. \A r \in Requests : Asking(r) /\ Writing(r)
  BY DEF CanonInit, Asking, Writing
<1>4. \A k \in Keys : Stored(k)
  BY DEF CanonInit, Stored
<1> QED
  BY <1>1, <1>2, <1>3, <1>4 DEF CanonInv

\* A request that moves by itself leaves what is stored, and every other
\* request, as they were.
LEMMA OwnStep ==
  ASSUME CanonInv, NEW r \in Requests, UNCHANGED <<memo, acn, tmp, text, fd, collided>>,
         \A s \in Requests \ {r} :
           UNCHANGED <<step[s], asks[s], key[s], row[s], served[s]>>,
         \A k \in Keys : FileOf(r, k) => FileOf(r, k)',
         CanonTyped', Asking(r)', Writing(r)'
  PROVE  CanonInv'
<1>1. \A f : \A k \in Keys : FileOf(f, k) => FileOf(f, k)'
  BY DEF FileOf
<1>2. \A k, w : Whole(k, w)' = Whole(k, w) /\ Legible(k, w)' = Legible(k, w)
  BY DEF Whole, Legible
<1>3. ASSUME NEW s \in Requests, s # r PROVE Asking(s)' /\ Writing(s)'
  <2>1. Asking(s) /\ Writing(s)
    BY DEF CanonInv
  <2>2. Asking(s)'
    BY <1>2, <1>3, <2>1 DEF Asking
  <2>3. key[s] \in Keys \cup {None}
    BY DEF CanonInv, CanonTyped
  <2>4. step[s] \in {"writing", "renaming"} => key[s] \in Keys
    BY <2>1, <2>3 DEF Asking
  <2>5. Writing(s)'
    BY <1>1, <1>2, <1>3, <2>1, <2>4 DEF Writing
  <2> QED
    BY <2>2, <2>5
<1>4. ASSUME NEW k \in Keys PROVE Stored(k)'
  <2>1. Stored(k)
    BY DEF CanonInv
  <2> QED
    BY <1>1, <1>2, <2>1 DEF Stored
<1> QED
  BY <1>3, <1>4 DEF CanonInv

LEMMA EnterKeeps == ASSUME CanonInv, NEW r \in Requests, Enter(r) PROVE CanonInv'
<1> USE DEF Enter, disk
<1>1. CanonTyped /\ Asking(r)
  BY DEF CanonInv
<1>2. PICK a \in Actions : /\ asks' = [asks EXCEPT ![r] = a]
                           /\ step' = [step EXCEPT ![r] = IF a \in Compilers THEN "keying" ELSE "running"]
  OBVIOUS
<1>3. CanonTyped'
  BY <1>1, <1>2 DEF CanonTyped, Steps
<1>4. step'[r] \in {"keying", "running"} /\ asks'[r] = a
  BY <1>1, <1>2 DEF CanonTyped
<1>5. key[r] = None /\ served[r] = None
  BY <1>1 DEF Asking
<1>6. Asking(r)' /\ Writing(r)'
  BY <1>4, <1>5 DEF Asking, Writing
<1>7. \A k \in Keys : ~FileOf(r, k)
  BY DEF FileOf, Unopened
<1>8. \A s \in Requests \ {r} : UNCHANGED <<step[s], asks[s], key[s], row[s], served[s]>>
  BY <1>1, <1>2 DEF CanonTyped
<1> QED
  BY <1>3, <1>6, <1>7, <1>8, OwnStep

LEMMA MakeKeyKeeps == ASSUME CanonInv, NEW r \in Requests, MakeKey(r) PROVE CanonInv'
<1> USE DEF MakeKey, disk
<1>1. CanonTyped /\ Asking(r)
  BY DEF CanonInv
<1>2. key[r] = None /\ served[r] = None /\ asks[r] \in Actions
  BY <1>1 DEF Asking
<1>3. PICK k \in {CanonicalKey[asks[r]], None} : key' = [key EXCEPT ![r] = k]
  OBVIOUS
<1>4. k \in Keys \cup {None} /\ key'[r] = k
  BY <1>1, <1>2, <1>3, KeysAre DEF CanonTyped
<1>5. CanonTyped'
  BY <1>1, <1>3, <1>4 DEF CanonTyped, Steps
<1>6. step'[r] = IF k = None THEN "running" ELSE "probing"
  BY <1>1, <1>4 DEF CanonTyped
<1>7. Asking(r)' /\ Writing(r)'
  BY <1>2, <1>3, <1>4, <1>6 DEF Asking, Writing
<1>8. \A j \in Keys : ~FileOf(r, j)
  BY DEF FileOf, Unopened
<1>9. \A s \in Requests \ {r} : UNCHANGED <<step[s], asks[s], key[s], row[s], served[s]>>
  BY <1>1, <1>3 DEF CanonTyped
<1> QED
  BY <1>5, <1>7, <1>8, <1>9, OwnStep

LEMMA ProbeKeeps == ASSUME CanonInv, NEW r \in Requests, Probe(r) PROVE CanonInv'
<1> DEFINE k == key[r]
           w == IF memo[k] # None THEN memo[k] ELSE IF acn[k] # None THEN text[acn[k]] ELSE Corrupt
<1>0. /\ step[r] = "probing"
      /\ \/ step' = [step EXCEPT ![r] = "running"] /\ UNCHANGED row
         \/ w # Corrupt /\ step' = [step EXCEPT ![r] = "checking"] /\ row' = [row EXCEPT ![r] = w]
      /\ UNCHANGED <<memo, acn, tmp, text, fd, asks, key, served, collided>>
  BY DEF Probe, disk
<1>1. CanonTyped /\ Asking(r) /\ text[Bank] = Corrupt
  BY DEF CanonInv
<1>2. served[r] = None /\ asks[r] \in Actions /\ k # None /\ k = CanonicalKey[asks[r]]
  BY <1>0, <1>1 DEF Asking
<1>3. k \in Keys
  BY <1>2, KeysAre
<1>4. w # Corrupt => Legible(k, w)
  <2>1. Stored(k)
    BY <1>3 DEF CanonInv
  <2>2. memo[k] # None => Legible(k, memo[k])
    BY <2>1 DEF Stored, Legible
  <2>3. acn[k] # None /\ text[acn[k]] # Corrupt => Legible(k, text[acn[k]])
    BY <1>1, <2>1 DEF Stored
  <2> QED
    BY <2>2, <2>3
<1> HIDE DEF w
<1>5. CanonTyped'
  BY <1>0, <1>1, <1>4, WholeRows DEF CanonTyped, Steps
<1>6. \/ step'[r] = "running"
      \/ step'[r] = "checking" /\ row'[r] = w /\ w # Corrupt
  BY <1>0, <1>1 DEF CanonTyped
<1>7. Legible(k, w)' = Legible(k, w)
  <2>1. Whole(k, w)' <=> \E b \in Actions : CanonicalKey[b] = k' /\ w' = NormalResult(Made(b))
    BY DEF Whole
  <2>2. k' = k /\ w' = w
    BY <1>0 DEF w
  <2>3. Whole(k, w)' = Whole(k, w)
    BY <2>2 DEF Whole
  <2> QED
    BY <1>0, <2>2, <2>3 DEF Legible
<1>8. w' = w /\ k' = k
  BY <1>0 DEF w
<1>9. Asking(r)'
  BY <1>0, <1>2, <1>4, <1>6, <1>7, <1>8 DEF Asking
<1>10. Writing(r)'
  BY <1>6 DEF Writing
<1>11. \A j \in Keys : ~FileOf(r, j)
  BY <1>0 DEF FileOf, Unopened
<1>12. \A s \in Requests \ {r} : UNCHANGED <<step[s], asks[s], key[s], row[s], served[s]>>
  BY <1>0, <1>1 DEF CanonTyped
<1> QED
  BY <1>0, <1>5, <1>9, <1>10, <1>11, <1>12, OwnStep

LEMMA CheckKeeps == ASSUME CanonInv, NEW r \in Requests, Check(r) PROVE CanonInv'
<1> DEFINE w == row[r]
           a == asks[r]
<1>0. /\ step[r] = "checking"
      /\ \/ served' = [served EXCEPT ![r] = Rewritten(w, a)] /\ step' = [step EXCEPT ![r] = "done"]
         \/ step' = [step EXCEPT ![r] = "running"] /\ UNCHANGED served
      /\ UNCHANGED <<memo, acn, tmp, text, fd, asks, key, row, collided>>
  BY DEF Check, disk
<1>1. CanonTyped /\ Asking(r)
  BY DEF CanonInv
<1>2. /\ served[r] = None /\ a \in Actions /\ key[r] # None /\ key[r] = CanonicalKey[a]
      /\ Legible(key[r], w)
  BY <1>0, <1>1 DEF Asking
<1>3. w \in Rows
  BY <1>2, WholeRows
<1>4. Rewritten(w, a) \in Answers
  BY <1>2, <1>3 DEF Answers
<1>5. CanonTyped'
  <2> DEFINE v == Rewritten(w, a)
  <2> HIDE DEF v
  <2>1. v \in Answers
    BY <1>4 DEF v
  <2>2. served' = [served EXCEPT ![r] = v] \/ UNCHANGED served
    BY <1>0 DEF v
  <2> QED
    BY <1>0, <1>1, <2>1, <2>2 DEF CanonTyped, Steps
<1>6. \/ step'[r] = "done" /\ served'[r] = Rewritten(w, a)
      \/ step'[r] = "running" /\ served'[r] = None
  BY <1>0, <1>1, <1>2 DEF CanonTyped
<1>7. Legible(key[r], w)'
  BY <1>0, <1>2 DEF Legible, Whole
<1>8. Asking(r)'
  <2>1. served'[r] # None => \E x \in Rows : Legible(key[r], x)' /\ served'[r] = Rewritten(x, asks[r])
    BY <1>0, <1>3, <1>6, <1>7
  <2> QED
    BY <1>0, <1>2, <1>6, <2>1 DEF Asking
<1>9. Writing(r)'
  BY <1>6 DEF Writing
<1>10. \A j \in Keys : ~FileOf(r, j)
  BY <1>0 DEF FileOf, Unopened
<1>11. \A s \in Requests \ {r} : UNCHANGED <<step[s], asks[s], key[s], row[s], served[s]>>
  BY <1>0, <1>1 DEF CanonTyped
<1> QED
  BY <1>0, <1>5, <1>8, <1>9, <1>10, <1>11, OwnStep

LEMMA RunActionKeeps == ASSUME CanonInv, NEW r \in Requests, RunAction(r) PROVE CanonInv'
<1>0. PICK w \in {Made(asks[r]), Failed(asks[r])} :
        /\ row' = [row EXCEPT ![r] = NormalResult(w)]
        /\ step' = [step EXCEPT ![r] = IF Bankable(r, w) THEN "opening" ELSE "done"]
  BY DEF RunAction
<1>1. step[r] = "running" /\ UNCHANGED <<memo, acn, tmp, text, fd, asks, key, served, collided>>
  BY DEF RunAction, disk
<1>2. CanonTyped /\ Asking(r)
  BY DEF CanonInv
<1>3. served[r] = None /\ asks[r] \in Actions
  BY <1>1, <1>2 DEF Asking
<1>4. Bankable(r, w) => key[r] # None /\ w = Made(asks[r])
  <2>1. Failed(asks[r]).exit = 1
    BY DEF Failed
  <2> QED
    BY <2>1 DEF Bankable
<1>5. NormalResult(w) \in Rows
  BY <1>3 DEF Rows
<1>6. Bankable(r, w) => Whole(key[r], NormalResult(w))
  BY <1>2, <1>3, <1>4 DEF Asking, Whole
<1> DEFINE n == NormalResult(w)
           go == IF Bankable(r, w) THEN "opening" ELSE "done"
<1>7. /\ row' = [row EXCEPT ![r] = n] /\ step' = [step EXCEPT ![r] = go] /\ n \in Rows
      /\ \/ go = "done"
         \/ go = "opening" /\ key[r] # None /\ Whole(key[r], n)
  BY <1>0, <1>4, <1>5, <1>6
<1> HIDE DEF n, go
<1>8. CanonTyped'
  BY <1>1, <1>2, <1>7 DEF CanonTyped, Steps
<1>9. row'[r] = n /\ step'[r] = go
  BY <1>2, <1>7 DEF CanonTyped
<1>10. go = "opening" => Whole(key[r], row[r])'
  BY <1>1, <1>7, <1>9 DEF Whole
<1>11. Asking(r)'
  BY <1>1, <1>2, <1>3, <1>7, <1>9, <1>10 DEF Asking
<1>12. Writing(r)'
  BY <1>7, <1>9 DEF Writing
<1>13. \A j \in Keys : ~FileOf(r, j)
  BY <1>1 DEF FileOf, Unopened
<1>14. \A s \in Requests \ {r} : UNCHANGED <<step[s], asks[s], key[s], row[s], served[s]>>
  BY <1>1, <1>2, <1>7 DEF CanonTyped
<1> QED
  BY <1>1, <1>8, <1>11, <1>12, <1>13, <1>14, OwnStep

LEMMA PutFailsKeeps == ASSUME CanonInv, NEW r \in Requests, PutFails(r) PROVE CanonInv'
<1> USE DEF PutFails, disk
<1>1. CanonTyped /\ Asking(r)
  BY DEF CanonInv
<1>2. CanonTyped' /\ step'[r] = "done"
  BY <1>1 DEF CanonTyped, Steps
<1>3. Asking(r)' /\ Writing(r)'
  BY <1>1, <1>2 DEF Asking, Writing
<1>4. \A k \in Keys : FileOf(r, k) => FileOf(r, k)'
  BY <1>2 DEF FileOf, Unopened
<1>5. \A s \in Requests \ {r} : UNCHANGED <<step[s], asks[s], key[s], row[s], served[s]>>
  BY <1>1 DEF CanonTyped
<1> QED
  BY <1>2, <1>3, <1>4, <1>5, OwnStep

\* What a request knows is not disturbed by the others' steps.
LEMMA AskingKept ==
  ASSUME CanonInv, NEW s \in Requests, collided \subseteq collided',
         UNCHANGED <<step[s], asks[s], key[s], row[s], served[s]>>
  PROVE  Asking(s)'
<1>1. Asking(s)
  BY DEF CanonInv
<1>2. \A k, w : Whole(k, w)' = Whole(k, w) /\ (Legible(k, w) => Legible(k, w)')
  BY DEF Whole, Legible
<1> QED
  BY <1>1, <1>2 DEF Asking

\* A writer's key, and the file it has under that key's name.
LEMMA Writers ==
  ASSUME CanonInv, NEW s \in Requests, step[s] \in {"writing", "renaming"}
  PROVE  key[s] \in Keys /\ FileOf(fd[s], key[s]) /\ Whole(key[s], row[s])
<1>1. Asking(s) /\ Writing(s)
  BY DEF CanonInv
<1> QED
  BY <1>1, KeysAre DEF Asking, Writing

LEMMA OpenRowKeeps == ASSUME CanonInv, NEW r \in Requests, OpenRow(r) PROVE CanonInv'
<1> DEFINE k == key[r]
<1>00. PICK f \in {IF tmp[k] = None THEN r ELSE tmp[k]} : TRUE
  OBVIOUS
<1>0. /\ step[r] = "opening"
      /\ tmp' = [tmp EXCEPT ![k] = f] /\ text' = [text EXCEPT ![f] = Default]
      /\ collided' = IF tmp[k] = None THEN collided ELSE collided \cup {k}
      /\ fd' = [fd EXCEPT ![r] = f] /\ step' = [step EXCEPT ![r] = "writing"]
      /\ UNCHANGED <<memo, acn, asks, key, row, served>>
  BY <1>00 DEF OpenRow
<1>1. CanonTyped /\ Asking(r) /\ text[Bank] = Corrupt
  BY DEF CanonInv
<1>2. k \in Keys /\ k # None /\ k = CanonicalKey[asks[r]] /\ asks[r] \in Actions
      /\ Whole(k, row[r]) /\ served[r] = None
  BY <1>0, <1>1, KeysAre DEF Asking
<1>3. tmp[k] # None => FileOf(tmp[k], k)
  BY <1>2 DEF CanonInv, Stored
<1>4. f \in Requests
  BY <1>3, <1>00 DEF FileOf
<1>5. \A j : ~FileOf(r, j)
  BY <1>0 DEF FileOf, Unopened
<1>6. \A g, j : FileOf(g, j) => FileOf(g, j)' /\ (g = f => j = k /\ tmp[k] # None)
  <2>1. \A g, j : FileOf(g, j) => FileOf(g, j)'
    BY <1>0, <1>1, <1>5 DEF FileOf, CanonTyped
  <2>2. \A g, j : FileOf(g, j) /\ g = f => j = k /\ tmp[k] # None
    BY <1>3, <1>5, <1>00 DEF FileOf
  <2> QED
    BY <2>1, <2>2
<1>7. FileOf(f, k)'
  <2>1. CASE tmp[k] = None
    BY <1>0, <1>1, <1>00, <2>1 DEF FileOf, CanonTyped, Unopened
  <2>2. CASE tmp[k] # None
    BY <1>0, <1>3, <1>6, <1>00, <2>2 DEF FileOf
  <2> QED
    BY <2>1, <2>2
<1>8. /\ tmp'[k] = f /\ \A j \in Keys \ {k} : tmp'[j] = tmp[j]
      /\ text'[f] = Default /\ \A g \in Requests \cup {Bank} : g # f => text'[g] = text[g]
      /\ fd'[r] = f /\ step'[r] = "writing"
      /\ \A s \in Requests \ {r} : fd'[s] = fd[s] /\ step'[s] = step[s]
  BY <1>0, <1>1, <1>2, <1>4 DEF CanonTyped
<1>9. /\ collided \subseteq collided' /\ collided' \subseteq collided \cup {k}
      /\ tmp[k] # None => k \in collided'
  BY <1>0
<1>10. CanonTyped'
  BY <1>0, <1>1, <1>2, <1>4 DEF CanonTyped, Steps, Rows
<1>11. \A j, w : Whole(j, w)' = Whole(j, w) /\ (Legible(j, w) => Legible(j, w)')
  BY <1>9 DEF Whole, Legible
<1>12. Asking(r)'
  <2>1. Whole(k, row[r])'
    BY <1>0, <1>2 DEF Whole
  <2> QED
    BY <1>0, <1>2, <1>8, <2>1 DEF Asking
<1>13. Writing(r)'
  <2>1. k \notin collided' => f = r
    BY <1>9, <1>00
  <2> QED
    BY <1>0, <1>7, <1>8, <2>1 DEF Writing
<1>14. ASSUME NEW s \in Requests, s # r PROVE Asking(s)' /\ Writing(s)'
  <2>1. Asking(s)'
    <3>1. UNCHANGED <<step[s], asks[s], key[s], row[s], served[s]>>
      BY <1>0, <1>8, <1>14
    <3> QED
      BY <1>9, <3>1, AskingKept
  <2>2. SUFFICES ASSUME step'[s] \in {"writing", "renaming"}
                 PROVE  /\ FileOf(fd[s], key[s])'
                        /\ key[s] \notin collided' =>
                             /\ tmp'[key[s]] = s /\ fd'[s] = s
                             /\ step[s] = "renaming" => Whole(key[s], text'[s])
    BY <1>0, <1>8, <1>11, <1>14, <2>1 DEF Writing, Whole
  <2>3. step[s] \in {"writing", "renaming"} /\ Writing(s)
    BY <1>8, <1>14, <2>2 DEF CanonInv
  <2>4. FileOf(fd[s], key[s])'
    BY <1>0, <1>6, <1>8, <1>14, <2>3 DEF Writing, FileOf
  <2>5. ASSUME key[s] \notin collided' PROVE /\ tmp'[key[s]] = s /\ fd'[s] = s
                                             /\ step[s] = "renaming" => Whole(key[s], text'[s])
    <3>1. /\ tmp[key[s]] = s /\ fd[s] = s /\ FileOf(s, key[s])
          /\ step[s] = "renaming" => Whole(key[s], text[s])
      BY <1>9, <2>3, <2>5 DEF Writing
    <3>2. key[s] # k
      <4>1. SUFFICES ASSUME key[s] = k PROVE FALSE
        OBVIOUS
      <4>2. tmp[k] = s /\ s # None
        BY <3>1, <4>1, CanonicalAssumption
      <4> QED
        BY <1>9, <2>5, <4>1, <4>2
    <3>3. key[s] \in Keys
      BY <2>3, Writers
    <3>4. s # f
      BY <1>6, <3>1, <3>2
    <3> QED
      BY <1>8, <1>14, <3>1, <3>2, <3>3, <3>4
  <2> QED
    BY <2>4, <2>5
<1>15. ASSUME NEW j \in Keys PROVE Stored(j)'
  <2>1. Stored(j)
    BY DEF CanonInv
  <2>2. memo'[j] # None => Whole(j, memo[j])'
    BY <1>0, <2>1 DEF Stored, Whole
  <2>3. tmp'[j] # None => FileOf(tmp[j], j)' /\ (Whole(j, text[tmp[j]])' \/ text'[tmp'[j]] = Default)
    <3>1. CASE j = k
      BY <1>0, <1>7, <1>8, <3>1 DEF FileOf
    <3>2. CASE j # k
      <4>1. tmp'[j] = tmp[j]
        BY <1>8, <3>2
      <4>2. SUFFICES ASSUME tmp[j] # None
                     PROVE  FileOf(tmp[j], j)' /\ (Whole(j, text'[tmp[j]]) \/ text'[tmp[j]] = Default)
        BY <4>1 DEF Whole
      <4>3. FileOf(tmp[j], j) /\ (Whole(j, text[tmp[j]]) \/ text[tmp[j]] = Default)
        BY <2>1, <4>2 DEF Stored
      <4>4. tmp[j] # f /\ tmp[j] \in Requests
        BY <1>6, <3>2, <4>3 DEF FileOf
      <4> QED
        BY <1>6, <1>8, <4>1, <4>3, <4>4 DEF FileOf
    <3> QED
      BY <3>1, <3>2
  <2>4. acn'[j] \notin {None, Bank} => FileOf(acn[j], j)' /\ Legible(j, text[acn[j]])'
    <3>1. SUFFICES ASSUME acn[j] \notin {None, Bank}
                   PROVE  FileOf(acn[j], j)' /\ (Whole(j, text'[acn[j]])
                                                   \/ (text'[acn[j]] = Default /\ j \in collided'))
      BY <1>0 DEF Legible, Whole
    <3>2. FileOf(acn[j], j) /\ Legible(j, text[acn[j]])
      BY <2>1, <3>1 DEF Stored
    <3>3. CASE acn[j] = f
      BY <1>0, <1>6, <1>8, <1>9, <3>2, <3>3 DEF FileOf
    <3>4. CASE acn[j] # f
      BY <1>0, <1>6, <1>8, <1>9, <3>2, <3>4 DEF FileOf, Legible
    <3> QED
      BY <3>3, <3>4
  <2> QED
    BY <2>2, <2>3, <2>4 DEF Stored
<1>16. text'[Bank] = Corrupt
  BY <1>1, <1>4, <1>8, CanonicalAssumption
<1> QED
  BY <1>10, <1>12, <1>13, <1>14, <1>15, <1>16 DEF CanonInv

LEMMA WriteRowKeeps == ASSUME CanonInv, NEW r \in Requests, WriteRow(r) PROVE CanonInv'
<1> DEFINE k == key[r]
           f == fd[r]
<1>0. /\ step[r] = "writing" /\ text' = [text EXCEPT ![f] = row[r]]
      /\ step' = [step EXCEPT ![r] = "renaming"]
      /\ UNCHANGED <<memo, acn, tmp, fd, asks, key, row, served, collided>>
  BY DEF WriteRow
<1>1. CanonTyped /\ Asking(r) /\ Writing(r) /\ text[Bank] = Corrupt
  BY DEF CanonInv
<1>2. k \in Keys /\ FileOf(f, k) /\ Whole(k, row[r]) /\ row[r] \in Rows
  BY <1>0, Writers, WholeRows
<1>3. f \in Requests
  BY <1>2 DEF FileOf
<1>4. /\ text'[f] = row[r] /\ \A g \in Requests \cup {Bank} : g # f => text'[g] = text[g]
      /\ step'[r] = "renaming" /\ \A s \in Requests \ {r} : step'[s] = step[s]
  BY <1>0, <1>1, <1>3 DEF CanonTyped
<1>5. \A g, j : FileOf(g, j) => /\ FileOf(g, j)' /\ g \in Requests
                                /\ \/ g # f
                                   \/ j = k
  BY <1>0, <1>2, <1>4 DEF FileOf, Unopened
<1>6. \A g, j : FileOf(g, j) => text'[g] = text[g] \/ Whole(j, text'[g])
  BY <1>2, <1>4, <1>5
<1>7. CanonTyped'
  BY <1>0, <1>1, <1>2, <1>3 DEF CanonTyped, Steps
<1>8. \A s \in Requests \ {r} : Asking(s)'
  <2> TAKE s \in Requests \ {r}
  <2>1. UNCHANGED <<step[s], asks[s], key[s], row[s], served[s]>>
    BY <1>0, <1>4
  <2> QED
    BY <1>0, <2>1, AskingKept
<1>9. Asking(r)'
  <2>1. Whole(k, row[r])'
    BY <1>0, <1>2 DEF Whole
  <2> QED
    BY <1>0, <1>1, <1>4, <2>1 DEF Asking
<1>10. ASSUME NEW s \in Requests PROVE Writing(s)'
  <2>1. SUFFICES ASSUME step'[s] \in {"writing", "renaming"}
                 PROVE  /\ FileOf(fd[s], key[s])'
                        /\ key[s] \notin collided =>
                             /\ tmp[key[s]] = s /\ fd[s] = s
                             /\ step'[s] = "renaming" => Whole(key[s], text'[s])
    BY <1>0 DEF Writing, Whole
  <2>2. step[s] \in {"writing", "renaming"} /\ Writing(s)
    BY <1>0, <1>4, <2>1 DEF CanonInv
  <2>3. FileOf(fd[s], key[s])'
    BY <1>0, <1>5, <2>2 DEF Writing, FileOf
  <2>4. ASSUME key[s] \notin collided, step'[s] = "renaming" PROVE Whole(key[s], text'[s])
    <3>1. fd[s] = s /\ FileOf(s, key[s])
      BY <2>2, <2>4 DEF Writing
    <3>2. CASE s = r
      BY <1>2, <1>4, <3>1, <3>2
    <3>3. CASE s # r
      BY <1>4, <1>6, <2>2, <2>4, <3>1, <3>3 DEF Writing
    <3> QED
      BY <3>2, <3>3
  <2> QED
    BY <2>2, <2>3, <2>4 DEF Writing
<1>11. ASSUME NEW j \in Keys PROVE Stored(j)'
  <2>1. Stored(j)
    BY DEF CanonInv
  <2>2. memo'[j] # None => Whole(j, memo[j])'
    BY <1>0, <2>1 DEF Stored, Whole
  <2>3. tmp'[j] # None => FileOf(tmp[j], j)' /\ (Whole(j, text[tmp[j]])' \/ text'[tmp'[j]] = Default)
    BY <1>0, <1>5, <1>6, <2>1 DEF Stored, Whole, FileOf
  <2>4. acn'[j] \notin {None, Bank} => FileOf(acn[j], j)' /\ Legible(j, text[acn[j]])'
    BY <1>0, <1>5, <1>6, <2>1 DEF Stored, Whole, Legible, FileOf
  <2> QED
    BY <2>2, <2>3, <2>4 DEF Stored
<1>12. text'[Bank] = Corrupt
  BY <1>1, <1>3, <1>4, CanonicalAssumption
<1> QED
  BY <1>7, <1>8, <1>9, <1>10, <1>11, <1>12 DEF CanonInv

LEMMA RenameRowKeeps == ASSUME CanonInv, NEW r \in Requests, RenameRow(r) PROVE CanonInv'
<1> DEFINE k == key[r]
<1>00. PICK f \in {tmp[k]} : TRUE
  OBVIOUS
<1>0. /\ step[r] = "renaming" /\ f # None
      /\ acn' = [acn EXCEPT ![k] = f] /\ tmp' = [tmp EXCEPT ![k] = None]
      /\ step' = [step EXCEPT ![r] = "memoizing"]
      /\ UNCHANGED <<memo, text, fd, asks, key, row, served, collided>>
  BY <1>00 DEF RenameRow
<1>1. CanonTyped /\ Asking(r) /\ Writing(r) /\ text[Bank] = Corrupt
  BY DEF CanonInv
<1>2. k \in Keys /\ Whole(k, row[r])
  BY <1>0, Writers
<1>3. FileOf(f, k) /\ f \in Requests /\ (Whole(k, text[f]) \/ text[f] = Default)
  BY <1>0, <1>2, <1>00 DEF CanonInv, Stored, FileOf
<1>4. k \notin collided => f = r /\ Whole(k, text[f])
  BY <1>0, <1>1, <1>00 DEF Writing
<1>5. /\ acn'[k] = f /\ \A j \in Keys \ {k} : acn'[j] = acn[j] /\ tmp'[j] = tmp[j]
      /\ tmp'[k] = None
      /\ step'[r] = "memoizing" /\ \A s \in Requests \ {r} : step'[s] = step[s]
  BY <1>0, <1>1, <1>2 DEF CanonTyped
<1>6. CanonTyped'
  BY <1>0, <1>1, <1>2, <1>3 DEF CanonTyped, Steps
<1>7. \A g, j : FileOf(g, j) => FileOf(g, j)'
  BY <1>0, <1>5 DEF FileOf, Unopened
<1>8. \A s \in Requests \ {r} : Asking(s)'
  <2> TAKE s \in Requests \ {r}
  <2>1. UNCHANGED <<step[s], asks[s], key[s], row[s], served[s]>>
    BY <1>0, <1>5
  <2> QED
    BY <1>0, <2>1, AskingKept
<1>9. Asking(r)'
  <2>1. Whole(k, row[r])'
    BY <1>0, <1>2 DEF Whole
  <2> QED
    BY <1>0, <1>1, <1>5, <2>1 DEF Asking
<1>10. Writing(r)'
  BY <1>5 DEF Writing
<1>11. ASSUME NEW s \in Requests, s # r PROVE Writing(s)'
  <2>1. SUFFICES ASSUME step[s] \in {"writing", "renaming"}
                 PROVE  /\ FileOf(fd[s], key[s])'
                        /\ key[s] \notin collided =>
                             /\ tmp'[key[s]] = s /\ fd[s] = s
                             /\ step[s] = "renaming" => Whole(key[s], text[s])
    BY <1>0, <1>5, <1>11 DEF Writing, Whole
  <2>2. Writing(s) /\ key[s] \in Keys
    BY <2>1, Writers DEF CanonInv
  <2>3. FileOf(fd[s], key[s])'
    BY <1>0, <1>7, <2>1, <2>2 DEF Writing, FileOf
  <2>4. key[s] \notin collided => tmp'[key[s]] = s
    <3>1. key[s] = k /\ k \notin collided => tmp[k] = s /\ tmp[k] = r
      BY <1>4, <1>00, <2>1, <2>2 DEF Writing
    <3>2. key[s] # k => tmp'[key[s]] = tmp[key[s]]
      BY <1>5, <2>2
    <3> QED
      BY <1>11, <2>1, <2>2, <3>1, <3>2 DEF Writing
  <2> QED
    BY <2>1, <2>2, <2>3, <2>4 DEF Writing
<1>12. ASSUME NEW j \in Keys PROVE Stored(j)'
  <2>1. Stored(j)
    BY DEF CanonInv
  <2>2. memo'[j] # None => Whole(j, memo[j])'
    BY <1>0, <2>1 DEF Stored, Whole
  <2>3. tmp'[j] # None => FileOf(tmp[j], j)' /\ (Whole(j, text[tmp[j]])' \/ text'[tmp'[j]] = Default)
    <3>1. SUFFICES ASSUME tmp'[j] # None PROVE tmp'[j] = tmp[j]
      BY <1>0, <1>7, <2>1 DEF Stored, Whole, FileOf
    <3> QED
      BY <1>5, <3>1
  <2>4. acn'[j] \notin {None, Bank} => FileOf(acn[j], j)' /\ Legible(j, text[acn[j]])'
    <3>1. CASE j = k
      <4>1. FileOf(f, k)'
        BY <1>0, <1>3, <1>7 DEF FileOf
      <4>2. Legible(k, text[f])
        BY <1>3, <1>4 DEF Legible
      <4> QED
        BY <1>0, <1>5, <3>1, <4>1, <4>2 DEF Legible, Whole, FileOf
    <3>2. CASE j # k
      <4>1. acn'[j] = acn[j]
        BY <1>5, <3>2
      <4> QED
        BY <1>0, <1>7, <2>1, <4>1 DEF Stored, Legible, Whole, FileOf
    <3> QED
      BY <3>1, <3>2
  <2> QED
    BY <2>2, <2>3, <2>4 DEF Stored
<1> QED
  BY <1>0, <1>1, <1>6, <1>8, <1>9, <1>10, <1>11, <1>12 DEF CanonInv

LEMMA MemoizeKeeps == ASSUME CanonInv, NEW r \in Requests, Memoize(r) PROVE CanonInv'
<1> DEFINE k == key[r]
<1>0. /\ step[r] = "memoizing" /\ memo' = [memo EXCEPT ![k] = row[r]]
      /\ step' = [step EXCEPT ![r] = "done"]
      /\ UNCHANGED <<acn, tmp, text, fd, asks, key, row, served, collided>>
  BY DEF Memoize, disk
<1>1. CanonTyped /\ Asking(r) /\ text[Bank] = Corrupt
  BY DEF CanonInv
<1>2. k \in Keys /\ Whole(k, row[r]) /\ row[r] \in Rows
  BY <1>0, <1>1, KeysAre, WholeRows DEF Asking
<1>3. /\ memo'[k] = row[r] /\ \A j \in Keys \ {k} : memo'[j] = memo[j]
      /\ step'[r] = "done" /\ \A s \in Requests \ {r} : step'[s] = step[s]
  BY <1>0, <1>1, <1>2 DEF CanonTyped
<1>4. CanonTyped'
  BY <1>0, <1>1, <1>2 DEF CanonTyped, Steps
<1>5. \A g, j : FileOf(g, j) => FileOf(g, j)'
  BY <1>0, <1>3 DEF FileOf, Unopened
<1>6. \A s \in Requests \ {r} : Asking(s)'
  <2> TAKE s \in Requests \ {r}
  <2>1. UNCHANGED <<step[s], asks[s], key[s], row[s], served[s]>>
    BY <1>0, <1>3
  <2> QED
    BY <1>0, <2>1, AskingKept
<1>7. Asking(r)' /\ Writing(r)'
  BY <1>0, <1>1, <1>3 DEF Asking, Writing
<1>8. ASSUME NEW s \in Requests, s # r PROVE Writing(s)'
  <2>1. Writing(s)
    BY DEF CanonInv
  <2> QED
    BY <1>0, <1>3, <1>5, <1>8, <2>1 DEF Writing, Whole, FileOf
<1>9. ASSUME NEW j \in Keys PROVE Stored(j)'
  <2>1. Stored(j)
    BY DEF CanonInv
  <2>2. memo'[j] # None => Whole(j, memo[j])'
    BY <1>0, <1>2, <1>3, <2>1 DEF Stored, Whole
  <2> QED
    BY <1>0, <1>5, <2>1, <2>2 DEF Stored, Whole, Legible, FileOf
<1> QED
  BY <1>0, <1>1, <1>4, <1>6, <1>7, <1>8, <1>9 DEF CanonInv

LEMMA RestartKeeps == ASSUME CanonInv, Restart PROVE CanonInv'
<1> USE DEF Restart
<1>1. CanonTyped /\ text[Bank] = Corrupt
  BY DEF CanonInv
<1>2. \A r \in Requests : step'[r] = IF step[r] = "new" THEN "new" ELSE "done"
  OBVIOUS
<1>3. CanonTyped'
  BY <1>1 DEF CanonTyped, Steps
<1>4. \A g, j : FileOf(g, j) => FileOf(g, j)'
  BY <1>2 DEF FileOf, Unopened
<1>5. ASSUME NEW r \in Requests PROVE Asking(r)' /\ Writing(r)'
  <2>1. Asking(r)
    BY DEF CanonInv
  <2>2. Asking(r)'
    BY <1>2, <2>1 DEF Asking, Legible, Whole
  <2>3. Writing(r)'
    BY <1>2 DEF Writing
  <2> QED
    BY <2>2, <2>3
<1>6. ASSUME NEW k \in Keys PROVE Stored(k)'
  <2>1. Stored(k) /\ memo'[k] = None /\ tmp'[k] = None
    BY DEF CanonInv
  <2> QED
    BY <1>4, <2>1 DEF Stored, Whole, Legible, FileOf
<1> QED
  BY <1>1, <1>3, <1>5, <1>6 DEF CanonInv

LEMMA CanonIdle == ASSUME CanonInv, UNCHANGED canonVars PROVE CanonInv'
<1>1. UNCHANGED <<memo, acn, tmp, text, fd, step, asks, key, row, served, collided>>
  BY DEF canonVars
<1> QED
  BY <1>1 DEF CanonInv, CanonTyped, Asking, Writing, Stored, FileOf, Legible, Whole

LEMMA CanonStep == ASSUME CanonInv, [CanonNext]_canonVars PROVE CanonInv'
<1>1. CASE UNCHANGED canonVars
  BY <1>1, CanonIdle
<1>2. CASE Restart
  BY <1>2, RestartKeeps
<1>3. ASSUME NEW r \in Requests,
             \/ Enter(r) \/ MakeKey(r) \/ Probe(r) \/ Check(r) \/ RunAction(r)
             \/ OpenRow(r) \/ WriteRow(r) \/ RenameRow(r) \/ Memoize(r) \/ PutFails(r)
      PROVE  CanonInv'
  BY <1>3, EnterKeeps, MakeKeyKeeps, ProbeKeeps, CheckKeeps, RunActionKeeps, OpenRowKeeps,
     WriteRowKeeps, RenameRowKeeps, MemoizeKeeps, PutFailsKeeps
<1> QED
  BY <1>1, <1>2, <1>3 DEF CanonNext

LEMMA CanonInvHolds == CanonSpec => []CanonInv
<1>1. CanonInv /\ [CanonNext]_canonVars => CanonInv'
  BY CanonStep
<1> QED
  BY <1>1, CanonStarts, PTL DEF CanonSpec

\* A hit's row is one of the requester's own key, so what stands in it was made by
\* an action that the key could not tell from the requester's.
LEMMA HitsAreTwins == CanonInv => CanonicalHitsAreTwins
<1> SUFFICES ASSUME CanonInv, NEW r \in Requests, served[r] # None,
                    ~(served[r] = Default /\ key[r] \in collided)
             PROVE  \E b \in Actions :
                      /\ served[r].by = b
                      /\ \/ /\ Work(asks[r]) = Work(b) /\ Platform[asks[r]] = Platform[b]
                            /\ served[r] = Under(Made(b), Declared[asks[r]])
                         \/ Platform[asks[r]] # Platform[b]
                         \/ \/ Len(Args[asks[r]]) # Len(Args[b])
                            \/ Len(Declared[asks[r]]) # Len(Declared[b])
                         \/ Deep(asks[r]) # Deep(b)
                         \/ ~IsInjective(NormalLines(Declared[asks[r]]))
  BY DEF CanonicalHitsAreTwins
<1> DEFINE a == asks[r]
<1>1. Asking(r)
  BY DEF CanonInv
<1>2. a \in Actions /\ key[r] # None /\ key[r] = CanonicalKey[a]
  BY <1>1 DEF Asking
<1>3. PICK w \in Rows : Legible(key[r], w) /\ served[r] = Rewritten(w, a)
  BY <1>1 DEF Asking
<1>4. Whole(key[r], w)
  BY <1>2, <1>3, DefaultAsIs DEF Legible
<1>5. PICK b \in Actions : CanonicalKey[b] = key[r] /\ w = NormalResult(Made(b))
  BY <1>4 DEF Whole
<1>6. served[r].by = b
  <2> DEFINE n == NormalResult(Made(b))
  <2>1. \A x, y : Under(x, y).by = x.by
    BY DEF Under
  <2>2. n.by = Made(b).by /\ Rewritten(n, a).by = n.by
    BY <2>1 DEF NormalResult, Rewritten
  <2>3. Made(b).by = b
    BY DEF Made
  <2> HIDE DEF n
  <2> QED
    BY <1>3, <1>5, <2>2, <2>3 DEF n
<1> HIDE DEF a
<1>7. ASSUME Platform[a] = Platform[b], Len(Args[a]) = Len(Args[b]),
             Len(Declared[a]) = Len(Declared[b]), Deep(a) = Deep(b),
             IsInjective(NormalLines(Declared[a]))
      PROVE  Work(a) = Work(b) /\ served[r] = Under(Made(b), Declared[a])
  <2>1. Work(a) = Work(b)
    BY <1>2, <1>5, <1>7, SameKeySameWork
  <2>2. Rewritten(NormalResult(Made(b)), a) = Under(Made(b), Declared[a])
    BY <1>2, <1>5, <1>7, ServedAlike
  <2> QED
    BY <1>3, <1>5, <2>1, <2>2
<1> QED
  BY <1>6, <1>7 DEF a

\* What a canonical hit serves is what the requester's own run would have given
\* (canonical_probe, canonical_key, normalize_result, rewrite_result).
THEOREM CanonicalHitsShareWork == CanonSpec => []CanonicalHitsAreTwins
<1> QED
  BY CanonInvHolds, HitsAreTwins, PTL
=============================================================================
