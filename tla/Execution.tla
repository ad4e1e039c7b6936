----------------------------- MODULE Execution -----------------------------
(* run_action (exec.rs): how a process stages the input tree of an action,  *)
(* runs its command and collects the outputs.  The commands of one crate    *)
(* (its emit flavours) run in one canonical directory, the same on every    *)
(* machine and in every run, because absolute paths leak into their         *)
(* outputs; so that directory is shared mutable state.                      *)
(*                                                                          *)
(* crate_lock is of one process: two processes of a machine that make calls *)
(* of one crate meet in its directory.  The driver's affinity seldom lets   *)
(* them, but does: what it runs itself records no owner, and a worker that  *)
(* it has dropped goes on with what it runs.  A file goes by its name and   *)
(* the call that put it there.  Where blobs come from is BlobRouting's;     *)
(* getting one may fail.                                                    *)
EXTENDS Integers, FiniteSets

CONSTANTS
  Tasks,        \* calls of run_action
  Procs,        \* processes that make them: workers, the driver's fallback
  Box,          \* Box[p]: the machine p runs on
  Crate,        \* Crate[t]: crate_affinity_key of t's command, or Nil if it has no key
  Nil,          \* no such thing
  Inputs,       \* Inputs[t]: the files of its input tree
  Outs,         \* Outs[t]: its declared output paths
  Dirs,         \* bound: the directories there can be at a time
  Slots,        \* how many calls a process makes at a time
  MaxDeaths     \* bound: how many processes die

Crates == {Crate[t] : t \in Tasks} \ {Nil}
Boxes  == {Box[p] : p \in Procs}
Paths  == Boxes \X Crates

ASSUME ExecutionAssumption ==
  /\ Nil \notin Tasks \cup Procs \cup Dirs
  /\ Crate \in [Tasks -> Crates \cup {Nil}]
  /\ \A t \in Tasks : Inputs[t] \cap Outs[t] = {}
  /\ Slots \in Nat \ {0}
  /\ MaxDeaths \in Nat

VARIABLES
  stage,      \* where each call is
  host,       \* host[t]: the process that makes it, or Nil before it began
  place,      \* place[b, k]: the directory under crate k's canonical path on box b
  bin,        \* bin[b, k]: what was renamed aside, by the number in its name
  files,      \* files[d]: what is in directory d
  linked,     \* linked[t]: the inputs that t has staged
  cwd,        \* cwd[t]: the directory t's command works in
  serial,     \* TRASH_SEQ of each process
  deaths,     \* how many processes have died
  taken,      \* taken[t]: what was collected
  soiled,     \* for the properties only: calls that went on after an incomplete deletion,
  met         \* and those that had a lock while another process had one for the same path

execVars == <<stage, host, place, bin, files, linked, cwd, serial, deaths, taken, soiled, met>>

Keyed(t)    == Crate[t] # Nil
Where(t)    == <<Box[host[t]], Crate[t]>>
Put(n, t)   == [name |-> n, by |-> t]
Working     == {"locking", "clearing", "deleting", "making", "staging", "running",
                "collecting", "leaving"}
\* The stages in which a call holds its crate's lock: the guard lives until
\* run_action returns, after the directory was reclaimed.
\* Mutant: it is dropped when the outputs are in.
HoldingBriefly == {"clearing", "deleting", "making", "staging", "running", "collecting"}
Holding        == {"clearing", "deleting", "making", "staging", "running", "collecting", "leaving"}
\* The directory t's paths lead to, or Nil.
Root(t)     == IF Keyed(t) THEN place[Where(t)] ELSE cwd[t]
Users(d)    == {t \in Tasks : \/ stage[t] \in {"running", "orphan"} /\ cwd[t] = d
                              \/ stage[t] \in {"staging", "collecting"} /\ Root(t) = d}
Named(d)    == \E bk \in Paths : place[bk] = d \/ \E e \in bin[bk] : e.dir = d
Free(d)     == ~Named(d) /\ \A t \in Tasks : cwd[t] = d => stage[t] = "ended"
GoTo(t, to) == stage' = [stage EXCEPT ![t] = to]

\* Earlier runs may have left a directory under the path, and what they renamed
\* aside under the first number.
Leftovers == {Put(n, Nil) : n \in UNION {Inputs[t] \cup Outs[t] : t \in Tasks}}

ExecInit ==
  /\ stage = [t \in Tasks |-> "new"]
  /\ host = [t \in Tasks |-> Nil]
  /\ \E trash \in [Paths -> Dirs \cup {Nil}] :
       /\ place \in [Paths -> Dirs \cup {Nil}]
       /\ \A bk, other \in Paths : place[bk] # Nil =>
            place[bk] # trash[other] /\ (bk # other => place[bk] # place[other])
       /\ bin = [bk \in Paths |-> IF trash[bk] = Nil THEN {}
                                  ELSE {[no |-> 0, dir |-> trash[bk], by |-> Nil]}]
       /\ files = [d \in Dirs |-> IF \E bk \in Paths : d \in {place[bk], trash[bk]}
                                 THEN Leftovers ELSE {}]
  /\ linked = [t \in Tasks |-> {}]
  /\ cwd = [t \in Tasks |-> Nil]
  /\ serial = [p \in Procs |-> 0]
  /\ deaths = 0
  /\ taken = [t \in Tasks |-> {}]
  /\ soiled = {} /\ met = {}

-----------------------------------------------------------------------------
(* Preparing the directory                                                 *)

\* The process has a slot, and action, command and input root were read.  A
\* call without a key has a new directory of its own.
Begin(t, p) ==
  /\ stage[t] = "new"
  /\ Cardinality({u \in Tasks : host[u] = p /\ stage[u] \in Working}) < Slots
  /\ host' = [host EXCEPT ![t] = p]
  /\ \/ /\ Keyed(t)
        /\ GoTo(t, "locking")
        /\ UNCHANGED <<cwd, files>>
     \/ /\ ~Keyed(t)
        /\ GoTo(t, "staging")
        /\ \E d \in Dirs : /\ Free(d)
                           /\ cwd' = [cwd EXCEPT ![t] = d]
                           /\ files' = [files EXCEPT ![d] = {}]
  /\ UNCHANGED <<place, bin, linked, serial, deaths, taken, soiled, met>>

\* crate_lock: one call of a crate at a time in this process, whatever the
\* other processes do.
Lock(t) ==
  /\ stage[t] = "locking"
  /\ \A u \in Tasks : Crate[u] = Crate[t] /\ host[u] = host[t] => stage[u] \notin Holding
  /\ GoTo(t, "clearing")
  /\ LET others == {u \in Tasks : stage[u] \in Holding /\ Where(u) = Where(t)}
     IN  met' = IF others = {} THEN met ELSE met \cup others \cup {t}
  /\ UNCHANGED <<host, place, bin, files, linked, cwd, serial, deaths, taken, soiled>>

\* What is there is renamed aside under the next number; the rename fails if
\* something is left under that name, or (where open handles pin a directory)
\* if somebody still works in it.
Clear(t) ==
  LET old == place[Where(t)]
      n   == serial[host[t]]
      full == \E e \in bin[Where(t)] : e.no = n /\ files[e.dir] # {}
  IN /\ stage[t] = "clearing"
     /\ serial' = [serial EXCEPT ![host[t]] = n + 1]
     /\ \/ /\ old = Nil
           /\ GoTo(t, "making")
           /\ UNCHANGED <<place, bin>>
        \/ /\ old # Nil /\ ~full
           /\ bin' = [bin EXCEPT ![Where(t)] =
                {e \in @ : e.no # n} \cup {[no |-> n, dir |-> old, by |-> host[t]]}]
           /\ place' = [place EXCEPT ![Where(t)] = Nil]
           /\ GoTo(t, "making")
        \/ /\ old # Nil /\ (full \/ Users(old) # {})
           /\ GoTo(t, "deleting")
           /\ UNCHANGED <<place, bin>>
     /\ UNCHANGED <<host, files, linked, cwd, deaths, taken, soiled, met>>

\* remove_dir_all of a path: a command that works in the directory can fill
\* what is being emptied, so that something stays, and the directory with it.
RemoveDir(bk) ==
  LET d == place[bk]
  IN \E left \in SUBSET files[d] :
       /\ files' = [files EXCEPT ![d] = left]
       /\ \/ left = {} /\ place' = [place EXCEPT ![bk] = Nil]
          \/ Users(d) # {} /\ UNCHANGED place

\* The fallback deletes in place and ignores that it may not get through.
DeleteInline(t) ==
  /\ stage[t] = "deleting"
  /\ IF Root(t) = Nil THEN UNCHANGED <<files, place>> ELSE RemoveDir(Where(t))
  /\ soiled' = IF place'[Where(t)] = Nil THEN soiled ELSE soiled \cup {t}
  /\ GoTo(t, "making")
  /\ UNCHANGED <<host, bin, linked, cwd, serial, deaths, taken, met>>

\* create_dir_all: a new directory unless there is one.
CreateDir(bk) ==
  IF place[bk] = Nil
    THEN \E d \in Dirs : /\ Free(d)
                         /\ place' = [place EXCEPT ![bk] = d]
                         /\ files' = [files EXCEPT ![d] = {}]
    ELSE UNCHANGED <<place, files>>

MakeDir(t) ==
  /\ stage[t] = "making"
  /\ CreateDir(Where(t))
  /\ GoTo(t, "staging")
  /\ UNCHANGED <<host, bin, linked, cwd, serial, deaths, taken, soiled, met>>

\* The task that remove_dir_all was spawned on; it ends with its process.
Sweep(bk) ==
  /\ \E e \in bin[bk] :
       /\ e.by # Nil
       /\ \E left \in SUBSET files[e.dir] :
            /\ files' = [files EXCEPT ![e.dir] = left]
            /\ \/ left = {} /\ bin' = [bin EXCEPT ![bk] = @ \ {e}]
               \/ /\ Users(e.dir) # {}
                  /\ bin' = [bin EXCEPT ![bk] = (@ \ {e}) \cup {[e EXCEPT !.by = Nil]}]
  /\ UNCHANGED <<stage, host, place, linked, cwd, serial, deaths, taken, soiled, met>>

-----------------------------------------------------------------------------
(* Staging, running, collecting                                            *)

\* materialize links one file of the input tree, replacing what has its name.
Stage(t) ==
  /\ stage[t] = "staging" /\ Root(t) # Nil
  /\ \E n \in Inputs[t] \ linked[t] :
       /\ files' = [files EXCEPT ![Root(t)] = {f \in @ : f.name # n} \cup {Put(n, t)}]
       /\ linked' = [linked EXCEPT ![t] = @ \cup {n}]
  /\ UNCHANGED <<stage, host, place, bin, cwd, serial, deaths, taken, soiled, met>>

\* Before the first file and after the last one directories are made, the root
\* with them if another process took it away.
MakeAgain(t) ==
  /\ stage[t] = "staging" /\ Root(t) = Nil
  /\ linked[t] \in {{}, Inputs[t]}
  /\ CreateDir(Where(t))
  /\ UNCHANGED <<stage, host, bin, linked, cwd, serial, deaths, taken, soiled, met>>

\* Mutant: the command is not told where to run.
RunUnentered(t) ==
  /\ stage[t] = "staging" /\ Root(t) # Nil
  /\ linked[t] = Inputs[t]
  /\ GoTo(t, "running")
  /\ UNCHANGED <<host, place, bin, files, linked, cwd, serial, deaths, taken, soiled, met>>

Run(t) ==
  /\ stage[t] = "staging" /\ Root(t) # Nil
  /\ linked[t] = Inputs[t]
  /\ cwd' = [cwd EXCEPT ![t] = Root(t)]
  /\ GoTo(t, "running")
  /\ UNCHANGED <<host, place, bin, files, linked, serial, deaths, taken, soiled, met>>

\* The command writes an output where it works, also when nobody waits for it,
\* unless the directory was deleted under it.
Produce(t) ==
  /\ stage[t] \in {"running", "orphan"}
  /\ Keyed(t) => Named(cwd[t])
  /\ \E n \in Outs[t] :
       files' = [files EXCEPT ![cwd[t]] = {f \in @ : f.name # n} \cup {Put(n, t)}]
  /\ UNCHANGED <<stage, host, place, bin, linked, cwd, serial, deaths, taken, soiled, met>>

\* It ends with whatever exit code and outputs.
Exit(t) ==
  /\ stage[t] \in {"running", "orphan"}
  /\ GoTo(t, IF stage[t] = "running" THEN "collecting" ELSE "ended")
  /\ UNCHANGED <<host, place, bin, files, linked, cwd, serial, deaths, taken, soiled, met>>

\* The declared outputs that are there become blobs; those that are not are
\* left out of the result.
Collect(t) ==
  /\ stage[t] = "collecting"
  /\ taken' = [taken EXCEPT ![t] =
       IF Root(t) = Nil THEN {} ELSE {f \in files[Root(t)] : f.name \in Outs[t]}]
  /\ GoTo(t, "leaving")
  /\ UNCHANGED <<host, place, bin, files, linked, cwd, serial, deaths, soiled, met>>

\* The directory is reclaimed, or is not (the scratch is kept, the deletion
\* fails), and the result is returned.
Leave(t) ==
  /\ stage[t] = "leaving"
  /\ GoTo(t, "ended")
  /\ \/ Keyed(t) /\ UNCHANGED <<files, place>>
     \/ Keyed(t) /\ Root(t) # Nil /\ RemoveDir(Where(t))
     \/ ~Keyed(t) /\ files' = [files EXCEPT ![cwd[t]] = {}] /\ UNCHANGED place
  /\ UNCHANGED <<host, bin, linked, cwd, serial, deaths, taken, soiled, met>>

\* A directory cannot be made, an input not be had, an output not be uploaded:
\* the error is returned, a directory of its own goes and the canonical one
\* stays as it is.
Fail(t) ==
  /\ stage[t] \in {"making", "staging", "collecting"}
  /\ GoTo(t, "ended")
  /\ files' = IF Keyed(t) THEN files ELSE [files EXCEPT ![cwd[t]] = {}]
  /\ UNCHANGED <<host, place, bin, linked, cwd, serial, deaths, taken, soiled, met>>

\* The process dies and another takes its place; what it spawned may go on.
Die(p) ==
  /\ deaths < MaxDeaths
  /\ \E t \in Tasks : host[t] = p /\ stage[t] \in Working
  /\ deaths' = deaths + 1
  /\ serial' = [serial EXCEPT ![p] = 0]
  /\ \E survivors \in SUBSET {t \in Tasks : host[t] = p /\ stage[t] = "running"} :
       stage' = [t \in Tasks |-> IF host[t] = p /\ stage[t] \in Working
                                 THEN IF t \in survivors THEN "orphan" ELSE "ended"
                                 ELSE stage[t]]
  /\ bin' = [bk \in Paths |->
       {IF e.by = p THEN [e EXCEPT !.by = Nil] ELSE e : e \in bin[bk]}]
  /\ UNCHANGED <<host, place, files, linked, cwd, taken, soiled, met>>

ExecNext ==
  \/ \E t \in Tasks :
       \/ \E p \in Procs : Begin(t, p)
       \/ Lock(t) \/ Clear(t) \/ DeleteInline(t) \/ MakeDir(t)
       \/ Stage(t) \/ MakeAgain(t) \/ Run(t) \/ Produce(t) \/ Exit(t)
       \/ Collect(t) \/ Leave(t) \/ Fail(t)
  \/ \E bk \in Paths : Sweep(bk)
  \/ \E p \in Procs : Die(p)

ExecSpec == ExecInit /\ [][ExecNext]_execVars

-----------------------------------------------------------------------------
(* Properties                                                              *)

Files == [name : UNION {Inputs[t] \cup Outs[t] : t \in Tasks}, by : Tasks \cup {Nil}]

ExecTypeOK ==
  /\ stage \in [Tasks -> Working \cup {"new", "orphan", "ended"}]
  /\ host \in [Tasks -> Procs \cup {Nil}]
  /\ place \in [Paths -> Dirs \cup {Nil}]
  /\ bin \in [Paths -> SUBSET [no : Nat, dir : Dirs, by : Procs \cup {Nil}]]
  /\ files \in [Dirs -> SUBSET Files]
  /\ linked \in [Tasks -> SUBSET UNION {Inputs[t] : t \in Tasks}]
  /\ cwd \in [Tasks -> Dirs \cup {Nil}]
  /\ serial \in [Procs -> Nat]
  /\ deaths \in 0 .. MaxDeaths
  /\ taken \in [Tasks -> SUBSET Files]
  /\ soiled \subseteq Tasks /\ met \subseteq Tasks
  /\ \A t \in Tasks : /\ stage[t] \in Working => host[t] # Nil
                      /\ stage[t] \in {"running", "orphan"} => cwd[t] # Nil

\* While t's command runs its directory is the one its paths lead to, holds its
\* whole input tree and nothing that another call, dead, failed or gone before,
\* put there; and what is collected is its own.
RunsAlone(t) ==
  /\ \A f \in taken[t] : f.by = t
  /\ stage[t] \in {"running", "collecting"} =>
       /\ Root(t) = cwd[t]
       /\ \A f \in files[cwd[t]] : f.by = t
       /\ \A n \in Inputs[t] : Put(n, t) \in files[cwd[t]]

\* "Affinity routing pins a key to one process, so an in-process lock suffices (a
\* usurped owner's old action is already dead)": the commands of a crate share a
\* directory one after the other and never see each other - unless the directory
\* could not be cleared, which run_action ignores.
CommandsRunAlone == \A t \in Tasks \ soiled : RunsAlone(t)

\* That is so for every call that no other process meets: whatever earlier calls,
\* dead processes and the commands that survive them left or still do, and
\* whichever of the steps of cleaning up after them comes late or fails.
LoneCommandsRunAlone == \A t \in Tasks \ (soiled \cup met) : RunsAlone(t)
=============================================================================
