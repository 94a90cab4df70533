------------------------------ MODULE Replacer ------------------------------
(***************************************************************************)
(* UnionReplacer (src/src/replacer): prepare stops the processes that have *)
(* open files, a working directory or mapped files below detect_path and   *)
(* notes what they have; run makes each of them open the same files on the *)
(* other mount, with code that is put into the process and run there       *)
(* (ptrace/mod.rs); dropping the replacers lets the processes go.  The     *)
(* main thread of toda does this while all other processes run.            *)
(*                                                                         *)
(* A file below detect_path is on the mount "old" when the replacers start *)
(* and is opened again on "new".  A descriptor has a mount and a position. *)
(***************************************************************************)
EXTENDS Ptrace

CONSTANTS
  Fds,        \* the descriptors a process may have
  Uses        \* what a process may have open, mapped and as its directory

Closed == [on |-> "none", pos |-> 0]

Desc == [on : {"none", "old", "new"}, pos : 0..1]

Use == [fds : [Fds -> Desc], cwd : {"old", "new", "out"}, maps : {"none", "old", "elsewhere"}]

ASSUME ReplacerAssumption ==
  /\ Fds \subseteq Nat /\ (Fds = {} \/ \E max \in Fds : \A f \in Fds : f <= max)
  /\ Uses \subseteq Use

VARIABLES
  fds,      \* each process's descriptors
  cwd,      \* the mount of its working directory
  maps,     \* the file it has mapped: on the mount "old", gone, or mapped "elsewhere"
  regs,     \* whose registers and code the leader has
  scratch,  \* processes with the memory that holds toda's code
  pc, stage,
  todo,     \* processes the present replacer has still to see
  kept,     \* the processes each replacer holds a TracedProcess of
  cases,    \* the descriptors noted for FdReplacer
  refused,  \* <<process, descriptor>> whose open at the new place failed
  result    \* of UnionReplacer::run

files == <<fds, cwd, maps>>
injected == <<regs, scratch>>
found == <<kept, cases>>
outcome == <<refused, result>>
vars == <<ptrace, files, injected, pc, stage, todo, found, outcome>>

Stages == {"fd", "cwd", "map"}

Order == [fd |-> 1, cwd |-> 2, map |-> 3]

After == [fd |-> "cwd", cwd |-> "map", map |-> "fd"]

cur == job.pid

(* The descriptors FdReplacer::prepare would note now. *)
OldFds(p) == {f \in Fds : fds[p][f].on = "old"}

Exists(p) == Listed(p) # {}

(* /proc/<pid>/fd, cwd and maps of a zombie cannot be read. *)
Readable(p) == thread[Leader(p)] \in {"run", "stop"}

TypeOK ==
  /\ PtraceTypeOK
  /\ fds \in [Pids -> [Fds -> Desc]]
  /\ cwd \in [Pids -> {"old", "new", "out"}]
  /\ maps \in [Pids -> {"none", "old", "elsewhere"}]
  /\ regs \in [Pids -> {"own", "toda"}] /\ scratch \subseteq Pids
  /\ pc \in {"prepare", "trace", "look", "drop", "run", "enter", "code", "running", "restore", "unmap", "release", "done"}
  /\ stage \in Stages /\ todo \subseteq Pids
  /\ kept \in [Stages -> SUBSET Pids] /\ cases \in [Pids -> SUBSET Fds]
  /\ refused \subseteq Pids \X Fds /\ result \in {"ok", "error", "panic"}

Goto(from, to) == pc = from /\ pc' = to

(* The process at hand when no trace is under way. *)
Current(p) == job' = NewJob(p)

-----------------------------------------------------------------------------
(* Faulty variants, one per plausible slip in the code. *)

(* The accessor takes over the number of the process, not a TracedProcess. *)
KeepUncounted(p) ==
  /\ kept' = [kept EXCEPT ![stage] = @ \cup {p}]
  /\ UNCHANGED counter

(* The registers are put back only after the memory is given back. *)
RestoreNot ==
  /\ Goto("restore", "unmap")
  /\ UNCHANGED <<ptrace, files, injected, stage, todo, found, outcome>>

(* The error of one process is logged, and the next one is seen to. *)
RunFailsLogged ==
  /\ pc' = "run" /\ todo' = todo \ {cur}
  /\ UNCHANGED <<ptrace, files, injected, stage, found, outcome>>

-----------------------------------------------------------------------------
(* prepare *)

(* The process is traced, by attaching its threads if it is not yet. *)
Trace(p) ==
  \/ /\ TraceAgain(p) /\ Current(p) /\ pc' = "look"
     /\ UNCHANGED missed
  \/ /\ StartTrace(p) /\ pc' = "trace"
     /\ UNCHANGED counter

(* FdReplacer and MmapReplacer trace every process and look at its tables  *)
(* after; CwdReplacer looks first and traces the processes it wants.       *)
PrepareProcess(p) ==
  /\ pc = "prepare" /\ p \in todo /\ todo' = todo \ {p}
  /\ IF stage = "cwd" /\ ~(Readable(p) /\ cwd[p] = "old")
     THEN UNCHANGED <<pc, counter, job, missed>>
     ELSE Trace(p)
  /\ UNCHANGED <<thread, denied, left, mishaps, files, injected, stage, found, outcome>>

(* The next replacer lists the processes anew; after the last one, what    *)
(* run() goes through is what the first one keeps.                         *)
PrepareNext ==
  /\ pc = "prepare" /\ todo = {}
  /\ stage' = After[stage]
  /\ IF stage = "map" THEN pc' = "run" /\ todo' = kept["fd"]
     ELSE pc' = pc /\ todo' = {p \in Pids : Exists(p)}
  /\ UNCHANGED <<ptrace, files, injected, found, outcome>>

TraceProcess ==
  /\ pc = "trace"
  /\ \/ TraceStep /\ UNCHANGED pc
     \/ TraceFails /\ pc' = "prepare"
     \/ TraceDone /\ pc' = "look"
  /\ UNCHANGED <<files, injected, stage, todo, found, outcome>>

(* What prepare finds in the process: descriptors or a map of the mount. *)
Wanted(p) ==
  CASE stage = "fd" -> OldFds(p) # {}
    [] stage = "map" -> maps[p] = "old"

(* The accessor of a process has a TracedProcess of its own. *)
Keep(p) ==
  /\ kept' = [kept EXCEPT ![stage] = @ \cup {p}]
  /\ TraceAgain(p)

(* The tables of the process, which may be gone, are read; the first       *)
(* TracedProcess goes in any case, but for CwdReplacer, which keeps it.    *)
LookAtProcess ==
  /\ pc = "look"
  /\ IF stage = "cwd"
     THEN pc' = "prepare" /\ kept' = [kept EXCEPT !["cwd"] = @ \cup {cur}] /\ UNCHANGED <<counter, cases>>
     ELSE /\ pc' = "drop"
          /\ IF Readable(cur) /\ Wanted(cur)
             THEN Keep(cur) /\ cases' = [cases EXCEPT ![cur] = IF stage = "fd" THEN OldFds(cur) ELSE @]
             ELSE UNCHANGED <<counter, kept, cases>>
  /\ UNCHANGED <<thread, denied, job, missed, left, mishaps, files, injected, stage, todo, outcome>>

DropFirst ==
  /\ Goto("drop", "prepare") /\ Detach(cur)
  /\ UNCHANGED <<denied, job, missed, files, injected, stage, todo, found, outcome>>

-----------------------------------------------------------------------------
(* run: run_codes of FdReplacer and MmapReplacer, chdir of CwdReplacer.     *)
(* The processes of each replacer in turn; the first error ends it all.    *)

RunProcess(p) ==
  /\ Goto("run", "enter") /\ p \in todo /\ todo' = todo \ {p} /\ Current(p)
  /\ UNCHANGED <<thread, denied, counter, missed, left, mishaps, files, injected, stage, found, outcome>>

RunNext ==
  /\ pc = "run" /\ todo = {}
  /\ IF stage = "map" THEN pc' = "release" /\ UNCHANGED <<stage, todo>>
     ELSE pc' = pc /\ stage' = After[stage] /\ todo' = kept[After[stage]]
  /\ UNCHANGED <<ptrace, files, injected, found, outcome>>

RunFails ==
  /\ pc' = "release" /\ result' = "error"
  /\ UNCHANGED <<ptrace, files, injected, stage, todo, found, refused>>

(* A ThreadGuard that cannot put the registers back panics. *)
Panics ==
  /\ pc' = "release" /\ result' = "panic"
  /\ UNCHANGED <<ptrace, files, injected, stage, todo, found, refused>>

LeaderHeld == thread[Leader(cur)] = "stop"

(* A call of syscall(): it fails if the leader is not there to be stepped, *)
(* and panics if it dies between saving its registers and restoring them.  *)
CannotStep == ~LeaderHeld /\ (RunFails \/ (thread[Leader(cur)] # "run" /\ Panics))

(* with_mmap: the value the system call returns is not looked at. *)
MapScratch ==
  /\ pc = "enter"
  /\ \/ CannotStep
     \/ /\ LeaderHeld /\ pc' = "code"
        /\ \/ scratch' = scratch \cup {cur} /\ UNCHANGED mishaps
           \/ Mishap /\ UNCHANGED scratch
        /\ UNCHANGED <<thread, denied, counter, job, missed, left, files, regs, stage, todo, found, outcome>>

(* write_mem, and the registers that start the code; chdir writes its       *)
(* argument only and lets syscall() do the rest.                           *)
WriteCode ==
  /\ pc = "code"
  /\ \/ CannotStep
     \/ LeaderHeld /\ cur \notin scratch /\ RunFails
     \/ /\ LeaderHeld /\ cur \in scratch
        /\ pc' = "running"
        /\ regs' = [regs EXCEPT ![cur] = "toda"]
        /\ UNCHANGED <<ptrace, files, scratch, stage, todo, found, outcome>>

(* One round of the loop of FdReplacer's code.  fcntl and lseek read the   *)
(* flags and the position; open takes the lowest free descriptor, if there *)
(* is one, and may fail; then lseek, dup2 and close work on a negative     *)
(* number and do nothing.                                                  *)
Free(table) == {f \in Fds : table[f] = Closed}

Lowest(S) == CHOOSE f \in S : \A g \in S : f <= g

Highest(S) == CHOOSE f \in S : \A g \in S : g <= f

(* The new descriptor is not closed. *)
ReopenUnclosed(table, f) ==
  LET n == Lowest(Free(table))
      moved == [on |-> "new", pos |-> table[f].pos]
  IN [table EXCEPT ![f] = moved, ![n] = moved]

(* The position is set on the old descriptor. *)
ReopenSeeksOld(table, f) ==
  LET n == Lowest(Free(table))
      opened == [table EXCEPT ![n] = [on |-> "new", pos |-> 0]]
      dup2 == [opened EXCEPT ![f] = opened[n]]
  IN [dup2 EXCEPT ![n] = Closed]

Reopen(table, f) ==
  LET n == Lowest(Free(table))
      opened == [table EXCEPT ![n] = [on |-> "new", pos |-> 0]]
      sought == [opened EXCEPT ![n].pos = opened[f].pos]
      dup2 == [sought EXCEPT ![f] = sought[n]]
  IN [dup2 EXCEPT ![n] = Closed]

(* All rounds; S are the descriptors whose open succeeds. *)
ReopenAll(table, S) ==
  LET rest[T \in SUBSET S] == IF T = {} THEN table ELSE Reopen(rest[T \ {Highest(T)}], Highest(T))
  IN rest[S]

RunFdCode ==
  \E S \in SUBSET cases[cur] :
    /\ Free(fds[cur]) = {} => S = {}
    /\ fds' = [fds EXCEPT ![cur] = ReopenAll(fds[cur], S)]
    /\ refused' = refused \cup ({cur} \X (cases[cur] \ S))
    /\ UNCHANGED <<cwd, maps>>

(* The result of chdir(2) is not looked at. *)
RunChdir ==
  /\ cwd' = [cwd EXCEPT ![cur] = "new"] \/ UNCHANGED cwd
  /\ UNCHANGED <<fds, maps, refused>>

(* munmap, open and mmap; the address given to mmap is that of the path,   *)
(* which is in use, so the kernel chooses another.  If open fails, the map *)
(* is gone.                                                                *)
RunMapCode ==
  /\ \E m \in {"elsewhere", "none"} : maps' = [maps EXCEPT ![cur] = m]
  /\ UNCHANGED <<fds, cwd, refused>>

(* The code runs up to its int3; all other threads stay stopped. *)
RunCode ==
  /\ pc = "running"
  /\ \/ ~LeaderHeld /\ Panics
     \/ /\ LeaderHeld /\ pc' = "restore"
        /\ CASE stage = "fd" -> RunFdCode
             [] stage = "cwd" -> RunChdir
             [] stage = "map" -> RunMapCode
        /\ UNCHANGED <<ptrace, injected, stage, todo, found, result>>

(* Drop of the ThreadGuard. *)
Restore ==
  /\ pc = "restore"
  /\ \/ ~LeaderHeld /\ Panics
     \/ /\ LeaderHeld /\ pc' = "unmap"
        /\ regs' = [regs EXCEPT ![cur] = "own"]
        /\ UNCHANGED <<ptrace, files, scratch, stage, todo, found, outcome>>

UnmapScratch ==
  /\ pc = "unmap"
  /\ \/ CannotStep
     \/ /\ LeaderHeld /\ pc' = "run"
        /\ scratch' = scratch \ {cur}
        /\ UNCHANGED <<ptrace, files, regs, stage, todo, found, outcome>>

-----------------------------------------------------------------------------
(* The UnionReplacer is dropped, after run or when the stack is unwound. *)
DropKept(s, p) ==
  /\ pc = "release" /\ p \in kept[s] /\ \A r \in Stages : Order[r] < Order[s] => kept[r] = {}
  /\ kept' = [kept EXCEPT ![s] = @ \ {p}]
  /\ Detach(p)
  /\ UNCHANGED <<denied, job, missed, files, injected, pc, stage, todo, cases, outcome>>

Dropped ==
  /\ Goto("release", "done") /\ \A s \in Stages : kept[s] = {}
  /\ UNCHANGED <<ptrace, files, injected, stage, todo, found, outcome>>

-----------------------------------------------------------------------------
(* The processes, as long as they are not stopped.  They may be killed at  *)
(* any time until the replacers are dropped; what running processes do     *)
(* once prepare is over is not followed.                                   *)

Preparing == pc \in {"prepare", "trace", "look", "drop"}

Threads ==
  /\ \/ Preparing /\ \E n \in Tids : SpawnThread(n)
     \/ Preparing /\ \E t \in Tids : ExitThread(t)
     \/ Preparing /\ \E p \in Pids : Reap(p)
     \/ pc # "done" /\ \E p \in Pids : Kill(p)
  /\ UNCHANGED <<denied, counter, job, missed, left, files, injected, pc, stage, todo, found, outcome>>

Now(p, u) ==
  /\ fds' = [fds EXCEPT ![p] = u.fds]
  /\ cwd' = [cwd EXCEPT ![p] = u.cwd]
  /\ maps' = [maps EXCEPT ![p] = u.maps]

(* fork(2): a process with the same files, listed from now on. *)
Fork(p, q) ==
  /\ NewThread(Leader(q))
  /\ Now(q, [fds |-> fds[p], cwd |-> cwd[p], maps |-> maps[p]])
  /\ UNCHANGED <<denied, counter, job, missed, left, mishaps>>

UseFiles(p) ==
  /\ Runs(p) /\ Preparing
  /\ \/ \E u \in Uses : Now(p, u) /\ UNCHANGED ptrace
     \/ \E q \in Pids : Fork(p, q)
  /\ UNCHANGED <<injected, pc, stage, todo, found, outcome>>

-----------------------------------------------------------------------------
Init ==
  /\ todo \in SUBSET Pids \ {{}}
  /\ thread = [t \in Tids |-> IF t[2] = 1 /\ t[1] \in todo THEN "run" ELSE "unborn"]
  /\ \E u \in Uses :
       /\ fds = [p \in Pids |-> u.fds] /\ cwd = [p \in Pids |-> u.cwd] /\ maps = [p \in Pids |-> u.maps]
  /\ denied \in SUBSET Pids /\ mishaps \in 0..MaxMishaps /\ mishaps = Cardinality(denied)
  /\ counter = [p \in Pids |-> 0] /\ missed = [p \in Pids |-> 0] /\ left = {}
  /\ \E p \in Pids : job = NewJob(p)
  /\ regs = [p \in Pids |-> "own"] /\ scratch = {}
  /\ pc = "prepare" /\ stage = "fd"
  /\ kept = [s \in Stages |-> {}] /\ cases = [p \in Pids |-> {}]
  /\ refused = {} /\ result = "ok"

Prepare == PrepareNext \/ TraceProcess \/ LookAtProcess \/ DropFirst \/ \E p \in Pids : PrepareProcess(p)

Run == RunNext \/ MapScratch \/ WriteCode \/ RunCode \/ Restore \/ UnmapScratch \/ \E p \in Pids : RunProcess(p)

Drop == Dropped \/ \E s \in Stages, p \in Pids : DropKept(s, p)

Next == Prepare \/ Run \/ Drop \/ Threads \/ \E p \in Pids : UseFiles(p)

Spec == Init /\ [][Next]_vars

-----------------------------------------------------------------------------
(* Properties *)

(* trace has stopped the process, as far as AllStopped says it does. *)
Caught(p) == p \notin denied /\ missed[p] < 2

(* The replacer s holds p and has not run its code there yet. *)
Pending(s, p) ==
  /\ p \in kept[s]
  /\ \/ Preparing
     \/ pc \notin {"release", "done"} /\ (Order[stage] < Order[s] \/ (stage = s /\ p \in todo))

(* A stopped thread belongs to a process somebody holds a TracedProcess of *)
(* or is just tracing: nobody is left stopped with no one to detach it,    *)
(* unless /proc could not be read while trace or detach went on.           *)
StoppedCounted ==
  \A t \in Tids : thread[t] = "stop" =>
    counter[t[1]] > 0 \/ (pc = "trace" /\ cur = t[1]) \/ t[1] \in left

(* What prepare has noted of a process is still so when run gets to it,    *)
(* however many replacers trace the process and let go of it in between:   *)
(* its descriptors and its map, and its working directory if FdReplacer    *)
(* had stopped it.  A directory that is read of a running process may have *)
(* changed before CwdReplacer has stopped it.                              *)
CasesFresh ==
  \A p \in Pids : Caught(p) /\ Readable(p) =>
    /\ Pending("fd", p) => cases[p] = OldFds(p)
    /\ Pending("map", p) => maps[p] = "old"
    /\ Pending("cwd", p) /\ p \in kept["fd"] => cwd[p] = "old"

(* When run returns Ok, a process it has caught has no descriptor left on  *)
(* the old mount but those it could not open on the new one: processes     *)
(* that die, refuse to be traced or cannot map memory make run fail rather *)
(* than pass them over.                                                    *)
MovedIfOk ==
  pc = "release" /\ result = "ok" =>
    \A p \in kept["fd"] : Caught(p) /\ Readable(p) => {p} \X OldFds(p) \subseteq refused

(* A process that runs again has its own registers and code and no memory  *)
(* of toda's, wherever run, or the process, has failed before.             *)
LeavesNoTrace ==
  \A p \in Pids : thread[Leader(p)] = "run" => regs[p] = "own" /\ p \notin scratch

(* The code of FdReplacer leaves the process with the descriptors it had,  *)
(* each at its position, and moves only the ones that were noted, with as  *)
(* few free descriptors as there may be.  A process that trace has not     *)
(* stopped whole may have closed one of them meanwhile.                    *)
ReopenFaithful ==
  [][pc = "running" /\ stage = "fd" /\ pc' = "restore" /\ Caught(cur) =>
       \A f \in Fds :
         /\ (fds'[cur][f] = Closed) = (fds[cur][f] = Closed)
         /\ fds'[cur][f].pos = fds[cur][f].pos
         /\ fds'[cur][f] # fds[cur][f] => f \in cases[cur] /\ fds'[cur][f].on = "new"]_vars
=============================================================================
