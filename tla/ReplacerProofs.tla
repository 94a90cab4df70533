--------------------------- MODULE ReplacerProofs ---------------------------
(***************************************************************************)
(* Proofs about the replacers and the ptrace manager, for any number of    *)
(* processes, threads, descriptors and mishaps.  First the inductive       *)
(* invariant, part by part: the bookkeeping of UnionReplacer, the types,   *)
(* who is stopped and who lets them go, what is left in the threads; then  *)
(* what the replacers have noted of a process and what the code of         *)
(* FdReplacer computes; at the end the theorems.                           *)
(***************************************************************************)
EXTENDS Replacer, TLAPS

(***************************************************************************)
(* The bookkeeping of UnionReplacer.                                       *)
(***************************************************************************)

Bit(b) == IF b THEN 1 ELSE 0

(* The TracedProcess that prepare has just got and has not let go of. *)
First(p) == pc \in {"look", "drop"} /\ cur = p

(* The counter counts the TracedProcesses there are. *)
Counted ==
  \A p \in Pids :
    counter[p] = Bit(p \in kept["fd"]) + Bit(p \in kept["cwd"]) + Bit(p \in kept["map"]) + Bit(First(p))

Entered == {"enter", "code", "running", "restore", "unmap"}

(* Every replacer sees a process once, in prepare and in run. *)
Schedule ==
  /\ Preparing => todo \cap kept[stage] = {}
  /\ Preparing => \A s \in Stages : Order[stage] < Order[s] => kept[s] = {}
  /\ pc \in {"trace", "look", "drop"} => cur \notin todo
  /\ pc \in {"trace", "look"} => cur \notin kept[stage]
  /\ pc = "trace" => counter[cur] = 0
  /\ pc \in Entered \cup {"run"} => todo \subseteq kept[stage]
  /\ pc \in Entered => cur \in kept[stage] /\ cur \notin todo

(***************************************************************************)
(* The threads.                                                            *)
(***************************************************************************)

(* No process is without a leader; the ones toda deals with are there. *)
Born ==
  /\ \A t \in Tids : thread[t] # "unborn" => thread[Leader(t[1])] # "unborn"
  /\ \A p \in Pids : counter[p] > 0 => thread[Leader(p)] # "unborn"
  /\ Preparing => \A p \in todo : thread[Leader(p)] # "unborn"
  /\ pc \in {"trace", "look", "drop"} => thread[Leader(cur)] # "unborn"

(* The loop of trace.  A thread that runs was created during this pass, or *)
(* is on the list of the pass.  A pass that attaches nothing has found all *)
(* threads on its list gone, if others run: it has missed one.             *)
Passes ==
  pc = "trace" =>
    /\ job.tasks \subseteq ThreadsOf(cur) /\ job.iterations > 0
    /\ \A t \in job.traced : thread[t] \notin {"unborn", "run"}
    /\ Runs(cur) /\ cur \notin denied =>
         /\ missed[cur] >= Iterations - job.iterations
         /\ \/ job.found
            \/ missed[cur] > Iterations - job.iterations
            \/ \E t \in job.tasks : thread[t] \in {"run", "zombie", "gone"}

(* What toda has put into a process is there while its code runs, or the   *)
(* process is dead.                                                        *)
Dead(p) == thread[Leader(p)] \in {"zombie", "gone"}

Clean ==
  \A p \in Pids :
    /\ p \in scratch => Dead(p) \/ (LeaderHeld /\ cur = p /\ pc \in {"code", "running", "restore", "unmap"})
    /\ regs[p] = "toda" => Dead(p) \/ (LeaderHeld /\ cur = p /\ pc \in {"running", "restore"})

(***************************************************************************)
(* The files.                                                              *)
(***************************************************************************)

(* What was noted of a process that is stopped whole stays true until the  *)
(* code has run.                                                           *)
Fresh ==
  /\ \A p \in Pids : Caught(p) =>
       /\ Pending("fd", p) => cases[p] = OldFds(p)
       /\ Pending("map", p) => maps[p] = "old"
       /\ Pending("cwd", p) /\ p \in kept["fd"] => cwd[p] = "old"
  /\ pc = "look" /\ stage = "cwd" /\ cur \in kept["fd"] /\ Caught(cur) => cwd[cur] = "old"
  /\ pc \in {"enter", "code", "running"} /\ stage = "fd" /\ Caught(cur) => cases[cur] = OldFds(cur)

(* FdReplacer still has to run its code in the process. *)
Waits(p) == stage = "fd" /\ (p \in todo \/ (cur = p /\ pc \in {"enter", "code", "running"}))

Moved ==
  /\ ~Preparing /\ result = "ok" =>
       \A p \in kept["fd"] : Caught(p) => Waits(p) \/ {p} \X OldFds(p) \subseteq refused
  /\ pc \in {"release", "done"} /\ result = "ok" => stage = "map"

IInv == TypeOK /\ Counted /\ Schedule /\ Born /\ Passes /\ StoppedCounted /\ AllStopped /\ Clean /\ Fresh /\ Moved

(* What ReopenAll, the code of FdReplacer, computes for any table and any  *)
(* descriptors to open again; both are shown further down.                 *)
Table == [Fds -> Desc]

Opens(table, S) == Free(table) = {} => S = {}

ReopenTyped == \A table \in Table, S \in SUBSET Fds : Opens(table, S) => ReopenAll(table, S) \in Table

ReopenMoves == \A table \in Table, S \in SUBSET Fds :
  Opens(table, S) /\ (\A f \in S : table[f].on = "old") =>
    ReopenAll(table, S) = [f \in Fds |-> IF f \in S THEN [on |-> "new", pos |-> table[f].pos] ELSE table[f]]

-----------------------------------------------------------------------------
(* Frames: what the parts of the system leave alone. *)

(* What run of a replacer leaves alone, and where it can lead. *)
LEMMA RunFrame ==
  ASSUME Run
  PROVE  /\ UNCHANGED <<thread, denied, counter, missed, left, kept, cases>>
         /\ pc \in Entered \cup {"run"} /\ pc' \in Entered \cup {"run", "release"}
<1>1. CASE RunNext
  BY <1>1, Zenon DEF RunNext, ptrace, found, Entered
<1>2. CASE MapScratch
  BY <1>2, Zenon DEF MapScratch, CannotStep, RunFails, Panics, ptrace, found, Entered
<1>3. CASE WriteCode
  BY <1>3, Zenon DEF WriteCode, CannotStep, RunFails, Panics, ptrace, found, Entered
<1>4. CASE RunCode
  BY <1>4, Zenon DEF RunCode, Panics, ptrace, found, Entered
<1>5. CASE Restore
  BY <1>5, Zenon DEF Restore, Panics, ptrace, found, Entered
<1>6. CASE UnmapScratch
  BY <1>6, Zenon DEF UnmapScratch, CannotStep, RunFails, Panics, ptrace, found, Entered
<1>7. ASSUME NEW p \in Pids, RunProcess(p)
      PROVE  /\ UNCHANGED <<thread, denied, counter, missed, left, kept, cases>>
             /\ pc \in Entered \cup {"run"} /\ pc' \in Entered \cup {"run", "release"}
  BY <1>7, Zenon DEF RunProcess, Goto, found, Entered
<1> QED BY <1>1, <1>2, <1>3, <1>4, <1>5, <1>6, <1>7, Zenon DEF Run

(* A step of trace changes neither the counter nor its process. *)
LEMMA TraceStepFrame ==
  ASSUME TypeOK, TraceStep
  PROVE  UNCHANGED <<denied, counter, left, mishaps>> /\ cur' = cur
BY ZenonT(60) DEF TypeOK, PtraceTypeOK, Job, TraceStep, NextPass, AttachTask, AttachTaskLate, Traced, Passed, cur

(* The threads and the files change without any state of toda. *)
LEMMA OthersFrame ==
  ASSUME Threads \/ \E p \in Pids : UseFiles(p)
  PROVE  /\ UNCHANGED <<denied, counter, job, missed, left, injected, pc, stage, todo, found, outcome>>
         /\ Preparing \/ (pc # "done" /\ UNCHANGED files /\ \E p \in Pids : Kill(p))
BY Zenon DEF Threads, UseFiles, Fork, ptrace

(* A running thread is created, a thread ends, a leader is reaped, or a    *)
(* process is killed.                                                      *)
LEMMA ThreadEffect ==
  ASSUME TypeOK, Threads \/ \E p \in Pids : UseFiles(p)
  PROVE  /\ thread' \in [Tids -> {"unborn", "run", "stop", "zombie", "gone"}]
         /\ \A t \in Tids : thread[t] # thread'[t] =>
              \/ thread[t] = "unborn" /\ thread'[t] = "run"
              \/ thread[t] # "unborn" /\ thread'[t] \in {"zombie", "gone"}
<1>1. ASSUME NEW n \in Tids, NewThread(n)
      PROVE  /\ thread' \in [Tids -> {"unborn", "run", "stop", "zombie", "gone"}]
             /\ \A t \in Tids : thread[t] # thread'[t] => thread[t] = "unborn" /\ thread'[t] = "run"
  BY <1>1, Zenon DEF TypeOK, PtraceTypeOK, NewThread
<1>2. ASSUME NEW n \in Tids, ExitThread(n)
      PROVE  /\ thread' \in [Tids -> {"unborn", "run", "stop", "zombie", "gone"}]
             /\ \A t \in Tids : thread[t] # thread'[t] => thread[t] # "unborn" /\ thread'[t] \in {"zombie", "gone"}
  BY <1>2, Zenon DEF TypeOK, PtraceTypeOK, ExitThread
<1>3. ASSUME NEW p \in Pids, Reap(p)
      PROVE  /\ thread' \in [Tids -> {"unborn", "run", "stop", "zombie", "gone"}]
             /\ \A t \in Tids : thread[t] # thread'[t] => thread[t] # "unborn" /\ thread'[t] \in {"zombie", "gone"}
  BY <1>3, Zenon DEF TypeOK, PtraceTypeOK, Reap
<1>4. ASSUME NEW p \in Pids, Kill(p)
      PROVE  /\ thread' \in [Tids -> {"unborn", "run", "stop", "zombie", "gone"}]
             /\ \A t \in Tids : thread[t] # thread'[t] => thread[t] # "unborn" /\ thread'[t] \in {"zombie", "gone"}
  BY <1>4, Zenon DEF TypeOK, PtraceTypeOK, Kill, Killed
<1>5. ASSUME NEW p \in Pids, UseFiles(p), thread' # thread
      PROVE  \E q \in Pids : NewThread(Leader(q)) /\ Leader(q) \in Tids
  BY <1>5, PtraceAssumption DEF UseFiles, Fork, ptrace, Leader, Tids
<1> QED BY <1>1, <1>2, <1>3, <1>4, <1>5, Zenon DEF Threads, SpawnThread, TypeOK, PtraceTypeOK

(* The processes of the TracedProcesses that are dropped have been counted. *)
LEMMA DropsCounted ==
  ASSUME TypeOK, Counted
  PROVE  /\ pc = "drop" => cur \in Pids /\ counter[cur] > 0
         /\ \A s \in Stages : \A p \in kept[s] : p \in Pids /\ counter[p] > 0
<1>1. pc = "drop" => cur \in Pids /\ counter[cur] > 0
  <2>1. cur \in Pids
    BY Zenon DEF TypeOK, PtraceTypeOK, Job, cur
  <2> QED BY <2>1 DEF Counted, Bit, First
<1>2. ASSUME NEW s \in Stages, NEW p \in kept[s] PROVE p \in Pids /\ counter[p] > 0
  <2>1. p \in Pids /\ kept \in [{"fd", "cwd", "map"} -> SUBSET Pids] /\ s \in {"fd", "cwd", "map"}
    BY Zenon DEF TypeOK, Stages
  <2> QED BY <2>1 DEF Counted, Bit, First
<1> QED BY <1>1, <1>2, Zenon

-----------------------------------------------------------------------------
(* The bookkeeping: the counter, and who is seen when. *)

(* The steps keep the counter and the order in which processes are seen. *)
LEMMA BookStep ==
  ASSUME TypeOK, Counted, Schedule, [Next]_vars
  PROVE  Counted' /\ Schedule'
<1>0. /\ cur \in Pids /\ stage \in {"fd", "cwd", "map"} /\ counter \in [Pids -> 0..4]
      /\ kept \in [{"fd", "cwd", "map"} -> SUBSET Pids]
  BY Zenon DEF TypeOK, PtraceTypeOK, Job, cur, Stages
<1>1. CASE PrepareNext
  <2>1. Counted'
    BY <1>1, Zenon DEF PrepareNext, ptrace, found, Counted, Bit, First, cur
  <2>2. Schedule'
    BY <1>0, <1>1 DEF PrepareNext, ptrace, found, Schedule, Preparing, Entered, Stages, Order, After, cur
  <2> QED BY <2>1, <2>2, Zenon
<1>2. CASE TraceProcess
  <2>1. UNCHANGED <<stage, todo, kept>> /\ pc = "trace"
    BY <1>2, Zenon DEF TraceProcess, found
  <2>2. CASE TraceStep /\ UNCHANGED pc
    BY <2>1, <2>2, TraceStepFrame, Zenon DEF Counted, Schedule, Bit, First, Preparing, Entered
  <2>3. CASE TraceFails /\ pc' = "prepare"
    BY <2>1, <2>3, Zenon DEF TraceFails, NewJob, cur, Counted, Schedule, Bit, First, Preparing, Entered
  <2>4. CASE TraceDone /\ pc' = "look"
    <3>1. cur' = cur /\ counter' = [counter EXCEPT ![cur] = 1] /\ counter[cur] = 0
      BY <2>1, <2>4, Zenon DEF TraceDone, NewJob, cur, Schedule
    <3>2. Counted'
      BY <1>0, <2>1, <2>4, <3>1 DEF Counted, Bit, First
    <3>3. Schedule'
      BY <2>1, <2>4, <3>1, Zenon DEF Schedule, Preparing, Entered
    <3> QED BY <3>2, <3>3
  <2> QED BY <1>2, <2>2, <2>3, <2>4, Zenon DEF TraceProcess
<1>3. CASE LookAtProcess
  <2>1. UNCHANGED <<job, stage, todo>> /\ cur' = cur /\ pc = "look" /\ cur \notin kept[stage]
    BY <1>3, Zenon DEF LookAtProcess, Schedule, cur
  <2>2. CASE stage = "cwd"
    <3>1. kept' = [kept EXCEPT !["cwd"] = @ \cup {cur}] /\ UNCHANGED counter /\ pc' = "prepare"
      BY <1>3, <2>2, Zenon DEF LookAtProcess
    <3>2. Counted'
      BY <1>0, <2>1, <2>2, <3>1 DEF Counted, Bit, First
    <3>3. Schedule'
      BY <1>0, <2>1, <2>2, <3>1 DEF Schedule, Preparing, Entered, Stages, Order
    <3> QED BY <3>2, <3>3
  <2>3. CASE stage # "cwd" /\ UNCHANGED <<counter, kept>>
    <3>1. pc' = "drop"
      BY <1>3, <2>3, Zenon DEF LookAtProcess
    <3> QED BY <2>1, <2>3, <3>1, Zenon DEF Counted, Schedule, Bit, First, Preparing, Entered
  <2>4. CASE stage # "cwd" /\ Keep(cur)
    <3>1. pc' = "drop" /\ kept' = [kept EXCEPT ![stage] = @ \cup {cur}] /\ counter' = [counter EXCEPT ![cur] = @ + 1]
      BY <1>3, <2>4, Zenon DEF LookAtProcess, Keep, TraceAgain
    <3>2. Counted'
      <4>1. CASE stage = "fd"
        BY <1>0, <2>1, <4>1, <3>1 DEF Counted, Bit, First
      <4>2. CASE stage = "map"
        BY <1>0, <2>1, <4>2, <3>1 DEF Counted, Bit, First
      <4> QED BY <1>0, <2>4, <4>1, <4>2, Zenon
    <3>3. Schedule'
      BY <1>0, <2>1, <2>4, <3>1 DEF Schedule, Preparing, Entered, Stages, Order
    <3> QED BY <3>2, <3>3
  <2> QED BY <1>3, <2>2, <2>3, <2>4, Zenon DEF LookAtProcess
<1>4. CASE DropFirst
  <2>1. UNCHANGED <<job, stage, todo, kept>> /\ cur' = cur /\ pc = "drop" /\ pc' = "prepare" /\ counter' = [counter EXCEPT ![cur] = @ - 1]
    BY <1>4, Zenon DEF DropFirst, Detach, Goto, found, cur
  <2> QED BY <1>0, <2>1 DEF Counted, Schedule, Bit, First, Preparing, Entered
<1>5. ASSUME NEW p \in Pids, PrepareProcess(p) PROVE Counted' /\ Schedule'
  <2>1. UNCHANGED <<stage, kept>> /\ todo' = todo \ {p} /\ p \in todo /\ pc = "prepare"
    BY <1>5, Zenon DEF PrepareProcess, found
  <2>2. CASE UNCHANGED <<pc, counter, job>>
    BY <2>1, <2>2, Zenon DEF Counted, Schedule, Bit, First, Preparing, Entered, cur
  <2>3. CASE TraceAgain(p) /\ Current(p) /\ pc' = "look"
    <3>1. cur' = p /\ counter' = [counter EXCEPT ![p] = @ + 1]
      BY <2>3, Zenon DEF TraceAgain, Current, NewJob, cur
    <3>2. Counted'
      BY <1>0, <2>1, <2>3, <3>1 DEF Counted, Bit, First
    <3>3. Schedule'
      BY <1>0, <2>1, <2>3, <3>1, Zenon DEF Schedule, Preparing, Entered
    <3> QED BY <3>2, <3>3, Zenon
  <2>4. CASE StartTrace(p) /\ pc' = "trace" /\ UNCHANGED counter
    BY <1>0, <2>1, <2>4 DEF StartTrace, NewJob, cur, Counted, Schedule, Bit, First, Preparing, Entered
  <2> QED BY <1>5, <2>2, <2>3, <2>4, Zenon DEF PrepareProcess, Trace
<1>6. CASE Run
  <2>1. UNCHANGED <<counter, kept>> /\ pc \in Entered \cup {"run"} /\ pc' \in Entered \cup {"run", "release"}
    BY <1>6, RunFrame, Zenon
  <2>2. Counted'
    BY <2>1 DEF Counted, Bit, First, Entered
  <2>3. ASSUME todo' \subseteq kept'[stage'] \/ pc' = "release",
               pc' \in Entered => cur' \in kept'[stage'] /\ cur' \notin todo'
        PROVE  Schedule'
    BY <2>1, <2>3, Zenon DEF Schedule, Preparing, Entered
  <2>4. CASE RunNext
    <3>1. pc' \notin Entered /\ (todo' = kept[stage'] \/ pc' = "release")
      BY <2>4, Zenon DEF RunNext, Entered
    <3>2. todo' \subseteq kept'[stage'] \/ pc' = "release"
      BY <2>1, <3>1, Zenon
    <3> QED BY <2>2, <2>3, <3>1, <3>2, Zenon
  <2>5. ASSUME NEW p \in Pids, RunProcess(p) PROVE Schedule'
    BY <2>1, <2>3, <2>5, Zenon DEF RunProcess, Goto, Current, NewJob, cur, Entered, Schedule
  <2>6. CASE UNCHANGED <<job, stage, todo>> /\ (pc \in Entered \/ pc' \notin Entered)
    <3>1. todo \subseteq kept[stage] /\ (pc' \in Entered => cur \in kept[stage] /\ cur \notin todo)
      BY <2>1, <2>6, Zenon DEF Schedule
    <3>2. cur' = cur /\ kept' = kept /\ todo' = todo /\ stage' = stage
      BY <2>1, <2>6, Zenon DEF cur
    <3> QED BY <2>2, <2>3, <3>1, <3>2, Zenon
  <2>7. MapScratch \/ WriteCode \/ RunCode \/ Restore \/ UnmapScratch => UNCHANGED <<job, stage, todo>> /\ (pc \in Entered \/ pc' \notin Entered)
    <3>1. RunFails \/ Panics \/ CannotStep => UNCHANGED <<job, stage, todo>>
      BY Zenon DEF RunFails, Panics, CannotStep, ptrace
    <3> QED BY <3>1, Zenon DEF MapScratch, WriteCode, RunCode, Restore, UnmapScratch, Entered, ptrace
  <2> QED BY <1>6, <2>2, <2>4, <2>5, <2>6, <2>7, Zenon DEF Run
<1>7. CASE Dropped
  BY <1>7, Zenon DEF Dropped, Goto, ptrace, found, Counted, Schedule, Bit, First, Preparing, Entered
<1>8. ASSUME NEW s \in Stages, NEW p \in Pids, DropKept(s, p) PROVE Counted' /\ Schedule'
  <2>1. /\ pc = "release" /\ UNCHANGED <<pc, stage, todo>> /\ p \in kept[s]
        /\ kept' = [kept EXCEPT ![s] = @ \ {p}] /\ counter' = [counter EXCEPT ![p] = @ - 1]
    BY <1>8, Zenon DEF DropKept, Detach
  <2>2. Counted'
    BY <1>0, <1>8, <2>1 DEF Counted, Bit, First, Stages
  <2> QED BY <2>1, <2>2, Zenon DEF Schedule, Preparing, Entered
<1>9. CASE Threads \/ \E p \in Pids : UseFiles(p)
  BY <1>9, OthersFrame DEF found, cur, Counted, Schedule, Bit, First, Preparing, Entered
<1>10. CASE UNCHANGED vars
  BY <1>10, Zenon DEF vars, ptrace, found, cur, Counted, Schedule, Bit, First, Preparing, Entered
<1> QED BY <1>1, <1>2, <1>3, <1>4, <1>5, <1>6, <1>7, <1>8, <1>9, <1>10, Zenon DEF Next, Prepare, Drop

-----------------------------------------------------------------------------
(* The threads: what the steps of toda and of the processes do to them. *)

(* A thread that a pass of trace changes was running and runs no more. *)
LEMMA AttachEffect ==
  ASSUME TypeOK, TraceStep
  PROVE  \A t \in Tids : thread'[t] # thread[t] =>
           t \in job.tasks /\ thread[t] = "run" /\ thread'[t] \in {"stop", "zombie", "gone"}
BY DEF TypeOK, PtraceTypeOK, TraceStep, NextPass, AttachTask, AttachTaskLate

(* detach lets all threads of the process go, or gives up on it. *)
LEMMA DetachEffect ==
  ASSUME TypeOK, NEW p \in Pids, counter[p] > 0, Detach(p)
  PROVE  /\ counter' = [counter EXCEPT ![p] = @ - 1]
         /\ \A t \in Tids : thread'[t] # thread[t] =>
              t[1] = p /\ thread[t] = "stop" /\ thread'[t] = "run" /\ counter'[p] = 0
         /\ counter'[p] = 0 => (\A t \in Tids : t[1] = p => thread'[t] # "stop") \/ p \in left'
         /\ left \ {p} \subseteq left' /\ (counter'[p] > 0 => UNCHANGED left)
<1>1. counter[p] \in 1..4 /\ counter' = [counter EXCEPT ![p] = @ - 1] /\ counter'[p] = counter[p] - 1
  BY DEF TypeOK, PtraceTypeOK, Detach
<1>2. CASE counter[p] > 1 /\ UNCHANGED <<thread, left, mishaps>>
  BY <1>1, <1>2
<1>3. CASE /\ counter[p] <= 1
           /\ thread' = [t \in Tids |-> IF t \in ThreadsOf(p) /\ thread[t] = "stop" THEN "run" ELSE thread[t]]
           /\ left' = left \ {p} /\ UNCHANGED mishaps
  <2>1. counter'[p] = 0
    BY <1>1, <1>3
  <2>2. \A t \in Tids : t \in ThreadsOf(p) <=> t[1] = p
    BY Zenon DEF Tids, ThreadsOf
  <2> QED BY <1>1, <1>3, <2>1, <2>2
<1>4. CASE counter[p] <= 1 /\ left' = left \cup {p} /\ UNCHANGED thread
  BY <1>1, <1>4
<1> QED BY <1>2, <1>3, <1>4, Zenon DEF Detach

(* A process begins to run only by being forked. *)
LEMMA RunsEffect ==
  ASSUME TypeOK, Threads \/ \E p \in Pids : UseFiles(p), NEW q \in Pids, Runs(q)'
  PROVE  Runs(q) \/ thread[Leader(q)] = "unborn"
<1>1. PICK t \in ThreadsOf(q) : thread'[t] = "run"
  BY Zenon DEF Runs
<1>2. t \in Tids /\ t[1] = q
  BY <1>1, Zenon DEF ThreadsOf, Tids
<1>3. CASE thread[t] = "run"
  BY <1>1, <1>3, Zenon DEF Runs
<1>4. CASE thread[t] # "run"
  <2>1. thread[t] = "unborn"
    BY <1>1, <1>2, <1>4, ThreadEffect, Zenon
  <2>2. CASE \E n \in Tids : SpawnThread(n)
    BY <1>1, <1>2, <1>4, <2>2, Zenon DEF SpawnThread, NewThread, TypeOK, PtraceTypeOK
  <2>3. CASE \E p \in Pids : Fork(p, q)
    BY <2>3, Zenon DEF Fork, NewThread
  <2>4. CASE \E p, r \in Pids : r # q /\ Fork(p, r)
    BY <1>1, <1>2, <1>4, <2>4 DEF Fork, NewThread, Leader, TypeOK, PtraceTypeOK
  <2>5. ASSUME NEW n \in Tids, ExitThread(n) PROVE FALSE
    BY <1>1, <1>2, <1>4, <2>5, Zenon DEF ExitThread, TypeOK, PtraceTypeOK
  <2>6. ASSUME NEW p \in Pids, Reap(p) PROVE FALSE
    BY <1>1, <1>2, <1>4, <2>6, Zenon DEF Reap, TypeOK, PtraceTypeOK
  <2>7. ASSUME NEW p \in Pids, Kill(p) PROVE FALSE
    BY <1>1, <1>2, <1>4, <2>7, Zenon DEF Kill, Killed, TypeOK, PtraceTypeOK
  <2>8. CASE UNCHANGED thread
    BY <1>1, <1>4, <2>8, Zenon
  <2> QED BY <2>2, <2>3, <2>4, <2>5, <2>6, <2>7, <2>8, Zenon DEF Threads, UseFiles, ptrace
<1> QED BY <1>3, <1>4, Zenon

(* What a step of toda does to the threads. *)
LEMMA TodaThreads ==
  ASSUME TypeOK, Counted, Prepare \/ Run \/ Drop
  PROVE  \/ UNCHANGED thread
         \/ TraceProcess /\ TraceStep /\ UNCHANGED pc
         \/ DropFirst /\ cur \in Pids /\ counter[cur] > 0 /\ Detach(cur)
         \/ \E s \in Stages, p \in Pids : DropKept(s, p) /\ counter[p] > 0 /\ Detach(p)
<1>1. PrepareNext \/ LookAtProcess \/ Dropped \/ (\E p \in Pids : PrepareProcess(p)) => UNCHANGED thread
  BY Zenon DEF PrepareNext, LookAtProcess, Dropped, PrepareProcess, ptrace
<1>2. CASE TraceProcess
  BY <1>2, Zenon DEF TraceProcess, TraceFails, TraceDone
<1>3. CASE DropFirst
  BY <1>3, DropsCounted, Zenon DEF DropFirst, Goto
<1>4. ASSUME NEW s \in Stages, NEW p \in Pids, DropKept(s, p) PROVE counter[p] > 0 /\ Detach(p)
  BY <1>4, DropsCounted, Zenon DEF DropKept
<1> QED BY <1>1, <1>2, <1>3, <1>4, RunFrame, Zenon DEF Prepare, Drop

(* A thread that has been created is not uncreated. *)
LEMMA StaysBorn ==
  ASSUME TypeOK, Counted, [Next]_vars, NEW t \in Tids, thread[t] # "unborn"
  PROVE  thread'[t] # "unborn"
<1>1. CASE UNCHANGED thread
  BY <1>1, Zenon
<1>2. CASE TraceStep
  BY <1>2, AttachEffect, Zenon
<1>3. ASSUME NEW p \in Pids, counter[p] > 0, Detach(p) PROVE thread'[t] # "unborn"
  BY <1>3, DetachEffect, Zenon
<1>4. CASE Threads \/ \E p \in Pids : UseFiles(p)
  BY <1>4, ThreadEffect, Zenon
<1> QED BY <1>1, <1>2, <1>3, <1>4, TodaThreads, Zenon DEF Next, vars, ptrace

(* The processes toda sees have a first thread, and keep it. *)
LEMMA BornStep ==
  ASSUME TypeOK, Counted, Born, [Next]_vars
  PROVE  Born'
<1> DEFINE Alive(p) == thread[Leader(p)] # "unborn"
<1>1. \A p \in Pids : Leader(p) \in Tids /\ (Alive(p) => Alive(p)')
  BY PtraceAssumption, StaysBorn DEF Leader, Tids
<1>2. cur \in Pids
  BY Zenon DEF TypeOK, PtraceTypeOK, Job, cur
<1>3. \A t \in Tids : thread'[t] # "unborn" => Alive(t[1])'
  <2>1. SUFFICES ASSUME NEW t \in Tids, thread[t] = "unborn", thread'[t] # "unborn" PROVE Alive(t[1])'
    BY <1>1, Zenon DEF Born, Tids
  <2>2. thread' # thread
    BY <2>1, Zenon
  <2>3. ~TraceStep
    BY <2>1, AttachEffect, Zenon
  <2>4. ~\E p \in Pids : counter[p] > 0 /\ Detach(p)
    BY <2>1, DetachEffect, Zenon
  <2>5. Threads \/ \E p \in Pids : UseFiles(p)
    BY <2>2, <2>3, <2>4, TodaThreads, Zenon DEF Next, vars, ptrace
  <2>6. \E n \in Tids : NewThread(n) /\ n = t
    <3>1. ASSUME NEW n \in Tids, NewThread(n) PROVE n = t
      BY <2>1, <3>1, Zenon DEF NewThread, TypeOK, PtraceTypeOK
    <3>2. ~\E n \in Tids : ExitThread(n)
      BY <2>1, Zenon DEF ExitThread, TypeOK, PtraceTypeOK
    <3>3. ~\E p \in Pids : Reap(p)
      BY <2>1, Zenon DEF Reap, TypeOK, PtraceTypeOK
    <3>4. ~\E p \in Pids : Kill(p)
      BY <2>1, Zenon DEF Kill, Killed, TypeOK, PtraceTypeOK
    <3>5. \E n \in Tids : NewThread(n)
      BY <1>1, <2>2, <2>5, <3>2, <3>3, <3>4, Zenon DEF Threads, SpawnThread, UseFiles, Fork, ptrace
    <3> QED BY <3>1, <3>5, Zenon
  <2>7. t = Leader(t[1]) \/ Alive(t[1])
    <3>1. t[1] \in Pids /\ t[2] \in 1..MaxThreads /\ t = <<t[1], t[2]>>
      BY DEF Tids
    <3>2. t[2] = 1 \/ t[2] > 1
      BY <3>1, PtraceAssumption
    <3>3. Leader(t[1]) \in ThreadsOf(t[1]) /\ Leader(t[1])[2] = 1
      BY <3>1, PtraceAssumption DEF Leader, ThreadsOf
    <3> QED BY <2>6, <3>1, <3>2, <3>3, Zenon DEF NewThread, Leader
  <2> QED BY <1>1, <2>1, <2>7, Zenon DEF Tids
<1>4. ASSUME NEW p \in Pids, counter'[p] > 0 PROVE Alive(p)
  <2>1. CASE counter[p] > 0
    BY <2>1, Zenon DEF Born
  <2>2. CASE ~(counter[p] > 0)
    <3>1. ~\E q \in Pids : counter[q] > 0 /\ Detach(q)
      BY <1>4, <2>2, Zenon DEF Detach, TypeOK, PtraceTypeOK
    <3>2. UNCHANGED counter \/ (\E q \in Pids : TraceAgain(q)) \/ (pc = "trace" /\ TraceDone)
      <4>1. CASE Prepare
        BY <1>2, <3>1, <4>1, DropsCounted, TraceStepFrame, Zenon DEF Prepare, PrepareNext, TraceProcess, TraceFails, LookAtProcess, Keep, DropFirst, Goto,
           PrepareProcess, Trace, ptrace
      <4>2. CASE Drop
        BY <3>1, <4>2, DropsCounted, Zenon DEF Drop, Dropped, DropKept, ptrace
      <4> QED BY <4>1, <4>2, RunFrame, OthersFrame, Zenon DEF Next, vars, ptrace
    <3>3. pc = "trace" /\ TraceDone
      BY <1>4, <2>2, <3>2, Zenon DEF TraceAgain, TypeOK, PtraceTypeOK
    <3>4. p = cur
      BY <1>4, <2>2, <3>3, Zenon DEF TraceDone, cur, TypeOK, PtraceTypeOK
    <3> QED BY <3>3, <3>4, Zenon DEF Born
  <2> QED BY <2>1, <2>2, Zenon
<1>5. ASSUME Preparing'
      PROVE  /\ Preparing
             /\ todo' \subseteq todo \/ todo' = {p \in Pids : Exists(p)}
             /\ pc' \in {"trace", "look", "drop"} => cur' \in todo \/ (cur' = cur /\ pc \in {"trace", "look", "drop"})
  <2>1. CASE TraceProcess
    <3>1. cur' = cur
      BY <2>1, TraceStepFrame DEF TraceProcess, TraceFails, TraceDone, NewJob, cur
    <3> QED BY <2>1, <3>1, Zenon DEF TraceProcess, Preparing
  <2>2. CASE PrepareNext \/ LookAtProcess \/ DropFirst
    BY <1>5, <2>2, Zenon DEF PrepareNext, LookAtProcess, DropFirst, Goto, cur, Preparing
  <2>3. ASSUME NEW p \in Pids, PrepareProcess(p) PROVE Preparing /\ todo' \subseteq todo /\ (pc' = pc \/ cur' = p) /\ p \in todo /\ pc = "prepare"
    BY <2>3 DEF PrepareProcess, Trace, StartTrace, Current, NewJob, cur, Preparing
  <2>4. ~Run /\ ~Drop
    BY <1>5, RunFrame, Zenon DEF Drop, Dropped, Goto, DropKept, Preparing, Entered
  <2>5. CASE Threads \/ \E p \in Pids : UseFiles(p)
    BY <1>5, <2>5, OthersFrame, Zenon DEF Preparing, cur
  <2>6. CASE UNCHANGED vars
    BY <1>5, <2>6, Zenon DEF Preparing, cur, vars, ptrace
  <2> QED BY <2>1, <2>2, <2>3, <2>4, <2>5, <2>6, Zenon DEF Next, Prepare
<1>6. \A p \in Pids : Exists(p) => Alive(p)
  BY Zenon DEF Exists, Listed, ThreadsOf, Tids, Born
<1>7. Preparing' => \A p \in todo' : Alive(p)'
  BY <1>1, <1>5, <1>6, Zenon DEF Born, TypeOK
<1>8. pc' \in {"trace", "look", "drop"} => Alive(cur)'
  <2>1. pc' \in {"trace", "look", "drop"} => Preparing' /\ Preparing
    BY <1>5, Zenon DEF Preparing
  <2> QED BY <1>1, <1>2, <1>5, <2>1, Zenon DEF Born, TypeOK
<1> QED BY <1>1, <1>3, <1>4, <1>7, <1>8, Zenon DEF Born

-----------------------------------------------------------------------------
(* The types. *)

(* The steps keep the types, given those of what the code computes. *)
LEMMA TypeStep ==
  ASSUME TypeOK, Counted, Schedule, [Next]_vars, ReopenTyped
  PROVE  TypeOK'
<1> USE DEF TypeOK, PtraceTypeOK
<1>1. ASSUME NEW p \in Pids PROVE NewJob(p) \in Job
  BY DEF NewJob, Job, Iterations
<1>2. CASE PrepareNext
  BY <1>2 DEF PrepareNext, After, Stages, ptrace, files, injected, found, outcome
<1>3. CASE TraceProcess
  <2>1. CASE TraceStep /\ UNCHANGED pc
    <3>1. CASE NextPass
      <4>1. PassesLeft \in 0..Iterations
        BY <3>1 DEF NextPass, PassesLeft, Job, Iterations
      <4>2. Listed(job.pid) \ job.traced \in SUBSET Tids
        BY Zenon DEF Listed, ThreadsOf, Tids, Job
      <4>3. job' \in Job
        BY <3>1, <4>1, <4>2, Zenon DEF NextPass, Job
      <4> QED BY <1>3, <2>1, <3>1, <4>3, Zenon DEF TraceProcess, NextPass, files, injected, found, outcome
    <3>2. ASSUME NEW t \in Tids, AttachTask(t) \/ AttachTaskLate(t)
          PROVE  job' \in Job /\ missed' \in [Pids -> 0..2]
                 /\ thread' \in [Tids -> {"unborn", "run", "stop", "zombie", "gone"}]
      <4>1. job' \in Job
        <5>1. Traced(t) \/ Passed(t)
          BY <3>2, Zenon DEF AttachTask, AttachTaskLate
        <5>2. job.tasks \ {t} \in SUBSET Tids /\ job.traced \cup {t} \in SUBSET Tids
          BY Zenon DEF Job
        <5> QED BY <5>1, <5>2, ZenonT(60) DEF Traced, Passed, Job
      <4>2. missed' \in [Pids -> 0..2]
        <5>1. Missed(t[1]) \/ UNCHANGED missed
          BY <3>2, Zenon DEF AttachTask, AttachTaskLate, Traced
        <5>2. t[1] \in Pids /\ missed \in [Pids -> 0..2]
          BY Zenon DEF Tids
        <5> QED BY ONLY <5>1, <5>2 DEF Missed
      <4>3. thread' \in [Tids -> {"unborn", "run", "stop", "zombie", "gone"}]
        BY <3>2 DEF AttachTask, AttachTaskLate
      <4> QED BY <4>1, <4>2, <4>3, Zenon
    <3> QED BY <1>3, <2>1, <3>1, <3>2, TraceStepFrame, Zenon DEF TraceProcess, TraceStep, files, injected, found, outcome
  <2>2. CASE TraceFails /\ pc' = "prepare"
    BY <1>1, <1>3, <2>2, PtraceAssumption DEF TraceProcess, TraceFails, Mishap, Job, files, injected, found, outcome
  <2>3. CASE TraceDone /\ pc' = "look"
    BY <1>1, <1>3, <2>3 DEF TraceProcess, TraceDone, Job, files, injected, found, outcome
  <2> QED BY <1>3, <2>1, <2>2, <2>3, Zenon DEF TraceProcess
<1>4. CASE LookAtProcess
  <2>1. counter' \in [Pids -> 0..4]
    <3>1. cur \in Pids /\ cur \notin kept[stage] /\ pc = "look" /\ stage \in {"fd", "cwd", "map"}
      BY <1>4, Zenon DEF LookAtProcess, Schedule, cur, Job, Stages
    <3>2. counter[cur] \in 0..3
      <4>1. counter[cur] = Bit(cur \in kept["fd"]) + Bit(cur \in kept["cwd"]) + Bit(cur \in kept["map"]) + Bit(First(cur))
        BY <3>1, Zenon DEF Counted
      <4> QED BY ONLY <3>1, <4>1 DEF Bit
    <3>3. UNCHANGED counter \/ counter' = [counter EXCEPT ![cur] = @ + 1]
      BY <1>4, Zenon DEF LookAtProcess, Keep, TraceAgain
    <3> QED BY <3>1, <3>2, <3>3
  <2>2. kept' \in [Stages -> SUBSET Pids] /\ cases' \in [Pids -> SUBSET Fds]
    <3>1. cur \in Pids /\ OldFds(cur) \in SUBSET Fds
      BY Zenon DEF cur, Job, OldFds
    <3>2. \/ kept' = [kept EXCEPT ![stage] = @ \cup {cur}]
          \/ UNCHANGED kept
      BY <1>4, Zenon DEF LookAtProcess, Keep
    <3>3. \/ cases' = [cases EXCEPT ![cur] = OldFds(cur)]
          \/ cases' = [cases EXCEPT ![cur] = @]
          \/ UNCHANGED cases
      BY <1>4, Zenon DEF LookAtProcess
    <3>4. kept \in [Stages -> SUBSET Pids] /\ cases \in [Pids -> SUBSET Fds] /\ stage \in Stages
      BY Zenon
    <3>5. kept' \in [Stages -> SUBSET Pids]
      BY ONLY <3>1, <3>2, <3>4, Zenon
    <3>6. cases' \in [Pids -> SUBSET Fds]
      BY ONLY <3>1, <3>3, <3>4, Zenon
    <3> QED BY <3>5, <3>6, Zenon
  <2> QED BY <1>4, <2>1, <2>2, Zenon DEF LookAtProcess, files, injected, outcome
<1>5. CASE DropFirst
  <2>1. counter' \in [Pids -> 0..4]
    <3>1. cur \in Pids /\ pc = "drop"
      BY <1>5, Zenon DEF DropFirst, Goto, cur, Job
    <3>2. counter[cur] \in 1..4
      <4>1. counter[cur] = Bit(cur \in kept["fd"]) + Bit(cur \in kept["cwd"]) + Bit(cur \in kept["map"]) + Bit(First(cur))
        BY <3>1, Zenon DEF Counted
      <4>2. First(cur)
        BY <3>1, Zenon DEF First
      <4> QED BY ONLY <4>1, <4>2 DEF Bit
    <3> QED BY <1>5, <3>1, <3>2 DEF DropFirst, Detach
  <2>2. /\ thread' \in [Tids -> {"unborn", "run", "stop", "zombie", "gone"}]
        /\ left' \subseteq Pids /\ mishaps' \in 0..MaxMishaps
    BY <1>5, PtraceAssumption DEF DropFirst, Detach, Mishap, cur, Job
  <2> QED BY <1>5, <2>1, <2>2, Zenon DEF DropFirst, Goto, files, injected, found, outcome
<1>6. ASSUME NEW p \in Pids, PrepareProcess(p) PROVE TypeOK'
  <2>1. counter' \in [Pids -> 0..4]
    BY <1>6, SMTT(30) DEF PrepareProcess, Trace, TraceAgain, Counted, Bit, First
  <2>2. job' \in Job /\ missed' \in [Pids -> 0..2]
    BY <1>1, <1>6 DEF PrepareProcess, Trace, StartTrace, Current
  <2> QED BY <1>6, <2>1, <2>2, Zenon DEF PrepareProcess, Trace, files, injected, found, outcome
<1>7. CASE RunNext
  BY <1>7 DEF RunNext, After, Stages, ptrace, files, injected, found, outcome
<1>8. CASE MapScratch
  BY <1>8, PtraceAssumption DEF MapScratch, CannotStep, RunFails, Panics, Mishap, ptrace, files, injected, found, outcome, cur, Job
<1>9. CASE WriteCode
  BY <1>9 DEF WriteCode, CannotStep, RunFails, Panics, ptrace, files, injected, found, outcome, cur, Job
<1>10. CASE RunCode
  <2>1. cur \in Pids /\ fds[cur] \in [Fds -> Desc]
    BY Zenon DEF cur, Job
  <2>2. CASE stage = "fd" /\ RunFdCode
    <3>1. PICK S \in SUBSET cases[cur] :
            /\ Free(fds[cur]) = {} => S = {}
            /\ fds' = [fds EXCEPT ![cur] = ReopenAll(fds[cur], S)]
            /\ refused' = refused \cup ({cur} \X (cases[cur] \ S))
      BY <2>2, Zenon DEF RunFdCode
    <3>2. ReopenAll(fds[cur], S) \in [Fds -> Desc]
      BY <2>1, <3>1, Zenon DEF ReopenTyped, Table, Opens
    <3>3. fds' \in [Pids -> [Fds -> Desc]] /\ refused' \subseteq Pids \X Fds
      BY <2>1, <3>1, <3>2, Zenon
    <3> QED BY <1>10, <2>2, <3>3 DEF RunCode, Panics, RunFdCode, ptrace, injected, found, outcome, files
  <2>3. CASE stage = "cwd" /\ RunChdir
    BY <1>10, <2>1, <2>3, Zenon DEF RunCode, Panics, RunChdir, ptrace, injected, found, outcome, files
  <2>4. CASE stage = "map" /\ RunMapCode
    BY <1>10, <2>1, <2>4 DEF RunCode, Panics, RunMapCode, ptrace, injected, found, outcome, files
  <2>5. CASE Panics
    BY <2>5, Zenon DEF Panics, ptrace, injected, found, outcome, files
  <2> QED BY <1>10, <2>2, <2>3, <2>4, <2>5, Zenon DEF RunCode, Stages
<1>11. CASE Restore
  <2>1. CASE Panics
    BY <2>1 DEF Panics, ptrace, files, injected, found
  <2>2. regs' \in [Pids -> {"own", "toda"}] \/ Panics
    BY <1>11, Zenon DEF Restore
  <2> QED BY <1>11, <2>1, <2>2 DEF Restore, ptrace, files, found, outcome
<1>12. CASE UnmapScratch
  BY <1>12 DEF UnmapScratch, CannotStep, RunFails, Panics, ptrace, files, injected, found, outcome, cur, Job
<1>13. ASSUME NEW p \in Pids, RunProcess(p) PROVE TypeOK'
  BY <1>1, <1>13, Zenon DEF RunProcess, Goto, Current, files, injected, found, outcome
<1>14. CASE Dropped
  BY <1>14, Zenon DEF Dropped, Goto, ptrace, files, injected, found, outcome
<1>15. ASSUME NEW s \in Stages, NEW p \in Pids, DropKept(s, p) PROVE TypeOK'
  <2>1. counter' \in [Pids -> 0..4]
    <3>1. counter[p] \in 1..4 /\ counter' = [counter EXCEPT ![p] = @ - 1]
      BY <1>15, DropsCounted DEF DropKept, Detach
    <3> QED BY <3>1
  <2>2. /\ thread' \in [Tids -> {"unborn", "run", "stop", "zombie", "gone"}]
        /\ left' \subseteq Pids /\ mishaps' \in 0..MaxMishaps
    BY <1>15, PtraceAssumption DEF DropKept, Detach, Mishap
  <2> QED BY <1>15, <2>1, <2>2, Zenon DEF DropKept, files, injected, outcome
<1>16. CASE Threads
  <2>1. mishaps' \in 0..MaxMishaps
    BY <1>16, PtraceAssumption, SMTT(30) DEF Threads, SpawnThread, ExitThread, Reap, Kill, Mishap
  <2> QED BY <1>16, <2>1, ThreadEffect, Zenon DEF Threads, files, injected, found, outcome
<1>17. ASSUME NEW p \in Pids, UseFiles(p) PROVE TypeOK'
  <2>1. fds' \in [Pids -> [Fds -> Desc]] /\ cwd' \in [Pids -> {"old", "new", "out"}] /\ maps' \in [Pids -> {"none", "old", "elsewhere"}]
    <3>1. ASSUME NEW q \in Pids, NEW u \in Use, Now(q, u)
          PROVE  fds' \in [Pids -> [Fds -> Desc]] /\ cwd' \in [Pids -> {"old", "new", "out"}] /\ maps' \in [Pids -> {"none", "old", "elsewhere"}]
      BY <3>1, Zenon DEF Now, Use
    <3>2. [fds |-> fds[p], cwd |-> cwd[p], maps |-> maps[p]] \in Use
      BY Zenon DEF Use
    <3> QED BY <1>17, <3>1, <3>2, ReplacerAssumption, Zenon DEF UseFiles, Fork
  <2> QED BY <1>17, <2>1, ThreadEffect, OthersFrame DEF UseFiles, Fork, ptrace, injected, found, outcome
<1>18. CASE UNCHANGED vars
  BY <1>18, Zenon DEF vars, ptrace, files, injected, found, outcome
<1> QED BY <1>2, <1>3, <1>4, <1>5, <1>6, <1>7, <1>8, <1>9, <1>10, <1>11, <1>12, <1>13, <1>14, <1>15, <1>16, <1>17, <1>18, Zenon
        DEF Next, Prepare, Run, Drop

-----------------------------------------------------------------------------
(* trace and detach: no thread is left stopped, and none runs. *)

(* The steps keep a stopped thread in the hands of somebody. *)
LEMMA StoppedStep ==
  ASSUME TypeOK, Counted, Passes, StoppedCounted, [Next]_vars
  PROVE  StoppedCounted'
<1> USE DEF StoppedCounted
<1>0. cur \in Pids /\ \A t \in Tids : t[1] \in Pids
  BY Zenon DEF TypeOK, PtraceTypeOK, Job, cur, Tids
<1>1. CASE PrepareNext \/ Dropped
  BY <1>1, Zenon DEF PrepareNext, Dropped, Goto, ptrace, cur
<1>2. CASE TraceProcess
  <2>1. CASE TraceStep /\ UNCHANGED pc
    <3>1. \A t \in job.tasks : t[1] = cur
      BY <1>2, Zenon DEF TraceProcess, Passes, ThreadsOf
    <3> QED BY <1>2, <2>1, <3>1, TraceStepFrame, AttachEffect, Zenon DEF TraceProcess
  <2>2. CASE TraceFails
    <3>1. CASE Listed(cur) = {}
      <4>1. \A t \in Tids : t[1] = cur => thread[t] # "stop"
        BY <3>1, Zenon DEF Listed, ThreadsOf, Tids
      <4> QED BY <2>2, <4>1, Zenon DEF TraceFails, cur
    <3>2. CASE Listed(cur) # {}
      BY <2>2, <3>2, Zenon DEF TraceFails, cur
    <3> QED BY <3>1, <3>2, Zenon
  <2>3. CASE TraceDone
    BY <1>0, <2>3 DEF TraceDone, cur, TypeOK, PtraceTypeOK
  <2> QED BY <1>2, <2>1, <2>2, <2>3, Zenon DEF TraceProcess
<1>3. CASE LookAtProcess
  <2>1. UNCHANGED <<thread, left>> /\ pc # "trace" /\ (UNCHANGED counter \/ TraceAgain(cur))
    BY <1>3, Zenon DEF LookAtProcess, Keep
  <2>2. counter \in [Pids -> 0..4]
    BY Zenon DEF TypeOK, PtraceTypeOK
  <2>3. \A q \in Pids : counter[q] > 0 => counter'[q] > 0
    BY ONLY <2>1, <2>2 DEF TraceAgain
  <2> QED BY <1>0, <2>1, <2>3, Zenon
<1>4. ASSUME NEW p \in Pids, counter[p] > 0, Detach(p), pc # "trace" PROVE StoppedCounted'
  <2>1. counter' = [counter EXCEPT ![p] = @ - 1] /\ counter \in [Pids -> 0..4]
    BY <1>4, DetachEffect, Zenon DEF TypeOK, PtraceTypeOK
  <2>2. SUFFICES ASSUME NEW t \in Tids, thread'[t] = "stop" PROVE counter'[t[1]] > 0 \/ t[1] \in left'
    BY Zenon
  <2>3. thread[t] = "stop"
    BY <1>4, <2>2, DetachEffect, Zenon
  <2>4. CASE t[1] = p
    BY <1>4, <2>1, <2>2, <2>3, <2>4, DetachEffect
  <2>5. CASE t[1] # p
    BY <1>0, <1>4, <2>1, <2>3, <2>5, DetachEffect, Zenon
  <2> QED BY <2>4, <2>5, Zenon
<1>5. CASE DropFirst
  BY <1>4, <1>5, DropsCounted, Zenon DEF DropFirst, Goto
<1>6. ASSUME NEW s \in Stages, NEW p \in Pids, DropKept(s, p) PROVE StoppedCounted'
  BY <1>4, <1>6, DropsCounted, Zenon DEF DropKept
<1>7. ASSUME NEW p \in Pids, PrepareProcess(p) PROVE StoppedCounted'
  <2>1. UNCHANGED <<thread, left>> /\ pc # "trace" /\ (UNCHANGED counter \/ TraceAgain(p))
    BY <1>7, Zenon DEF PrepareProcess, Trace
  <2>2. counter \in [Pids -> 0..4]
    BY Zenon DEF TypeOK, PtraceTypeOK
  <2>3. \A q \in Pids : counter[q] > 0 => counter'[q] > 0
    BY ONLY <2>1, <2>2 DEF TraceAgain
  <2> QED BY <1>0, <2>1, <2>3, Zenon
<1>8. CASE Run
  BY <1>8, RunFrame, Zenon DEF Entered
<1>9. CASE Threads \/ \E p \in Pids : UseFiles(p)
  BY <1>9, OthersFrame, ThreadEffect, Zenon DEF cur
<1>10. CASE UNCHANGED vars
  BY <1>10, Zenon DEF vars, ptrace, cur
<1> QED BY <1>1, <1>2, <1>3, <1>5, <1>6, <1>7, <1>8, <1>9, <1>10, Zenon DEF Next, Prepare, Drop

(* The passes of trace: what the threads found and missed so far say. *)
LEMMA PassesStep ==
  ASSUME TypeOK, Counted, Born, Passes, [Next]_vars
  PROVE  Passes'
<1> DEFINE p == cur
<1>0. /\ p \in Pids /\ job \in Job /\ job.iterations \in 0..2 /\ job.found \in BOOLEAN
      /\ missed \in [Pids -> 0..2] /\ missed[p] \in 0..2 /\ job.tasks \subseteq Tids /\ job.traced \subseteq Tids
      /\ thread \in [Tids -> {"unborn", "run", "stop", "zombie", "gone"}]
  BY Zenon DEF TypeOK, PtraceTypeOK, Job, cur, Iterations
<1>1. CASE TraceProcess /\ TraceStep /\ UNCHANGED pc
  <2>1. pc = "trace" /\ cur' = cur /\ UNCHANGED denied
    BY <1>1, TraceStepFrame, Zenon DEF TraceProcess
  <2>2. /\ job.tasks \subseteq ThreadsOf(p) /\ job.iterations \in 1..2
        /\ \A t \in job.traced : thread[t] \notin {"unborn", "run"}
    BY <1>0, <2>1 DEF Passes
  <2>3. Runs(p)' => Runs(p)
    BY <1>0, <1>1, <2>1, AttachEffect, Zenon DEF Runs, ThreadsOf, Tids
  <2>4. CASE NextPass
    <3>1. /\ job'.iterations = PassesLeft /\ job'.found = FALSE /\ job'.tasks = Listed(p) \ job.traced
          /\ job'.traced = job.traced /\ UNCHANGED <<thread, missed>> /\ job.tasks = {} /\ PassesLeft > 0
      BY <1>0, <2>4, Zenon DEF NextPass, cur, Job
    <3>2. job'.tasks \subseteq ThreadsOf(p) /\ (Runs(p) => \E t \in job'.tasks : thread[t] = "run")
      BY <2>2, <3>1, Zenon DEF Listed, Runs
    <3>3. Runs(p) /\ p \notin denied => missed[p] >= Iterations - PassesLeft
      BY <1>0, <2>1, <2>2, <3>1 DEF Passes, PassesLeft, Iterations
    <3> QED BY <2>1, <2>2, <3>1, <3>2, <3>3, Zenon DEF Passes, Runs, ThreadsOf
  <2>5. ASSUME NEW t \in job.tasks, AttachTask(t) \/ AttachTaskLate(t) PROVE Passes'
    <3>1. t \in Tids /\ t[1] = p
      BY <1>0, <2>2, <2>5, Zenon DEF ThreadsOf
    <3>2. CASE Traced(t) /\ thread'[t] \notin {"unborn", "run"}
      <4>1. /\ job'.tasks = job.tasks \ {t} /\ job'.traced = job.traced \cup {t} /\ job'.found = TRUE
            /\ job'.iterations = job.iterations /\ UNCHANGED missed
        BY <1>0, <3>2, Zenon DEF Traced, Job
      <4>2. \A u \in job'.traced : thread'[u] \notin {"unborn", "run"}
        BY <1>0, <1>1, <2>2, <3>2, <4>1, AttachEffect, Zenon
      <4> QED BY <2>1, <2>2, <2>3, <4>1, <4>2, Zenon DEF Passes, ThreadsOf
    <3>3. CASE Passed(t) /\ Missed(p)
      <4>1. /\ job'.tasks = job.tasks \ {t} /\ job'.traced = job.traced /\ job'.found = job.found
            /\ job'.iterations = job.iterations /\ missed'[p] = IF missed[p] < 2 THEN missed[p] + 1 ELSE 2
        BY <1>0, <3>3, Zenon DEF Passed, Missed, Job
      <4>2. \A u \in job'.traced : thread'[u] \notin {"unborn", "run"}
        BY <1>0, <1>1, <2>2, <4>1, AttachEffect, Zenon
      <4>3. Runs(p) /\ p \notin denied => missed[p] >= Iterations - job.iterations
        BY <2>1, Zenon DEF Passes
      <4>4. Runs(p) /\ p \notin denied => missed'[p] > Iterations - job.iterations
        BY <1>0, <2>2, <4>1, <4>3 DEF Iterations
      <4>5. Runs(p) /\ p \notin denied => missed'[p] >= Iterations - job.iterations
        BY <1>0, <2>2, <4>1, <4>3 DEF Iterations
      <4> QED BY <2>1, <2>2, <2>3, <4>1, <4>2, <4>4, <4>5, Zenon DEF Passes, ThreadsOf
    <3>4. CASE Passed(t) /\ UNCHANGED <<thread, missed>> /\ (thread[t] = "stop" \/ t[1] \in denied)
      <4>1. /\ job'.tasks = job.tasks \ {t} /\ job'.traced = job.traced /\ job'.found = job.found
            /\ job'.iterations = job.iterations
        BY <1>0, <3>4, Zenon DEF Passed, Job
      <4> QED BY <2>1, <2>2, <2>3, <3>1, <3>4, <4>1, Zenon DEF Passes, ThreadsOf
    <3>5. CASE AttachTask(t)
      BY <1>0, <3>1, <3>2, <3>3, <3>4, <3>5, Zenon DEF AttachTask
    <3>6. CASE AttachTaskLate(t)
      BY <1>0, <3>1, <3>2, <3>3, <3>6, Zenon DEF AttachTaskLate
    <3> QED BY <2>5, <3>5, <3>6, Zenon
  <2> QED BY <1>1, <2>4, <2>5, Zenon DEF TraceStep, AttachTask, AttachTaskLate
<1>2. ASSUME NEW q \in Pids, StartTrace(q), UNCHANGED thread PROVE Passes'
  BY <1>0, <1>2 DEF StartTrace, NewJob, Passes, Iterations, cur
<1>3. CASE Threads \/ \E q \in Pids : UseFiles(q)
  <2>1. SUFFICES ASSUME pc = "trace" PROVE Passes'
    BY <1>3, OthersFrame, Zenon DEF Passes
  <2>2. UNCHANGED <<job, missed, denied, pc>> /\ cur' = cur
    BY <1>3, OthersFrame, Zenon DEF cur
  <2>3. Runs(p)' => Runs(p)
    BY <1>0, <1>3, <2>1, <2>2, RunsEffect, Zenon DEF Born, Runs
  <2>4. \A t \in job.traced : thread'[t] \notin {"unborn", "run"}
    BY <1>0, <1>3, <2>1, ThreadEffect, Zenon DEF Passes
  <2>5. \A t \in job.tasks : thread[t] \in {"run", "zombie", "gone"} => thread'[t] \in {"run", "zombie", "gone"}
    BY <1>0, <1>3, ThreadEffect, Zenon
  <2> QED BY <2>1, <2>2, <2>3, <2>4, <2>5, Zenon DEF Passes, ThreadsOf
<1>4. CASE pc' # "trace"
  BY <1>4, Zenon DEF Passes
<1>5. CASE UNCHANGED vars
  BY <1>5, Zenon DEF vars, ptrace, Passes, cur, Runs, ThreadsOf
<1>6. CASE Prepare
  BY <1>1, <1>2, <1>4, <1>6, Zenon DEF Prepare, PrepareNext, TraceProcess, LookAtProcess, DropFirst, Goto, PrepareProcess, Trace
<1>7. CASE Drop
  BY <1>4, <1>7, Zenon DEF Drop, Dropped, Goto, DropKept
<1>8. CASE Run
  BY <1>4, <1>8, RunFrame, Zenon DEF Entered
<1> QED BY <1>3, <1>5, <1>6, <1>7, <1>8, Zenon DEF Next

(* What trace has missed of a process does not change until trace begins   *)
(* anew, when nobody holds the process.                                    *)
LEMMA MissedKept ==
  ASSUME TypeOK, Schedule, Passes, [Next]_vars, NEW p \in Pids, counter[p] > 0
  PROVE  missed'[p] = missed[p] /\ UNCHANGED denied
<1>1. CASE TraceProcess
  <2>1. pc = "trace" /\ counter[cur] = 0
    BY <1>1, Zenon DEF TraceProcess, Schedule
  <2>2. p # cur
    BY <2>1
  <2>3. \A t \in job.tasks : t[1] = cur
    BY <2>1, Zenon DEF Passes, ThreadsOf
  <2>4. CASE TraceStep
    <3>1. UNCHANGED missed \/ \E t \in job.tasks : Missed(t[1])
      BY <2>4, Zenon DEF TraceStep, NextPass, AttachTask, AttachTaskLate, Traced
    <3>2. UNCHANGED denied
      BY <2>4, TraceStepFrame, Zenon
    <3> QED BY <2>2, <2>3, <3>1, <3>2 DEF Missed, TypeOK, PtraceTypeOK
  <2> QED BY <1>1, <2>4, Zenon DEF TraceProcess, TraceFails, TraceDone
<1>2. CASE PrepareNext \/ LookAtProcess \/ DropFirst \/ Dropped
  BY <1>2, Zenon DEF PrepareNext, LookAtProcess, DropFirst, Dropped, ptrace
<1>3. ASSUME NEW q \in Pids, PrepareProcess(q) PROVE missed'[p] = missed[p] /\ UNCHANGED denied
  BY <1>3 DEF PrepareProcess, Trace, StartTrace, TypeOK, PtraceTypeOK
<1>4. ASSUME NEW s \in Stages, NEW q \in Pids, DropKept(s, q) PROVE UNCHANGED <<missed, denied>>
  BY <1>4, Zenon DEF DropKept
<1> QED BY <1>1, <1>2, <1>3, <1>4, RunFrame, OthersFrame, Zenon DEF Next, Prepare, Drop, vars, ptrace

(* No thread of a process that somebody holds begins to run. *)
LEMMA AllStoppedStep ==
  ASSUME TypeOK, Counted, Schedule, Born, Passes, AllStopped, [Next]_vars
  PROVE  AllStopped'
<1> USE DEF AllStopped
<1>0. /\ cur \in Pids /\ counter \in [Pids -> 0..4] /\ missed \in [Pids -> 0..2]
      /\ thread \in [Tids -> {"unborn", "run", "stop", "zombie", "gone"}]
  BY Zenon DEF TypeOK, PtraceTypeOK, Job, cur
<1>1. CASE UNCHANGED <<thread, denied, counter, missed>>
  BY <1>1, Zenon DEF Runs
<1>2. ASSUME NEW p \in Pids, TraceAgain(p), UNCHANGED <<thread, denied, missed>> PROVE AllStopped'
  BY <1>0, <1>2, Zenon DEF TraceAgain, Runs
<1>3. ASSUME NEW p \in Pids, StartTrace(p), UNCHANGED <<thread, denied, counter>> PROVE AllStopped'
  BY <1>0, <1>3 DEF StartTrace, Runs
<1>4. CASE TraceProcess /\ TraceStep
  <2>1. pc = "trace" /\ counter[cur] = 0 /\ UNCHANGED <<counter, denied>>
    BY <1>4, TraceStepFrame, Zenon DEF TraceProcess, Schedule
  <2>2. \A p \in Pids : Runs(p)' => Runs(p)
    BY <1>0, <1>4, AttachEffect, Zenon DEF Runs, ThreadsOf, Tids
  <2>3. \A p \in Pids : counter[p] > 0 => missed'[p] = missed[p]
    BY MissedKept, Zenon
  <2> QED BY <1>0, <2>1, <2>2, <2>3, Zenon
<1>5. CASE TraceProcess /\ TraceDone
  <2>1. pc = "trace" /\ UNCHANGED <<thread, denied, missed>> /\ counter' = [counter EXCEPT ![cur] = 1]
    BY <1>5, Zenon DEF TraceProcess, TraceDone, cur
  <2>2. Runs(cur) /\ cur \notin denied => missed[cur] = 2
    <3>1. job.iterations \in 0..2
      BY Zenon DEF TypeOK, PtraceTypeOK, Job, Iterations
    <3>2. job.tasks = {} /\ ~job.found /\ job.iterations = 1
      BY <1>5, <2>1, <3>1 DEF TraceDone, PassesLeft, Passes
    <3> QED BY <1>0, <2>1, <3>2 DEF Passes, Iterations
  <2> QED BY <1>0, <2>1, <2>2, Zenon DEF Runs
<1>6. CASE TraceProcess /\ TraceFails
  BY <1>1, <1>6, Zenon DEF TraceFails
<1>7. ASSUME NEW p \in Pids, counter[p] > 0, Detach(p), UNCHANGED <<denied, missed>> PROVE AllStopped'
  <2>1. counter' = [counter EXCEPT ![p] = @ - 1]
    BY <1>7, DetachEffect, Zenon
  <2>2. ASSUME NEW q \in Pids, Runs(q)', counter'[q] > 0 PROVE Runs(q) /\ counter[q] > 0
    <3>1. PICK t \in ThreadsOf(q) : thread'[t] = "run"
      BY <2>2, Zenon DEF Runs
    <3>2. t \in Tids /\ t[1] = q
      BY <3>1, Zenon DEF ThreadsOf, Tids
    <3>3. thread[t] = "run"
      BY <1>7, <2>2, <3>1, <3>2, DetachEffect
    <3> QED BY <1>0, <1>7, <2>1, <2>2, <3>1, <3>3, Zenon DEF Runs
  <2> QED BY <1>7, <2>2, Zenon
<1>8. CASE Threads \/ \E p \in Pids : UseFiles(p)
  <2>1. UNCHANGED <<counter, denied, missed>>
    BY <1>8, OthersFrame, Zenon
  <2>2. \A p \in Pids : Runs(p)' /\ counter[p] > 0 => Runs(p)
    BY <1>8, RunsEffect, Zenon DEF Born
  <2> QED BY <2>1, <2>2, Zenon
<1>9. CASE Prepare
  <2>1. CASE PrepareNext
    BY <1>1, <2>1, Zenon DEF PrepareNext, ptrace
  <2>2. CASE LookAtProcess
    BY <1>0, <1>1, <1>2, <2>2, Zenon DEF LookAtProcess, Keep
  <2>3. CASE DropFirst
    BY <1>7, <2>3, DropsCounted, Zenon DEF DropFirst, Goto
  <2>4. ASSUME NEW p \in Pids, PrepareProcess(p) PROVE AllStopped'
    BY <1>1, <1>2, <1>3, <2>4, Zenon DEF PrepareProcess, Trace
  <2> QED BY <1>4, <1>5, <1>6, <1>9, <2>1, <2>2, <2>3, <2>4, Zenon DEF Prepare, TraceProcess
<1>10. CASE Drop
  BY <1>1, <1>7, <1>10, DropsCounted, Zenon DEF Drop, Dropped, DropKept, ptrace
<1>11. CASE Run \/ UNCHANGED vars
  BY <1>1, <1>11, RunFrame, Zenon DEF vars, ptrace
<1> QED BY <1>8, <1>9, <1>10, <1>11, Zenon DEF Next

-----------------------------------------------------------------------------
(* What toda leaves in the processes. *)

(* A process that is dead stays dead. *)
LEMMA StaysDead ==
  ASSUME TypeOK, Counted, [Next]_vars, NEW p \in Pids, Dead(p)
  PROVE  Dead(p)'
<1>0. Leader(p) \in Tids
  BY PtraceAssumption DEF Leader, Tids
<1>1. CASE UNCHANGED thread
  BY <1>1, Zenon DEF Dead
<1>2. CASE TraceStep
  BY <1>0, <1>2, AttachEffect, Zenon DEF Dead
<1>3. ASSUME NEW q \in Pids, counter[q] > 0, Detach(q) PROVE Dead(p)'
  BY <1>0, <1>3, DetachEffect, Zenon DEF Dead
<1>4. CASE Threads \/ \E q \in Pids : UseFiles(q)
  BY <1>0, <1>4, ThreadEffect, Zenon DEF Dead
<1> QED BY <1>1, <1>2, <1>3, <1>4, TodaThreads, Zenon DEF Next, vars, ptrace

(* What is in the process under way is what its steps so far put there. *)
LEMMA CleanStep ==
  ASSUME TypeOK, Counted, Clean, [Next]_vars
  PROVE  Clean'
<1> USE DEF Clean
<1>0. /\ cur \in Pids /\ regs \in [Pids -> {"own", "toda"}] /\ \A p \in Pids : Leader(p) \in Tids /\ (Dead(p) => Dead(p)')
  BY StaysDead, PtraceAssumption DEF TypeOK, PtraceTypeOK, Job, cur, Leader, Tids
<1>1. CASE UNCHANGED injected /\ pc \notin {"code", "running", "restore", "unmap"}
  BY <1>0, <1>1, Zenon DEF injected
<1>2. CASE UNCHANGED injected /\ ~LeaderHeld
  BY <1>0, <1>2, Zenon DEF injected
<1>3. CASE Threads \/ \E p \in Pids : UseFiles(p)
  <2>1. UNCHANGED <<pc, job, regs, scratch>> /\ cur' = cur
    BY <1>3, OthersFrame, Zenon DEF injected, cur
  <2>2. LeaderHeld => LeaderHeld' \/ Dead(cur)'
    BY <1>0, <1>3, <2>1, ThreadEffect, Zenon DEF LeaderHeld, Dead
  <2> QED BY <1>0, <2>1, <2>2, Zenon
<1>4. CASE Prepare \/ Drop
  <2>1. UNCHANGED injected /\ pc \in {"prepare", "trace", "look", "drop", "release"}
    BY <1>4, Zenon DEF Prepare, PrepareNext, TraceProcess, LookAtProcess, DropFirst, Goto, PrepareProcess, Drop, Dropped, DropKept
  <2> QED BY <1>1, <2>1, Zenon
<1>5. CASE CannotStep
  BY <1>2, <1>5, Zenon DEF CannotStep, RunFails, Panics
<1>6. CASE Panics /\ ~LeaderHeld
  BY <1>2, <1>6, Zenon DEF Panics
<1>7. CASE LeaderHeld /\ UNCHANGED <<thread, job>> /\ (MapScratch \/ WriteCode \/ RunCode \/ Restore \/ UnmapScratch)
  <2>1. cur' = cur /\ LeaderHeld'
    BY <1>7, Zenon DEF cur, LeaderHeld
  <2>2. CASE MapScratch
    BY <1>0, <1>7, <2>1, <2>2, Zenon DEF MapScratch, CannotStep
  <2>3. CASE WriteCode
    BY <1>0, <1>7, <2>1, <2>3, Zenon DEF WriteCode, CannotStep, RunFails, injected
  <2>4. CASE RunCode
    BY <1>0, <1>7, <2>1, <2>4, Zenon DEF RunCode, injected
  <2>5. CASE Restore
    BY <1>0, <1>7, <2>1, <2>5, Zenon DEF Restore
  <2>6. CASE UnmapScratch
    BY <1>0, <1>7, <2>1, <2>6, Zenon DEF UnmapScratch, CannotStep
  <2> QED BY <1>7, <2>2, <2>3, <2>4, <2>5, <2>6, Zenon
<1>8. MapScratch \/ WriteCode \/ RunCode \/ Restore \/ UnmapScratch =>
        CannotStep \/ (Panics /\ ~LeaderHeld) \/ (LeaderHeld /\ UNCHANGED <<thread, job>>)
  BY Zenon DEF MapScratch, WriteCode, RunCode, Restore, UnmapScratch, RunFails, ptrace
<1>9. CASE RunNext \/ \E p \in Pids : RunProcess(p)
  BY <1>1, <1>9, Zenon DEF RunNext, RunProcess, Goto
<1>10. CASE UNCHANGED vars
  BY <1>0, <1>10, Zenon DEF vars, ptrace, injected, cur, LeaderHeld
<1> QED BY <1>3, <1>4, <1>5, <1>6, <1>7, <1>8, <1>9, <1>10, Zenon DEF Next, Run

-----------------------------------------------------------------------------
(* What the replacers have noted, and what they do with it. *)

(* A process that somebody holds stays caught, or not, and changes none of *)
(* its files if it is caught.                                              *)
LEMMA CaughtKeepsFiles ==
  ASSUME IInv, [Next]_vars, NEW p \in Pids, counter[p] > 0, Caught(p)'
  PROVE  Caught(p) /\ (UNCHANGED <<fds[p], cwd[p], maps[p]>> \/ (RunCode /\ LeaderHeld /\ p = cur))
<1> USE DEF IInv
<1>1. Caught(p)
  BY MissedKept, Zenon DEF Caught
<1> SUFFICES UNCHANGED <<fds[p], cwd[p], maps[p]>> \/ (RunCode /\ LeaderHeld /\ p = cur)
  BY <1>1, Zenon
<1>2. ~Runs(p) /\ thread[Leader(p)] # "unborn"
  BY <1>1 DEF AllStopped, Caught, Born, TypeOK, PtraceTypeOK
<1>3. ASSUME NEW q \in Pids, UseFiles(q) PROVE UNCHANGED <<fds[p], cwd[p], maps[p]>>
  <2>1. CASE \E u \in Uses : Now(q, u)
    BY <1>2, <1>3, <2>1, Zenon DEF UseFiles, Now, TypeOK
  <2>2. ASSUME NEW r \in Pids, Fork(q, r) PROVE UNCHANGED <<fds[p], cwd[p], maps[p]>>
    <3>1. r # p
      BY <1>2, <2>2, Zenon DEF Fork, NewThread
    <3> QED BY <2>2, <3>1, Zenon DEF Fork, Now, TypeOK
  <2> QED BY <1>3, <2>1, <2>2, Zenon DEF UseFiles
<1>4. CASE Threads \/ Prepare \/ Drop \/ UNCHANGED vars
  BY <1>4, Zenon DEF Threads, Prepare, PrepareNext, TraceProcess, LookAtProcess, DropFirst, PrepareProcess, Drop, Dropped, DropKept, vars, files
<1>5. CASE RunCode
  <2>1. CASE Panics
    BY <2>1, Zenon DEF Panics, files
  <2>2. CASE LeaderHeld /\ p # cur
    BY <1>5, <2>2, Zenon DEF RunCode, RunFdCode, RunChdir, RunMapCode, Stages, TypeOK
  <2> QED BY <1>5, <2>1, <2>2, Zenon DEF RunCode
<1>6. CASE RunNext \/ MapScratch \/ WriteCode \/ Restore \/ UnmapScratch \/ \E q \in Pids : RunProcess(q)
  BY <1>6, Zenon DEF RunNext, MapScratch, WriteCode, Restore, UnmapScratch, RunProcess, CannotStep, RunFails, Panics, files
<1> QED BY <1>1, <1>3, <1>4, <1>5, <1>6, Zenon DEF Next, Run

(* What a replacer holds in the end it has held before, but for the        *)
(* process it has just looked at; its code does not run before its turn.   *)
LEMMA PendingBefore ==
  ASSUME IInv, [Next]_vars, NEW s \in Stages, NEW p \in Pids, Pending(s, p)'
  PROVE  \/ Pending(s, p) /\ p \in kept[s]
         \/ LookAtProcess /\ stage = s /\ p = cur
<1> USE DEF IInv
<1>0. kept \in [Stages -> SUBSET Pids] /\ cur \in Pids /\ stage \in Stages
  BY Zenon DEF TypeOK, PtraceTypeOK, Job, cur
<1>1. CASE LookAtProcess
  BY <1>0, <1>1 DEF LookAtProcess, Keep, Pending, Preparing, Stages
<1>2. CASE UNCHANGED <<kept, pc, stage, todo>>
  BY <1>2, Zenon DEF Pending, Preparing
<1>3. CASE Preparing /\ UNCHANGED kept
  BY <1>3, Zenon DEF Pending, Preparing
<1>4. CASE Run
  <2>1. UNCHANGED kept /\ pc \in Entered \cup {"run"} /\ pc' \in Entered \cup {"run", "release"}
    BY <1>4, RunFrame, Zenon
  <2>2. ASSUME RunNext PROVE Pending(s, p)
    BY <1>0, <2>1, <2>2 DEF RunNext, Pending, Preparing, Entered, After, Order, Stages
  <2>3. ASSUME stage' = stage, todo' \subseteq todo PROVE Pending(s, p)
    BY <2>1, <2>3, Zenon DEF Pending, Preparing, Entered
  <2>4. ASSUME NEW q \in Pids, RunProcess(q) PROVE stage' = stage /\ todo' \subseteq todo
    BY <2>4, Zenon DEF RunProcess
  <2>5. MapScratch \/ WriteCode \/ RunCode \/ Restore \/ UnmapScratch => stage' = stage /\ todo' \subseteq todo
    BY Zenon DEF MapScratch, WriteCode, RunCode, Restore, UnmapScratch, CannotStep, RunFails, Panics
  <2>6. Pending(s, p)
    BY <1>4, <2>2, <2>3, <2>4, <2>5, Zenon DEF Run
  <2> QED BY <2>6, Zenon DEF Pending
<1>5. CASE Drop
  BY <1>5, Zenon DEF Drop, Dropped, Goto, DropKept, Pending, Preparing
<1>6. CASE Prepare /\ ~LookAtProcess
  BY <1>3, <1>6, Zenon DEF Prepare, PrepareNext, TraceProcess, DropFirst, Goto, PrepareProcess, found, Preparing
<1>7. CASE Threads \/ (\E q \in Pids : UseFiles(q)) \/ UNCHANGED vars
  BY <1>2, <1>7, OthersFrame, Zenon DEF found, vars
<1> QED BY <1>1, <1>4, <1>5, <1>6, <1>7, Zenon DEF Next

-----------------------------------------------------------------------------
(* What is noted of a process, and the theorems *)

(* What is noted of a process holds until its turn comes. *)
LEMMA FreshStep ==
  ASSUME IInv, [Next]_vars, TypeOK'
  PROVE  Fresh'
<1> USE DEF IInv
<1>0. /\ kept \in [{"fd", "cwd", "map"} -> SUBSET Pids] /\ cur \in Pids /\ stage \in {"fd", "cwd", "map"}
      /\ cases \in [Pids -> SUBSET Fds]
  BY Zenon DEF TypeOK, PtraceTypeOK, Job, cur, Stages
<1>1. ASSUME NEW s \in Stages, NEW p \in kept[s] PROVE p \in Pids /\ counter[p] > 0
  BY <1>1, DropsCounted, Zenon
<1>2. ASSUME NEW p \in Pids PROVE OldFds(p)' = {f \in Fds : (fds[p]')[f].on = "old"}
  BY Zenon DEF OldFds
<1>3. CASE LookAtProcess
  <2>1. /\ pc = "look" /\ UNCHANGED <<job, denied, missed, fds, cwd, maps, stage>> /\ pc' \in {"prepare", "drop"} /\ cur' = cur
        /\ \A p \in Pids : (Caught(p)' <=> Caught(p)) /\ OldFds(p)' = OldFds(p)
    BY <1>3, Zenon DEF LookAtProcess, files, cur, Caught, OldFds
  <2>2. \A s \in Stages, p \in Pids : p \in kept[s] => Pending(s, p)
    BY <2>1, Zenon DEF Pending, Preparing
  <2>3. CASE stage = "cwd"
    <3>1. kept' = [kept EXCEPT !["cwd"] = @ \cup {cur}] /\ UNCHANGED cases
      BY <1>3, <2>3, Zenon DEF LookAtProcess
    <3> QED BY <1>0, <2>1, <2>2, <2>3, <3>1, Zenon DEF Fresh, Pending, Stages
  <2>4. CASE stage = "fd"
    <3>1. kept["cwd"] = {}
      <4>1. pc = "look"
        BY <2>1, Zenon
      <4>2. Order["fd"] < Order["cwd"] /\ "cwd" \in Stages
        BY DEF Order, Stages
      <4> QED BY <2>4, <4>1, <4>2, Zenon DEF Schedule, Preparing
    <3>2. \/ UNCHANGED <<kept, cases>>
          \/ kept' = [kept EXCEPT !["fd"] = @ \cup {cur}] /\ cases' = [cases EXCEPT ![cur] = OldFds(cur)]
      BY <1>3, <2>4, Zenon DEF LookAtProcess, Keep
    <3> QED BY <1>0, <2>1, <2>2, <2>4, <3>1, <3>2, SMTT(30) DEF Fresh, Pending, Stages
  <2>5. CASE stage = "map"
    <3>1. UNCHANGED <<kept, cases>> \/ (kept' = [kept EXCEPT !["map"] = @ \cup {cur}] /\ UNCHANGED cases /\ maps[cur] = "old")
      <4>1. [cases EXCEPT ![cur] = cases[cur]] = cases
        BY <1>0, Zenon
      <4> QED BY <1>3, <2>5, <4>1, Zenon DEF LookAtProcess, Keep, Wanted
    <3> QED BY <1>0, <2>1, <2>2, <2>5, <3>1 DEF Fresh, Pending, Stages
  <2> QED BY <1>0, <2>3, <2>4, <2>5, Zenon
<1>4. CASE ~LookAtProcess
  <2>1. cases' = cases /\ \A s \in Stages : kept'[s] \subseteq kept[s]
    <3>1. CASE Prepare
      BY <1>4, <3>1, Zenon DEF Prepare, PrepareNext, TraceProcess, DropFirst, PrepareProcess, found
    <3>2. CASE Drop
      BY <1>0, <3>2, Zenon DEF Drop, Dropped, DropKept, found, Stages
    <3> QED BY <3>1, <3>2, RunFrame, OthersFrame, Zenon DEF Next, vars, found
  <2>2. ASSUME NEW p \in Pids, Caught(p)' PROVE
          /\ Pending("fd", p)' => cases'[p] = OldFds(p)'
          /\ Pending("map", p)' => maps'[p] = "old"
          /\ Pending("cwd", p)' /\ p \in kept'["fd"] => cwd'[p] = "old"
    <3>1. ASSUME NEW s \in Stages, Pending(s, p)'
          PROVE  /\ Pending(s, p) /\ Caught(p)
                 /\ s = "fd" => fds'[p] = fds[p]
                 /\ s = "map" => maps'[p] = maps[p]
                 /\ s = "cwd" => cwd'[p] = cwd[p]
      <4>1. Pending(s, p) /\ counter[p] > 0
        BY <1>1, <1>4, <3>1, PendingBefore, Zenon
      <4>2. Caught(p) /\ (UNCHANGED <<fds[p], cwd[p], maps[p]>> \/ (RunCode /\ LeaderHeld /\ p = cur))
        BY <2>2, <4>1, CaughtKeepsFiles, Zenon
      <4>3. ASSUME RunCode, LeaderHeld, p = cur
            PROVE  /\ s = "fd" => UNCHANGED fds
                   /\ s = "map" => UNCHANGED maps
                   /\ s = "cwd" => UNCHANGED cwd
        <5>1. pc = "running" /\ pc' = "restore" /\ UNCHANGED <<stage, todo>>
          BY <4>3, Zenon DEF RunCode
        <5>2. cur \notin todo
          BY <5>1, Zenon DEF Schedule, Entered
        <5>3. stage # s
          BY <3>1, <4>3, <5>1, <5>2 DEF Pending, Preparing, Order, Stages
        <5> QED BY <1>0, <4>3, <5>3, Zenon DEF RunCode, RunFdCode, RunChdir, RunMapCode, Stages
      <4> QED BY <4>1, <4>2, <4>3, Zenon
    <3>2. ASSUME Pending("fd", p)' PROVE cases'[p] = OldFds(p)'
      <4>1. Pending("fd", p) /\ Caught(p) /\ fds'[p] = fds[p]
        BY <3>1, <3>2, Zenon DEF Stages
      <4> QED BY <2>1, <4>1, Zenon DEF Fresh, OldFds
    <3>3. ASSUME Pending("map", p)' PROVE maps'[p] = "old"
      BY <3>1, <3>3, Zenon DEF Stages, Fresh
    <3>4. ASSUME Pending("cwd", p)', p \in kept'["fd"] PROVE cwd'[p] = "old"
      BY <2>1, <3>1, <3>4, Zenon DEF Stages, Fresh
    <3> QED BY <3>2, <3>3, <3>4, Zenon
  <2>3. ASSUME NEW p \in Pids, p = cur', pc' = "look", stage' = "cwd", p \in kept'["fd"], Caught(p)'
        PROVE  cwd'[p] = "old"
    <3>1. counter[p] > 0 /\ p \in kept["fd"] /\ Caught(p) /\ cwd'[p] = cwd[p]
      <4>1. counter[p] > 0 /\ p \in kept["fd"]
        BY <1>1, <2>1, <2>3, Zenon DEF Stages
      <4> QED BY <2>3, <4>1, CaughtKeepsFiles, Zenon DEF RunCode
    <3>2. ASSUME NEW q \in Pids, PrepareProcess(q) PROVE cwd[p] = "old"
      BY <2>3, <3>1, <3>2, SMTT(30) DEF PrepareProcess, Trace, TraceAgain, Current, NewJob, cur
    <3>3. ~TraceProcess
      <4>1. TraceProcess => pc = "trace" /\ cur' = cur
        BY <2>3 DEF TraceProcess, TraceDone, NewJob, cur
      <4> QED BY <2>3, <3>1, <4>1, SMTT(30) DEF Schedule
    <3>4. CASE UNCHANGED <<pc, stage, job>>
      BY <2>3, <3>1, <3>4, Zenon DEF Fresh, cur
    <3>5. ~PrepareNext /\ ~DropFirst /\ ~Run /\ ~Drop
      BY <2>3, RunFrame, Zenon DEF PrepareNext, DropFirst, Goto, Drop, Dropped, DropKept, Entered
    <3> QED BY <1>4, <3>1, <3>2, <3>3, <3>4, <3>5, OthersFrame, Zenon DEF Next, Prepare, vars, ptrace
  <2>4. ASSUME NEW p \in Pids, p = cur', pc' \in {"enter", "code", "running"}, stage' = "fd", Caught(p)'
        PROVE  cases'[p] = OldFds(p)'
    <3>1. p \in kept["fd"] /\ stage = "fd" /\ ((p \in todo /\ pc = "run") \/ (p = cur /\ pc \in {"enter", "code", "running"}))
      <4>1. ASSUME NEW q \in Pids, RunProcess(q) PROVE stage = "fd" /\ p \in todo /\ pc = "run"
        BY <2>4, <4>1, Zenon DEF RunProcess, Goto, Current, NewJob, cur
      <4>2. MapScratch \/ WriteCode \/ RunCode => UNCHANGED <<stage, job>> /\ pc \in {"enter", "code", "running"}
        BY <2>4, Zenon DEF MapScratch, WriteCode, RunCode, CannotStep, RunFails, Panics, ptrace
      <4>3. ~RunNext /\ ~Restore /\ ~UnmapScratch /\ ~Prepare /\ ~Drop
        BY <2>4, Zenon DEF RunNext, Restore, UnmapScratch, CannotStep, RunFails, Panics, Prepare, PrepareNext, TraceProcess, LookAtProcess, DropFirst, Goto,
           PrepareProcess, Trace, Drop, Dropped, DropKept
      <4>4. stage = "fd" /\ ((p \in todo /\ pc = "run") \/ (p = cur /\ pc \in {"enter", "code", "running"}))
        BY <2>4, <4>1, <4>2, <4>3, OthersFrame, Zenon DEF Next, Run, cur, vars, ptrace
      <4> QED BY <4>4, Zenon DEF Schedule, Entered
    <3>2. counter[p] > 0
      BY <1>1, <3>1, Zenon DEF Stages
    <3>3. Caught(p) /\ fds'[p] = fds[p]
      BY <2>4, <3>2, CaughtKeepsFiles, Zenon DEF RunCode
    <3>4. cases[p] = OldFds(p)
      BY <3>1, <3>3, Zenon DEF Fresh, Pending, Preparing
    <3> QED BY <2>1, <3>3, <3>4, Zenon DEF OldFds
  <2>5. cur' \in Pids
    BY Zenon DEF TypeOK, PtraceTypeOK, Job, cur
  <2> QED BY <2>2, <2>3, <2>4, <2>5, Zenon DEF Fresh, Caught
<1> QED BY <1>3, <1>4, Zenon

(* The code of FdReplacer in a process that is stopped whole: the          *)
(* descriptors on the old mount afterwards are those it could not open.    *)
LEMMA FdCodeMoves ==
  ASSUME ReopenMoves, TypeOK, Fresh, Caught(cur), pc = "running", stage = "fd",
         NEW S \in SUBSET cases[cur], Free(fds[cur]) = {} => S = {},
         fds' = [fds EXCEPT ![cur] = ReopenAll(fds[cur], S)]
  PROVE  /\ cases[cur] = OldFds(cur)
         /\ \A f \in Fds : fds'[cur][f] = IF f \in S THEN [on |-> "new", pos |-> fds[cur][f].pos] ELSE fds[cur][f]
<1>1. cur \in Pids /\ fds \in [Pids -> [Fds -> Desc]] /\ cases[cur] \subseteq Fds
  BY Zenon DEF TypeOK, PtraceTypeOK, Job, cur
<1>2. cases[cur] = OldFds(cur)
  BY Zenon DEF Fresh
<1>3. S \subseteq Fds /\ \A f \in S : fds[cur][f].on = "old"
  BY <1>2, Zenon DEF OldFds
<1>4. ReopenAll(fds[cur], S) = [f \in Fds |-> IF f \in S THEN [on |-> "new", pos |-> fds[cur][f].pos] ELSE fds[cur][f]]
  BY <1>1, <1>3 DEF ReopenMoves, Table, Opens
<1> QED BY <1>1, <1>2, <1>4, Zenon

(* The processes whose turn is over have been moved. *)
LEMMA MovedStep ==
  ASSUME IInv, [Next]_vars, ReopenMoves
  PROVE  Moved'
<1> USE DEF IInv
<1>0. cur \in Pids /\ kept \in [Stages -> SUBSET Pids] /\ "fd" \in Stages
  BY Zenon DEF TypeOK, PtraceTypeOK, Job, cur, Stages
<1>1. RunFails \/ Panics \/ CannotStep => result' # "ok"
  BY Zenon DEF RunFails, Panics, CannotStep
<1>2. ASSUME result' = "ok" PROVE result = "ok" /\ refused \subseteq refused'
  <2>1. CASE Run
    BY <1>1, <1>2, <2>1, Zenon DEF Run, RunNext, MapScratch, WriteCode, RunCode, RunFdCode, RunChdir, RunMapCode, Restore, UnmapScratch, RunProcess, outcome, Stages, TypeOK
  <2>2. CASE Prepare \/ Drop
    BY <1>2, <2>2, Zenon DEF Prepare, PrepareNext, TraceProcess, LookAtProcess, DropFirst, PrepareProcess, Drop, Dropped, DropKept, outcome
  <2> QED BY <1>2, <2>1, <2>2, OthersFrame, Zenon DEF Next, vars, outcome
<1>3. ASSUME pc' \in {"release", "done"}, result' = "ok" PROVE stage' = "map"
  <2>1. CASE Run
    BY <1>1, <1>3, <2>1, Zenon DEF Run, RunNext, MapScratch, WriteCode, RunCode, Restore, UnmapScratch, RunProcess, Goto
  <2>2. CASE Drop
    BY <1>2, <1>3, <2>2, Zenon DEF Drop, Dropped, Goto, DropKept, Moved
  <2>3. ~Prepare
    BY <1>3, Zenon DEF Prepare, PrepareNext, TraceProcess, LookAtProcess, DropFirst, Goto, PrepareProcess, Trace
  <2> QED BY <1>2, <1>3, <2>1, <2>2, <2>3, OthersFrame, Zenon DEF Next, vars, Moved
<1>4. ASSUME ~Preparing', result' = "ok", NEW p \in kept'["fd"], Caught(p)'
      PROVE  Waits(p)' \/ {p} \X OldFds(p)' \subseteq refused'
  <2>1. CASE Preparing
    <3>1. ~Run /\ ~Drop
      BY <2>1, RunFrame, Zenon DEF Drop, Dropped, Goto, DropKept, Preparing, Entered
    <3>2. PrepareNext
      BY <1>4, <2>1, <3>1, OthersFrame, Zenon DEF Next, Prepare, TraceProcess, LookAtProcess, DropFirst, Goto, PrepareProcess, Trace, vars, Preparing
    <3>3. stage = "map" /\ todo' = kept["fd"] /\ UNCHANGED kept
      BY <1>4, <2>1, <3>2, Zenon DEF PrepareNext, Preparing, found
    <3> QED BY <1>4, <3>2, <3>3, Zenon DEF PrepareNext, Waits, After
  <2>2. CASE ~Preparing
    <3>1. p \in kept["fd"] /\ ~Prepare
      <4>1. ~Prepare
        BY <2>2, Zenon DEF Prepare, PrepareNext, TraceProcess, LookAtProcess, DropFirst, Goto, PrepareProcess, Preparing
      <4> QED BY <1>0, <1>4, <4>1, RunFrame, OthersFrame, Zenon DEF Next, Drop, Dropped, DropKept, found, vars
    <3>2. p \in Pids /\ counter[p] > 0
      BY <1>0, <3>1, DropsCounted, Zenon
    <3>3. Caught(p) /\ (fds'[p] = fds[p] \/ (RunCode /\ LeaderHeld /\ p = cur))
      BY <1>4, <3>2, CaughtKeepsFiles, Zenon
    <3>4. CASE RunCode /\ LeaderHeld /\ p = cur /\ stage = "fd"
      <4>1. pc = "running"
        BY <3>4, Zenon DEF RunCode
      <4>2. PICK S \in SUBSET cases[cur] :
              /\ Free(fds[cur]) = {} => S = {}
              /\ fds' = [fds EXCEPT ![cur] = ReopenAll(fds[cur], S)]
              /\ refused' = refused \cup ({cur} \X (cases[cur] \ S))
        BY <3>4, Zenon DEF RunCode, RunFdCode
      <4>3. /\ cases[cur] = OldFds(cur)
            /\ \A f \in Fds : fds'[cur][f] = IF f \in S THEN [on |-> "new", pos |-> fds[cur][f].pos] ELSE fds[cur][f]
        BY <3>3, <3>4, <4>1, <4>2, FdCodeMoves, Zenon
      <4>4. OldFds(p)' \subseteq cases[cur] \ S
        <5>1. ASSUME NEW f \in Fds, fds'[cur][f].on = "old" PROVE f \notin S /\ fds[cur][f].on = "old"
          <6>1. f \notin S
            <7>1. f \in S => fds'[cur][f] = [on |-> "new", pos |-> fds[cur][f].pos]
              BY <4>3, Zenon
            <7> QED BY ONLY <5>1, <7>1
          <6>2. fds'[cur][f] = fds[cur][f]
            BY <4>3, <6>1, Zenon
          <6> QED BY <5>1, <6>1, <6>2, Zenon
        <5> QED BY <3>4, <4>3, <5>1, Zenon DEF OldFds
      <4> QED BY <3>4, <4>2, <4>4, Zenon
    <3>5. CASE ~(RunCode /\ LeaderHeld /\ p = cur /\ stage = "fd")
      <4>1. OldFds(p)' = OldFds(p)
        <5>1. fds'[p] = fds[p]
          BY <3>3, <3>5, Zenon DEF RunCode, RunChdir, RunMapCode, Stages, TypeOK
        <5> QED BY <5>1, Zenon DEF OldFds
      <4>2. CASE {p} \X OldFds(p) \subseteq refused
        BY <1>2, <1>4, <4>1, <4>2, Zenon
      <4>3. CASE Waits(p)
        <5>1. CASE RunNext
          BY <4>3, <5>1, Zenon DEF RunNext, Waits
        <5>2. ASSUME NEW q \in Pids, RunProcess(q) PROVE Waits(p)'
          BY <4>3, <5>2, Zenon DEF RunProcess, Goto, Current, NewJob, cur, Waits
        <5>3. CASE MapScratch \/ WriteCode
          BY <1>1, <1>4, <4>3, <5>3, Zenon DEF MapScratch, WriteCode, Waits, cur, ptrace
        <5>4. CASE RunCode
          BY <1>1, <1>4, <3>5, <4>3, <5>4, Zenon DEF RunCode, Waits, cur, ptrace
        <5>5. CASE Restore \/ UnmapScratch
          BY <1>1, <1>4, <4>3, <5>5, Zenon DEF Restore, UnmapScratch, Waits, cur, ptrace
        <5>6. CASE Drop
          BY <4>3, <5>6, Zenon DEF Drop, Dropped, Goto, DropKept, Waits, cur, ptrace
        <5>7. CASE Threads \/ (\E q \in Pids : UseFiles(q)) \/ UNCHANGED vars
          BY <4>3, <5>7, OthersFrame, Zenon DEF Waits, cur, vars, ptrace
        <5> QED BY <3>1, <5>1, <5>2, <5>3, <5>4, <5>5, <5>6, <5>7, Zenon DEF Next, Run
      <4>4. Waits(p) \/ {p} \X OldFds(p) \subseteq refused
        BY <1>2, <1>4, <2>2, <3>1, <3>3, Zenon DEF Moved
      <4> QED BY <4>2, <4>3, <4>4, Zenon
    <3> QED BY <3>4, <3>5, Zenon
  <2> QED BY <2>1, <2>2, Zenon
<1> QED BY <1>3, <1>4, Zenon DEF Moved

-----------------------------------------------------------------------------
(* The invariant holds initially. *)
LEMMA InitInv == Init => IInv
<1> SUFFICES ASSUME Init PROVE IInv
  BY Zenon
<1>1. PICK u \in Use : fds = [p \in Pids |-> u.fds] /\ cwd = [p \in Pids |-> u.cwd] /\ maps = [p \in Pids |-> u.maps]
  BY ReplacerAssumption, Zenon DEF Init
<1>2. PICK p \in Pids : job = NewJob(p)
  BY Zenon DEF Init
<1>3. job \in Job /\ mishaps \in 0..MaxMishaps
  BY <1>2, PtraceAssumption DEF Init, NewJob, Job, Iterations
<1>4. TypeOK
  BY <1>1, <1>3 DEF Init, TypeOK, PtraceTypeOK, Use, Stages
<1>5. Counted /\ Schedule
  BY SMTT(30) DEF Init, Counted, Schedule, Bit, First, Entered, Stages, Preparing
<1>6. Born /\ Passes
  BY PtraceAssumption, SMTT(30) DEF Init, Born, Passes, Leader, Tids, Preparing
<1>7. StoppedCounted /\ AllStopped
  BY DEF Init, StoppedCounted, AllStopped
<1>8. Clean /\ Fresh /\ Moved
  BY Zenon DEF Init, Clean, Fresh, Moved, Pending, Preparing, Stages
<1> QED BY <1>4, <1>5, <1>6, <1>7, <1>8, Zenon DEF IInv

-----------------------------------------------------------------------------
(* The code of FdReplacer: what ReopenAll computes. *)

LOCAL INSTANCE FiniteSetTheorems
LOCAL INSTANCE WellFoundedInduction

(* A set of descriptors is a finite set of numbers. *)
LEMMA FiniteFds ==
  ASSUME NEW S, S \subseteq Fds
  PROVE  S \subseteq Nat /\ IsFiniteSet(S)
<1>1. PICK n \in Nat : \A f \in Fds : f \in 0..n
  <2>1. CASE Fds = {}
    BY <2>1, Zenon
  <2>2. CASE Fds # {}
    <3>1. PICK max \in Fds : \A f \in Fds : f <= max
      BY <2>2, ReplacerAssumption, Zenon
    <3>2. \A f \in Fds : f \in Nat
      BY ReplacerAssumption, Zenon
    <3> QED BY ONLY <3>1, <3>2
  <2> QED BY <2>1, <2>2, Zenon
<1>2. IsFiniteSet(0..n)
  BY FS_Interval
<1>3. S \in SUBSET (0..n)
  BY <1>1, Zenon
<1> QED BY <1>2, <1>3, FS_Subset, ReplacerAssumption, Zenon

(* Of sets of subsets of a finite set, one is minimal. *)
LEMMA MinimalSubset ==
  ASSUME NEW S, IsFiniteSet(S), NEW F, F \subseteq SUBSET S, F # {}
  PROVE  \E T \in F : \A U \in F : U \subseteq T => U = T
<1>1. FiniteSubsetsOf(S) = SUBSET S
  BY FS_FiniteSubsetsOfFinite, Zenon
<1>2. IsWellFoundedOn(StrictSubsetOrdering(S), SUBSET S)
  BY <1>1, FS_StrictSubsetOrderingWellFounded, Zenon
<1>3. PICK T \in F : \A U \in F : ~(<<U, T>> \in StrictSubsetOrdering(S))
  BY <1>2, WFMin, Zenon
<1> QED BY <1>3, Zenon DEF StrictSubsetOrdering

(* Highest is the highest. *)
LEMMA HighestIs ==
  ASSUME NEW T, T \subseteq Nat, IsFiniteSet(T), T # {}
  PROVE  Highest(T) \in T /\ \A g \in T : g <= Highest(T)
<1> DEFINE Topped(U) == \E f \in U : \A g \in U : g <= f
           F == {U \in SUBSET T : U # {} /\ ~Topped(U)}
<1>1. SUFFICES Topped(T)
  BY Zenon DEF Highest
<1>2. SUFFICES ASSUME F # {} PROVE FALSE
  BY Zenon
<1>3. PICK U \in F : \A W \in F : W \subseteq U => W = U
  <2>1. F \subseteq SUBSET T
    BY Zenon
  <2> HIDE DEF F, Topped
  <2>2. F # {}
    BY <1>2, Zenon
  <2>3. IsFiniteSet(T)
    BY Zenon
  <2> QED BY ONLY <2>1, <2>2, <2>3, MinimalSubset
<1>4. PICK x \in U : TRUE
  BY Zenon
<1>5. CASE U = {x}
  BY <1>4, <1>5
<1>6. CASE U # {x}
  <2>1. U \ {x} # {} /\ U \ {x} # U /\ U \ {x} \in SUBSET T
    BY <1>4, <1>6, Zenon
  <2>2. Topped(U \ {x})
    BY <1>3, <2>1, Zenon
  <2>3. PICK f \in U \ {x} : \A g \in U \ {x} : g <= f
    BY <2>2, Zenon
  <2>4. f \in Nat /\ x \in Nat /\ \A g \in U : g \in Nat
    BY <1>4, Zenon
  <2>5. IF x <= f THEN \A g \in U : g <= f ELSE \A g \in U : g <= x
    BY <2>3, <2>4
  <2>6. Topped(U)
    BY <1>4, <2>3, <2>5, Zenon
  <2> QED BY <2>6, Zenon
<1> QED BY <1>5, <1>6, Zenon

(* The recursion of ReopenAll is a recursion: there is a function that     *)
(* satisfies its equation.                                                 *)
ReopenEquation(table, S, rest) ==
  rest = [T \in SUBSET S |-> IF T = {} THEN table ELSE Reopen(rest[T \ {Highest(T)}], Highest(T))]

(* There is a function that obeys the recursion. *)
LEMMA ReopenExists ==
  ASSUME NEW table, NEW S, S \subseteq Nat, IsFiniteSet(S)
  PROVE  \E rest : ReopenEquation(table, S, rest)
<1> DEFINE F == {U \in SUBSET S : ~\E rest : ReopenEquation(table, U, rest)}
<1>1. SUFFICES ASSUME F # {} PROVE FALSE
  BY Zenon
<1>2. PICK U \in F : \A W \in F : W \subseteq U => W = U
  <2>1. F \subseteq SUBSET S
    BY Zenon
  <2> HIDE DEF F
  <2>2. F # {}
    BY <1>1, Zenon
  <2>3. IsFiniteSet(S)
    BY Zenon
  <2> QED BY ONLY <2>1, <2>2, <2>3, MinimalSubset
<1>3. \A T \in SUBSET S : T \subseteq Nat /\ IsFiniteSet(T)
  BY FS_Subset, Zenon
<1>4. U # {}
  <2>1. ReopenEquation(table, {}, [T \in SUBSET {} |-> table])
    BY Zenon DEF ReopenEquation
  <2> QED BY <2>1, Zenon
<1> DEFINE x == Highest(U)
<1>5. x \in U /\ x \in Nat /\ \A g \in U : g <= x
  BY <1>3, <1>4, HighestIs, Zenon
<1>6. PICK h : ReopenEquation(table, U \ {x}, h)
  <2>1. U \ {x} # U /\ U \ {x} \subseteq U /\ U \ {x} \in SUBSET S
    BY <1>5, Zenon
  <2>2. U \ {x} \notin F
    <3> HIDE DEF F, x
    <3> QED BY <1>2, <2>1, Zenon
  <2> HIDE DEF x
  <2> QED BY <2>1, <2>2, Zenon
<1> DEFINE rest == [T \in SUBSET U |-> IF x \in T THEN Reopen(h[T \ {x}], x) ELSE h[T]]
<1>7. ASSUME NEW T \in SUBSET U, x \in T
      PROVE  Highest(T) = x /\ rest[T] = Reopen(rest[T \ {x}], x)
  <2>1. Highest(T) \in T /\ \A g \in T : g <= Highest(T)
    BY <1>3, <1>7, HighestIs, Zenon
  <2>2. Highest(T) = x
    <3>1. Highest(T) <= x /\ x <= Highest(T) /\ Highest(T) \in Nat
      BY <1>3, <1>5, <1>7, <2>1, Zenon
    <3> HIDE DEF x
    <3> QED BY <1>5, <3>1
  <2>3. rest[T \ {x}] = h[T \ {x}]
    BY <1>7, Zenon
  <2> QED BY <1>7, <2>2, <2>3, Zenon
<1>8. ASSUME NEW T \in SUBSET U, x \notin T, T # {}
      PROVE  rest[T] = Reopen(rest[T \ {Highest(T)}], Highest(T))
  <2>1. rest[T] = h[T] /\ rest[T \ {Highest(T)}] = h[T \ {Highest(T)}]
    BY <1>8, Zenon
  <2>2. T \in SUBSET (U \ {x})
    BY <1>8, Zenon
  <2>3. h[T] = Reopen(h[T \ {Highest(T)}], Highest(T))
    BY <1>6, <1>8, <2>2, Zenon DEF ReopenEquation
  <2> QED BY <2>1, <2>3, Zenon
<1>9. rest[{}] = table
  <2>1. h[{}] = table
    BY <1>6, Zenon DEF ReopenEquation
  <2> QED BY <2>1, Zenon
<1>10. \A T \in SUBSET U : rest[T] = IF T = {} THEN table ELSE Reopen(rest[T \ {Highest(T)}], Highest(T))
  BY <1>7, <1>8, <1>9, Zenon
<1>11. rest = [T \in SUBSET U |-> rest[T]]
  BY Zenon
<1> HIDE DEF rest
<1>12. ReopenEquation(table, U, rest)
  BY <1>10, <1>11, Zenon DEF ReopenEquation
<1> QED BY <1>12, Zenon

(* ReopenAll obeys its own recursion. *)
LEMMA ReopenAllRecurs ==
  ASSUME NEW table, NEW S, S \subseteq Nat, IsFiniteSet(S)
  PROVE  \E rest : ReopenEquation(table, S, rest) /\ ReopenAll(table, S) = rest[S]
<1> DEFINE rest == CHOOSE rest : ReopenEquation(table, S, rest)
<1>1. ReopenEquation(table, S, rest)
  BY ReopenExists, Zenon
<1>2. ReopenAll(table, S) = rest[S]
  BY Zenon DEF ReopenAll, ReopenEquation
<1> QED BY <1>1, <1>2, Zenon

(* Lowest is the lowest. *)
LEMMA LowestIs ==
  ASSUME NEW T, T \subseteq Nat, T # {}
  PROVE  Lowest(T) \in T
<1> DEFINE Less == OpToRel(<, Nat)
<1>1. \A g, f \in Nat : g < f => <<g, f>> \in Less
  BY Zenon DEF OpToRel
<1>2. IsWellFoundedOn(Less, Nat)
  BY NatLessThanWellFounded, Zenon
<1> HIDE DEF Less
<1>3. PICK f \in T : \A g \in T : ~(<<g, f>> \in Less)
  BY <1>2, WFMin, Zenon
<1>4. \A g \in T : f <= g
  <2>1. \A g \in T : f \in Nat /\ g \in Nat /\ ~(g < f)
    BY <1>1, <1>3, Zenon
  <2> QED BY <2>1
<1> QED BY <1>4, Zenon DEF Lowest

(* A round with a free descriptor leaves one free, and gives a table of    *)
(* descriptors; of a descriptor on the old mount, it changes the mount.    *)
LEMMA ReopenRound ==
  ASSUME NEW table \in [Fds -> Desc], NEW f \in Fds, Free(table) # {}
  PROVE  /\ Reopen(table, f) \in [Fds -> Desc] /\ Free(Reopen(table, f)) # {}
         /\ table[f].on = "old" =>
              Reopen(table, f) = [table EXCEPT ![f] = [on |-> "new", pos |-> table[f].pos]]
<1> DEFINE n == Lowest(Free(table))
           opened == [table EXCEPT ![n] = [on |-> "new", pos |-> 0]]
           sought == [opened EXCEPT ![n].pos = opened[f].pos]
           dup2 == [sought EXCEPT ![f] = sought[n]]
           closed == [dup2 EXCEPT ![n] = Closed]
<1>1. n \in Fds /\ table[n] = Closed
  BY ReplacerAssumption, LowestIs, Zenon DEF Free
<1>2. [on |-> "new", pos |-> 0] \in Desc /\ Closed \in Desc
  BY DEF Desc, Closed
<1>3. Reopen(table, f) = closed
  BY Zenon DEF Reopen
<1> HIDE DEF n
<1>4. opened \in [Fds -> Desc]
  BY <1>1, <1>2, Zenon
<1>5. opened[f].pos = IF f = n THEN 0 ELSE table[f].pos
  BY <1>1, Zenon
<1>6. sought = [opened EXCEPT ![n] = [on |-> "new", pos |-> opened[f].pos]]
  <2>1. [opened[n] EXCEPT !.pos = opened[f].pos] = [on |-> "new", pos |-> opened[f].pos]
    BY <1>1
  <2> QED BY <2>1, Zenon
<1>7. opened[f].pos \in 0..1 /\ [on |-> "new", pos |-> opened[f].pos] \in Desc
  BY <1>4, Zenon DEF Desc
<1>8. closed = [g \in Fds |-> IF g = n THEN Closed ELSE IF g = f THEN [on |-> "new", pos |-> opened[f].pos] ELSE table[g]]
  BY <1>1, <1>6, Zenon
<1>9. closed \in [Fds -> Desc] /\ closed[n] = Closed
  BY <1>1, <1>2, <1>7, <1>8
<1>10. ASSUME table[f].on = "old"
       PROVE  closed = [table EXCEPT ![f] = [on |-> "new", pos |-> table[f].pos]]
  <2>1. f # n
    BY <1>1, <1>10 DEF Closed
  <2>2. closed = [g \in Fds |-> IF g = f THEN [on |-> "new", pos |-> table[f].pos] ELSE table[g]]
    BY <1>1, <1>5, <1>8, <2>1, Zenon
  <2> QED BY <2>2, Zenon
<1> HIDE DEF closed
<1> QED BY <1>1, <1>3, <1>9, <1>10 DEF Free

(* The code of FdReplacer leaves a table of descriptors. *)
LEMMA ReopenAllTyped ==
  ASSUME NEW table \in [Fds -> Desc], NEW S, S \subseteq Fds, Free(table) = {} => S = {}
  PROVE  ReopenAll(table, S) \in [Fds -> Desc]
<1>1. S \subseteq Nat /\ IsFiniteSet(S)
  BY FiniteFds, Zenon
<1>2. PICK rest : ReopenEquation(table, S, rest) /\ ReopenAll(table, S) = rest[S]
  BY <1>1, ReopenAllRecurs, Zenon
<1>3. rest[{}] = table
  BY <1>2, Zenon DEF ReopenEquation
<1>4. CASE Free(table) = {}
  BY <1>2, <1>3, <1>4, Zenon
<1>5. CASE Free(table) # {}
  <2> DEFINE Good(T) == rest[T] \in [Fds -> Desc] /\ Free(rest[T]) # {}
             F == {T \in SUBSET S : ~Good(T)}
  <2>1. SUFFICES ASSUME F # {} PROVE FALSE
    BY <1>2, Zenon
  <2>2. PICK U \in F : \A W \in F : W \subseteq U => W = U
    <3>1. F \subseteq SUBSET S
      BY Zenon
    <3> HIDE DEF F
    <3>2. F # {} /\ IsFiniteSet(S)
      BY <1>1, <2>1, Zenon
    <3> QED BY ONLY <3>1, <3>2, MinimalSubset
  <2>3. U # {} /\ U \subseteq Fds /\ U \subseteq Nat /\ IsFiniteSet(U)
    BY <1>1, <1>3, <1>5, FS_Subset, Zenon
  <2> DEFINE x == Highest(U)
  <2>4. x \in U
    BY <2>3, HighestIs, Zenon
  <2>5. rest[U] = Reopen(rest[U \ {x}], x)
    BY <1>2, <2>3, Zenon DEF ReopenEquation
  <2>6. Good(U \ {x})
    <3>1. U \ {x} # U /\ U \ {x} \subseteq U /\ U \ {x} \in SUBSET S
      BY <2>4, Zenon
    <3>2. U \ {x} \notin F
      <4> HIDE DEF F, x
      <4> QED BY <2>2, <3>1, Zenon
    <3> HIDE DEF Good, x
    <3> QED BY <3>1, <3>2, Zenon
  <2>7. Good(U)
    <3> DEFINE r == rest[U \ {x}]
    <3>1. x \in Fds /\ r \in [Fds -> Desc] /\ Free(r) # {} /\ rest[U] = Reopen(r, x)
      BY <2>3, <2>4, <2>5, <2>6, Zenon
    <3> HIDE DEF x, r
    <3>2. Reopen(r, x) \in [Fds -> Desc] /\ Free(Reopen(r, x)) # {}
      BY <3>1, ReopenRound, Zenon
    <3> QED BY <3>1, <3>2, Zenon
  <2> QED BY <2>7, Zenon
<1> QED BY <1>4, <1>5, Zenon

(* The code of FdReplacer moves the descriptors it can open, and each of   *)
(* them keeps its position; no other descriptor changes.                   *)
LEMMA ReopenAllMoves ==
  ASSUME NEW table \in [Fds -> Desc], NEW S, S \subseteq Fds, Free(table) = {} => S = {},
         \A f \in S : table[f].on = "old"
  PROVE  ReopenAll(table, S) = [f \in Fds |-> IF f \in S THEN [on |-> "new", pos |-> table[f].pos] ELSE table[f]]
<1> DEFINE To(T) == [f \in Fds |-> IF f \in T THEN [on |-> "new", pos |-> table[f].pos] ELSE table[f]]
<1>1. S \subseteq Nat /\ IsFiniteSet(S)
  BY FiniteFds, Zenon
<1>2. PICK rest : ReopenEquation(table, S, rest) /\ ReopenAll(table, S) = rest[S]
  BY <1>1, ReopenAllRecurs, Zenon
<1>3. rest[{}] = table /\ table = To({})
  BY <1>2, Zenon DEF ReopenEquation
<1>4. CASE Free(table) = {}
  BY <1>2, <1>3, <1>4, Zenon
<1>5. CASE Free(table) # {}
  <2> DEFINE F == {T \in SUBSET S : rest[T] # To(T)}
  <2>1. SUFFICES ASSUME F # {} PROVE FALSE
    BY <1>2
  <2>2. PICK U \in F : \A W \in F : W \subseteq U => W = U
    <3>1. F \subseteq SUBSET S
      BY Zenon
    <3> HIDE DEF F
    <3>2. F # {} /\ IsFiniteSet(S)
      BY <1>1, <2>1, Zenon
    <3> QED BY ONLY <3>1, <3>2, MinimalSubset
  <2>3. U # {} /\ U \subseteq Fds /\ U \subseteq Nat /\ IsFiniteSet(U)
    BY <1>1, <1>3, FS_Subset, Zenon
  <2> DEFINE x == Highest(U)
             V == U \ {x}
  <2>4. x \in U
    BY <2>3, HighestIs, Zenon
  <2>5. rest[U] = Reopen(rest[V], x)
    BY <1>2, <2>3, Zenon DEF ReopenEquation
  <2> HIDE DEF x
  <2>6. rest[V] = To(V)
    <3>1. V # U /\ V \subseteq U /\ V \in SUBSET S
      BY <2>4, Zenon
    <3>2. V \notin F
      <4> HIDE DEF F, V
      <4> QED BY <2>2, <3>1, Zenon
    <3> HIDE DEF To, V
    <3> QED BY <3>1, <3>2, Zenon
  <2>7. To(V) \in [Fds -> Desc] /\ To(V)[x] = table[x] /\ table[x].on = "old"
    BY <2>3, <2>4, Zenon DEF Desc
  <2>8. Free(To(V)) # {}
    <3>1. PICK n \in Fds : table[n] = Closed
      BY <1>5, Zenon DEF Free
    <3>2. n \notin V
      BY <3>1 DEF Closed
    <3> QED BY <3>1, <3>2, Zenon DEF Free
  <2>9. Reopen(To(V), x) = [To(V) EXCEPT ![x] = [on |-> "new", pos |-> table[x].pos]]
    <3> HIDE DEF To, V
    <3> QED BY <2>3, <2>4, <2>7, <2>8, ReopenRound, Zenon
  <2>10. [To(V) EXCEPT ![x] = [on |-> "new", pos |-> table[x].pos]] = To(U)
    BY <2>3, <2>4, Zenon
  <2>11. rest[U] = To(U)
    <3> HIDE DEF To, V
    <3> QED BY <2>5, <2>6, <2>9, <2>10, Zenon
  <2> QED BY <2>11, Zenon
<1> QED BY <1>4, <1>5, Zenon

(* What the steps were shown to keep under assumptions, they keep. *)
LEMMA ReopenHolds == ReopenTyped /\ ReopenMoves
BY ReopenAllTyped, ReopenAllMoves, Zenon DEF ReopenTyped, ReopenMoves, Table, Opens

-----------------------------------------------------------------------------
(* Every step of toda and of the processes keeps the invariant. *)
LEMMA StepInv == IInv /\ [Next]_vars => IInv'
<1> SUFFICES ASSUME IInv, [Next]_vars PROVE IInv'
  BY Zenon
<1>1. TypeOK' /\ Counted' /\ Schedule'
  BY TypeStep, BookStep, ReopenHolds, Zenon DEF IInv
<1>2. Born' /\ Passes' /\ StoppedCounted' /\ AllStopped'
  BY BornStep, PassesStep, StoppedStep, AllStoppedStep DEF IInv
<1>3. Clean' /\ Fresh' /\ Moved'
  BY <1>1, CleanStep, FreshStep, MovedStep, ReopenHolds DEF IInv
<1> QED BY <1>1, <1>2, <1>3, Zenon DEF IInv

(* The invariant holds in every state toda reaches. *)
THEOREM Invariance == Spec => []IInv
BY InitInv, StepInv, PTL DEF Spec

(* The state of toda and of the processes is well formed; in particular,   *)
(* the counter of a process stays between 0 and 4.                         *)
THEOREM TypeCorrect == Spec => []TypeOK
BY Invariance, PTL DEF IInv

(* Nobody is left stopped: a stopped thread belongs to a process that is   *)
(* counted or being traced, unless /proc could not be read.                *)
THEOREM NobodyLeftStopped == Spec => []StoppedCounted
BY Invariance, PTL DEF IInv

(* trace stops all threads of a process, unless it has missed two that     *)
(* exited, or the kernel refuses the process.                              *)
THEOREM WholeProcessStopped == Spec => []AllStopped
BY Invariance, PTL DEF IInv

(* A process that runs has its own registers and none of toda's memory. *)
THEOREM NoTraceLeft == Spec => []LeavesNoTrace
<1>1. IInv => LeavesNoTrace
  BY Zenon DEF IInv, Clean, TypeOK, LeavesNoTrace, Dead, LeaderHeld
<1> QED BY Invariance, <1>1, PTL

(* What prepare has noted of a process holds until run comes to it. *)
THEOREM NotesStayFresh == Spec => []CasesFresh
<1>1. IInv => CasesFresh
  BY Zenon DEF IInv, Fresh, CasesFresh
<1> QED BY Invariance, <1>1, PTL

(* When run returns Ok, every descriptor of the processes it holds is on   *)
(* the new mount, but for those that could not be opened there.            *)
THEOREM AllMovedWhenOk == Spec => []MovedIfOk
<1>1. IInv => MovedIfOk
  BY Zenon DEF IInv, Moved, MovedIfOk, Waits, Preparing
<1> QED BY Invariance, <1>1, PTL

(* The code of FdReplacer changes the mount of the noted descriptors and   *)
(* nothing else: no descriptor is lost, none is left over, none moves.     *)
THEOREM CodeKeepsDescriptors == Spec => ReopenFaithful
<1> DEFINE Faithful ==
      pc = "running" /\ stage = "fd" /\ pc' = "restore" /\ Caught(cur) =>
        \A f \in Fds :
          /\ (fds'[cur][f] = Closed) = (fds[cur][f] = Closed)
          /\ fds'[cur][f].pos = fds[cur][f].pos
          /\ fds'[cur][f] # fds[cur][f] => f \in cases[cur] /\ fds'[cur][f].on = "new"
<1>1. IInv /\ [Next]_vars => Faithful
  <2>1. SUFFICES ASSUME IInv, [Next]_vars, pc = "running", stage = "fd", pc' = "restore", Caught(cur), NEW f \in Fds
                 PROVE  /\ (fds'[cur][f] = Closed) = (fds[cur][f] = Closed)
                        /\ fds'[cur][f].pos = fds[cur][f].pos
                        /\ fds'[cur][f] # fds[cur][f] => f \in cases[cur] /\ fds'[cur][f].on = "new"
    BY Zenon
  <2>2. RunCode
    <3>1. ~Prepare /\ ~Drop
      BY <2>1, Zenon DEF Prepare, PrepareNext, TraceProcess, LookAtProcess, DropFirst, Goto, PrepareProcess, Drop, Dropped, DropKept
    <3> QED BY <2>1, <3>1, OthersFrame, Zenon DEF Next, Run, RunNext, MapScratch, WriteCode, Restore, UnmapScratch, RunProcess, Goto, vars
  <2>3. PICK S \in SUBSET cases[cur] :
          /\ Free(fds[cur]) = {} => S = {}
          /\ fds' = [fds EXCEPT ![cur] = ReopenAll(fds[cur], S)]
    BY <2>1, <2>2, Zenon DEF RunCode, Panics, RunFdCode
  <2>4. /\ cases[cur] = OldFds(cur)
        /\ fds'[cur][f] = IF f \in S THEN [on |-> "new", pos |-> fds[cur][f].pos] ELSE fds[cur][f]
    BY <2>1, <2>3, FdCodeMoves, ReopenHolds, Zenon DEF IInv
  <2>5. f \in S => fds[cur][f].on = "old"
    BY <2>3, <2>4, Zenon DEF OldFds
  <2>6. CASE f \in S
    <3>1. fds'[cur][f].on = "new" /\ fds'[cur][f].pos = fds[cur][f].pos
      BY <2>4, <2>6
    <3>2. fds'[cur][f] # Closed /\ fds[cur][f] # Closed
      <4>1. Closed.on # "new" /\ Closed.on # "old"
        BY DEF Closed
      <4> QED BY <2>5, <2>6, <3>1, <4>1, Zenon
    <3> QED BY <2>3, <2>6, <3>1, <3>2, Zenon
  <2>7. CASE f \notin S
    <3>1. fds'[cur][f] = fds[cur][f]
      BY <2>4, <2>7, Zenon
    <3> QED BY <3>1, Zenon
  <2> QED BY <2>6, <2>7, Zenon
<1>2. IInv /\ [Next]_vars => [Faithful]_vars
  BY <1>1, Zenon
<1> QED BY Invariance, <1>2, PTL DEF Spec, ReopenFaithful

=============================================================================
