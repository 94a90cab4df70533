------------------------------- MODULE Ptrace -------------------------------
(***************************************************************************)
(* Stopping whole processes with ptrace (src/src/ptrace/mod.rs): trace     *)
(* attaches the threads of a process one by one while those not attached   *)
(* yet run on, create threads and exit; detach lets all of them go when    *)
(* the last TracedProcess of the process is dropped.                       *)
(*                                                                         *)
(* A thread is a pair of a process and a number; number 1 is the leader,   *)
(* whose zombie stays listed until the process is reaped.  Thread ids are  *)
(* not used again.                                                         *)
(***************************************************************************)
EXTENDS Naturals, FiniteSets

CONSTANTS
  Pids,        \* the processes all_processes may list
  MaxThreads,  \* how many threads there are, the ended ones included
  MaxMishaps   \* how many things outside toda may go wrong

ASSUME PtraceAssumption ==
  /\ MaxThreads \in Nat \ {0}
  /\ MaxMishaps \in Nat

VARIABLES
  thread,   \* the state of each thread
  denied,   \* processes the kernel does not let toda attach to
  counter,  \* PtraceManager::counter, 0 for a process that has no entry
  job,      \* the locals of the trace under way
  missed,   \* threads the last trace of each process found gone, up to 2
  left,     \* processes that trace or detach gave up on: /proc was not readable
  mishaps   \* processes refused, processes killed, errors of /proc and of mmap

ptrace == <<thread, denied, counter, job, missed, left, mishaps>>

Tids == Pids \X (1..MaxThreads)

ThreadsOf(p) == {p} \X (1..MaxThreads)

Leader(p) == <<p, 1>>

Runs(p) == \E t \in ThreadsOf(p) : thread[t] = "run"

(* process.tasks(): what /proc/<pid>/task lists *)
Listed(p) == {t \in ThreadsOf(p) : thread[t] \in {"run", "stop", "zombie"}}

(* The locals of trace before the first pass; a pass is due. *)
Iterations == 2

NewJob(p) == [pid |-> p, iterations |-> Iterations, tasks |-> {}, traced |-> {}, found |-> TRUE]

Job == [pid : Pids, iterations : 0..Iterations, tasks : SUBSET Tids, traced : SUBSET Tids, found : BOOLEAN]

PtraceTypeOK ==
  /\ thread \in [Tids -> {"unborn", "run", "stop", "zombie", "gone"}]
  /\ denied \subseteq Pids
  /\ counter \in [Pids -> 0..4]
  /\ job \in Job
  /\ missed \in [Pids -> 0..2]
  /\ left \subseteq Pids /\ mishaps \in 0..MaxMishaps

-----------------------------------------------------------------------------
Mishap == mishaps < MaxMishaps /\ mishaps' = mishaps + 1

-----------------------------------------------------------------------------
(* Faulty variants, one per plausible slip in the code. *)

(* The loop ends with the first pass that finds no thread. *)
PassesLeftOne == IF job.found THEN job.iterations ELSE 0

(* The threads are detached whenever a TracedProcess is dropped. *)
DetachAlways(p) ==
  /\ counter' = [counter EXCEPT ![p] = @ - 1]
  /\ thread' = [t \in Tids |-> IF t \in ThreadsOf(p) /\ thread[t] = "stop" THEN "run" ELSE thread[t]]
  /\ UNCHANGED <<left, mishaps>>

(* The last TracedProcess only takes the entry out of the counter. *)
DetachCountsOnly(p) ==
  /\ counter' = [counter EXCEPT ![p] = @ - 1]
  /\ UNCHANGED <<thread, left, mishaps>>

-----------------------------------------------------------------------------
(* PtraceManager::trace *)

(* The process is stopped already: one more TracedProcess, clone() included. *)
TraceAgain(p) == counter[p] > 0 /\ counter' = [counter EXCEPT ![p] = @ + 1]

StartTrace(p) ==
  /\ counter[p] = 0
  /\ job' = NewJob(p) /\ missed' = [missed EXCEPT ![p] = 0]

(* What is left of iterations after the pass that has just ended. *)
PassesLeft == IF job.found THEN job.iterations ELSE job.iterations - 1

(* Another pass: Process::new and tasks list the threads, and those that   *)
(* were attached before are passed over.                                   *)
NextPass ==
  /\ job.tasks = {} /\ PassesLeft > 0 /\ Listed(job.pid) # {}
  /\ job' = [job EXCEPT !.iterations = PassesLeft, !.found = FALSE,
                        !.tasks = Listed(job.pid) \ job.traced]
  /\ UNCHANGED <<thread, denied, counter, missed, left, mishaps>>

(* The process is gone, or /proc cannot be read: trace returns the error,  *)
(* and whatever it has attached stays so.                                  *)
TraceFails ==
  /\ job.tasks = {} /\ PassesLeft > 0
  /\ \/ Listed(job.pid) = {} /\ UNCHANGED <<left, mishaps>>
     \/ Listed(job.pid) # {} /\ Mishap /\ left' = left \cup {job.pid}
  /\ job' = NewJob(job.pid)
  /\ UNCHANGED <<thread, denied, counter, missed>>

TraceDone ==
  /\ job.tasks = {} /\ PassesLeft = 0
  /\ job' = NewJob(job.pid)
  /\ counter' = [counter EXCEPT ![job.pid] = 1]
  /\ UNCHANGED <<thread, denied, missed, left, mishaps>>

(* attach_task returned Ok. *)
Traced(t) ==
  /\ job' = [job EXCEPT !.tasks = @ \ {t}, !.traced = @ \cup {t}, !.found = TRUE]
  /\ UNCHANGED missed

(* attach_task returned an error; the loop goes on with the next thread. *)
Passed(t) == job' = [job EXCEPT !.tasks = @ \ {t}]

Missed(p) == missed' = [missed EXCEPT ![p] = IF @ < 2 THEN @ + 1 ELSE 2]

AttachTask(t) ==
  /\ t \in job.tasks
  /\ \/ /\ thread[t] = "gone"              \* Process::new(tid) fails
        /\ Passed(t) /\ Missed(t[1]) /\ UNCHANGED thread
     \/ /\ thread[t] = "zombie"            \* EPERM, state Z
        /\ Traced(t) /\ UNCHANGED thread
     \/ /\ thread[t] = "run" /\ t[1] \notin denied
        /\ Traced(t) /\ thread' = [thread EXCEPT ![t] = "stop"]
     \/ /\ \/ thread[t] = "stop"           \* EPERM: attached by a trace that failed
           \/ thread[t] = "run" /\ t[1] \in denied
        /\ Passed(t) /\ UNCHANGED <<thread, missed>>
  /\ UNCHANGED <<denied, counter, left, mishaps>>

(* The thread exits after Process::new has read its state and before it is *)
(* attached: ESRCH for a thread, and for a leader EPERM with a state that  *)
(* does not say Z.                                                         *)
AttachTaskLate(t) ==
  /\ t \in job.tasks /\ thread[t] = "run" /\ t[1] \notin denied
  /\ IF t = Leader(t[1])
     THEN thread' = [thread EXCEPT ![t] = "zombie"] /\ Passed(t) /\ Missed(t[1])
     ELSE thread' = [thread EXCEPT ![t] = "gone"] /\ Traced(t)
  /\ UNCHANGED <<denied, counter, left, mishaps>>

TraceStep == NextPass \/ \E t \in Tids : AttachTask(t) \/ AttachTaskLate(t)

-----------------------------------------------------------------------------
(* PtraceManager::detach, from Drop of a TracedProcess: the entry goes     *)
(* before the threads do.  When 20 retries cannot read /proc, they stay.   *)
(* The error for a process with no entry has no branch of its own: the     *)
(* count would fall below 0, and TypeOK says it does not.                  *)
Detach(p) ==
  /\ counter' = [counter EXCEPT ![p] = @ - 1]
  /\ \/ counter[p] > 1 /\ UNCHANGED <<thread, left, mishaps>>
     \/ /\ counter[p] <= 1
        /\ thread' = [t \in Tids |-> IF t \in ThreadsOf(p) /\ thread[t] = "stop" THEN "run" ELSE thread[t]]
        /\ left' = left \ {p} /\ UNCHANGED mishaps
     \/ counter[p] <= 1 /\ Mishap /\ Listed(p) # {} /\ left' = left \cup {p} /\ UNCHANGED thread

-----------------------------------------------------------------------------
(* What the threads do meanwhile. *)

(* The thread n, the next one of its process, is created; MaxThreads bounds this. *)
NewThread(n) ==
  /\ Cardinality({t \in Tids : thread[t] # "unborn"}) < MaxThreads
  /\ thread[n] = "unborn" /\ \A t \in ThreadsOf(n[1]) : t[2] < n[2] => thread[t] # "unborn"
  /\ thread' = [thread EXCEPT ![n] = "run"]

SpawnThread(n) == Runs(n[1]) /\ NewThread(n) /\ UNCHANGED mishaps

ExitThread(t) ==
  /\ thread[t] = "run"
  /\ thread' = [thread EXCEPT ![t] = IF t = Leader(t[1]) THEN "zombie" ELSE "gone"]
  /\ UNCHANGED mishaps

Killed(p) == [t \in Tids |->
  IF t \in ThreadsOf(p) /\ thread[t] \in {"run", "stop"}
  THEN IF t = Leader(p) THEN "zombie" ELSE "gone"
  ELSE thread[t]]

Kill(p) == Killed(p) # thread /\ thread' = Killed(p) /\ Mishap

Reap(p) ==
  /\ Listed(p) = {Leader(p)} /\ thread[Leader(p)] = "zombie"
  /\ thread' = [thread EXCEPT ![Leader(p)] = "gone"]
  /\ UNCHANGED mishaps

-----------------------------------------------------------------------------
(* Properties *)

(* trace has returned Ok and threads of the process still run: then two of *)
(* its threads exited after they were listed and before they could be      *)
(* attached, each having created another, or the kernel refuses toda this  *)
(* process.  One thread that hands over to a new one is not enough, for    *)
(* the loop of trace ends only after two passes that attach nothing.       *)
AllStopped == \A p \in Pids \ denied : counter[p] > 0 /\ Runs(p) => missed[p] = 2
=============================================================================
