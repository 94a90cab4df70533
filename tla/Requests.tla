------------------------------ MODULE Requests ------------------------------
(***************************************************************************)
(* How requests share the locks of HookFs (src/src/hookfs/mod.rs).  Every  *)
(* request is a task of its own (async_fs.rs, runtime.rs); it holds guards *)
(* of tokio RwLocks across awaits, and the RPC method update (jsonrpc.rs)  *)
(* takes the injector's lock from another thread.                          *)
(*                                                                         *)
(* A handler is the sequence of the steps at which it may wait:            *)
(*   acquire  lock.read().await or lock.write().await                      *)
(*   drop     the guard goes out of scope                                  *)
(*   work     an await of something else (a system call on the blocking    *)
(*            pool, an injected latency); it may end the request with an   *)
(*            error, `?' dropping all its guards                           *)
(*   inject   enable_injection is read: the macro goes on to the injector, *)
(*            or, when it is off or there is no path, skips `skip' steps   *)
(***************************************************************************)
EXTENDS Integers, Sequences, FiniteSets

CONSTANTS
  Task,       \* bound: requests in progress at a time
  Kinds,      \* the requests each task may be
  MaxReads    \* readers a tokio RwLock admits (32); a writer takes the place of them all

Locks == {"inode_map", "opened_files", "opened_dirs", "injector"}

VARIABLES
  todo,   \* the steps each task has still to take
  held,   \* held[l][t]: permits of lock l that task t has
  queue   \* queue[l]: tasks waiting for lock l, in the order they came

vars == <<todo, held, queue>>

-----------------------------------------------------------------------------
(* The steps, as sequences of one, and the macros of mod.rs. *)

Acquire(l, permits) == <<[op |-> "acquire", lock |-> l, permits |-> permits]>>

Read(l) == Acquire(l, 1)

Write(l) == Acquire(l, MaxReads)

Drop(l) == <<[op |-> "drop", lock |-> l]>>

Work == <<[op |-> "work"]>>

IfEnabled(steps) == <<[op |-> "inject", skip |-> Len(steps)]>> \o steps

(* inject!: the guard of the injector is held while a latency passes. *)
Inject == IfEnabled(Read("injector") \o Work \o Drop("injector"))

(* Faulty variant: the guard is not dropped before the injection. *)
InjectWithGuard(l) == Read(l) \o Inject

(* inject_with_ino!, inject_with_fh!, inject_with_dir_fh!, inject_with_parent_and_name! *)
InjectWith(l) == Read(l) \o Drop(l) \o Inject

(* inject_write_data!, which does not ask whether injection is enabled. *)
InjectWriteData == Read("opened_files") \o Read("injector") \o Drop("injector") \o Drop("opened_files")

(* inject_attr! and inject_reply! *)
InjectInto == IfEnabled(Read("injector") \o Drop("injector"))

(* get_file_attr *)
GetFileAttr == Work \o InjectInto

-----------------------------------------------------------------------------
(* The handlers. *)

(* Those that change the table, and reply with an entry or without one. *)
Lookup == InjectWith("inode_map") \o Write("inode_map") \o GetFileAttr \o InjectInto \o Drop("inode_map")

Forget == Write("inode_map") \o Drop("inode_map")

Mknod == InjectWith("inode_map") \o Write("inode_map") \o Inject \o Work \o GetFileAttr \o InjectInto \o Drop("inode_map")

Mkdir == InjectWith("inode_map") \o Write("inode_map") \o Work \o GetFileAttr \o InjectInto \o Drop("inode_map")

Symlink == InjectWith("inode_map") \o Write("inode_map") \o Work \o GetFileAttr \o InjectInto \o Drop("inode_map")

Unlink == InjectWith("inode_map") \o Write("inode_map") \o GetFileAttr \o Work \o Drop("inode_map")

Rmdir == InjectWith("inode_map") \o Write("inode_map") \o GetFileAttr \o Work \o Drop("inode_map")

Rename == InjectWith("inode_map") \o Write("inode_map") \o Work \o GetFileAttr \o Drop("inode_map")

Link == InjectWith("inode_map") \o Write("inode_map") \o Work \o GetFileAttr \o InjectInto \o Drop("inode_map")

Create ==
  InjectWith("inode_map") \o Write("inode_map") \o Work \o GetFileAttr
    \o Write("opened_files") \o Drop("opened_files") \o InjectInto \o Drop("inode_map")

(* Those that read it. *)
Getattr == InjectWith("inode_map") \o Read("inode_map") \o GetFileAttr \o InjectInto \o Drop("inode_map")

Setattr == InjectWith("inode_map") \o Read("inode_map") \o Work \o GetFileAttr \o InjectInto \o Drop("inode_map")

(* readlink, statfs, getxattr, listxattr *)
Readlink == InjectWith("inode_map") \o Read("inode_map") \o Work \o InjectInto \o Drop("inode_map")

(* setxattr, removexattr, access *)
Setxattr == InjectWith("inode_map") \o Read("inode_map") \o Work \o Drop("inode_map")

Fsyncdir == Read("inode_map") \o Work \o Drop("inode_map")

(* Faulty variant: the table of open files is locked first. *)
OpenReversed ==
  InjectWith("inode_map") \o Write("opened_files") \o Read("inode_map") \o Work
    \o Drop("opened_files") \o InjectInto \o Drop("inode_map")

Open ==
  InjectWith("inode_map") \o Read("inode_map") \o Work
    \o Write("opened_files") \o Drop("opened_files") \o InjectInto \o Drop("inode_map")

Opendir ==
  InjectWith("inode_map") \o Read("inode_map") \o Work
    \o Write("opened_dirs") \o Drop("opened_dirs") \o InjectInto \o Drop("inode_map")

(* Those that use an open file or directory. *)
ReadFile == InjectWith("opened_files") \o Read("opened_files") \o Work \o InjectInto \o Drop("opened_files")

WriteFile ==
  InjectWith("opened_files") \o InjectWriteData
    \o Read("opened_files") \o Work \o InjectInto \o Drop("opened_files")

(* flush, fsync *)
Flush == InjectWith("opened_files") \o Read("opened_files") \o Work \o Drop("opened_files")

Release == Write("opened_files") \o Work \o Drop("opened_files")

Readdir == InjectWith("opened_dirs") \o Write("opened_dirs") \o Drop("opened_dirs")

Releasedir == Write("opened_dirs") \o Drop("opened_dirs")

(* RpcImpl::update *)
Update == Write("injector") \o Drop("injector")

Program ==
  [lookup |-> Lookup, forget |-> Forget, mknod |-> Mknod, mkdir |-> Mkdir, symlink |-> Symlink,
   unlink |-> Unlink, rmdir |-> Rmdir, rename |-> Rename, link |-> Link, create |-> Create,
   getattr |-> Getattr, setattr |-> Setattr, readlink |-> Readlink, setxattr |-> Setxattr,
   fsyncdir |-> Fsyncdir, open |-> Open, opendir |-> Opendir, read |-> ReadFile, write |-> WriteFile,
   flush |-> Flush, release |-> Release, readdir |-> Readdir, releasedir |-> Releasedir,
   update |-> Update]

ASSUME RequestsAssumption ==
  IsFiniteSet(Task) /\ Kinds \in [Task -> SUBSET DOMAIN Program] /\ MaxReads \in Nat \ {0}

-----------------------------------------------------------------------------
(* tokio::sync::RwLock (external): a fair semaphore of MaxReads permits. *)

(* The permits of l that are given out: the i-th one that t has, for each. *)
Permits(l) == {p \in Task \X (1..MaxReads) : p[2] <= held[l][p[1]]}

Free(l) == MaxReads - Cardinality(Permits(l))

Queued(t) == \E l \in Locks : \E i \in DOMAIN queue[l] : queue[l][i] = t

IsRest(steps, program) == \E i \in 1..(Len(program) + 1) : steps = SubSeq(program, i, Len(program))

Op(t) == Head(todo[t]).op

Next1(t) == todo' = [todo EXCEPT ![t] = Tail(@)]

(* spawn_reply and spawn: a task for the request. *)
Spawn(t) ==
  /\ todo[t] = <<>>
  /\ \E k \in Kinds[t] : todo' = [todo EXCEPT ![t] = Program[k]]
  /\ UNCHANGED <<held, queue>>

(* read().await, write().await: behind everyone who waits already. *)
Take(t) ==
  /\ todo[t] # <<>> /\ Op(t) = "acquire" /\ ~Queued(t)
  /\ LET l == Head(todo[t]).lock
         n == Head(todo[t]).permits
     IN IF queue[l] = <<>> /\ n <= Free(l)
        THEN Next1(t) /\ held' = [held EXCEPT ![l][t] = n] /\ UNCHANGED queue
        ELSE queue' = [queue EXCEPT ![l] = Append(@, t)] /\ UNCHANGED <<todo, held>>

Grant(l) ==
  /\ queue[l] # <<>>
  /\ LET t == Head(queue[l])
         n == Head(todo[t]).permits
     IN /\ n <= Free(l)
        /\ held' = [held EXCEPT ![l][t] = n]
        /\ Next1(t)
  /\ queue' = [queue EXCEPT ![l] = Tail(@)]

DropGuard(t) ==
  /\ todo[t] # <<>> /\ Op(t) = "drop"
  /\ held' = [held EXCEPT ![Head(todo[t]).lock][t] = 0]
  /\ Next1(t) /\ UNCHANGED queue

(* Faulty variant: a request that fails keeps its guards. *)
AwaitedLeaks(t) ==
  /\ todo[t] # <<>> /\ Op(t) = "work"
  /\ Next1(t) \/ todo' = [todo EXCEPT ![t] = <<>>]
  /\ UNCHANGED <<held, queue>>

(* Faulty variant: a request that fails is started again, without a limit. *)
AwaitedRetries(t) ==
  /\ todo[t] # <<>> /\ Op(t) = "work"
  /\ \/ Next1(t) /\ UNCHANGED held
     \/ /\ \E k \in Kinds[t] : IsRest(todo[t], Program[k]) /\ todo' = [todo EXCEPT ![t] = Program[k]]
        /\ held' = [l \in Locks |-> [held[l] EXCEPT ![t] = 0]]
  /\ UNCHANGED queue

(* The await is over, or has failed and the request with it. *)
Awaited(t) ==
  /\ todo[t] # <<>> /\ Op(t) = "work"
  /\ \/ Next1(t) /\ UNCHANGED held
     \/ /\ todo' = [todo EXCEPT ![t] = <<>>]
        /\ held' = [l \in Locks |-> [held[l] EXCEPT ![t] = 0]]
  /\ UNCHANGED queue

CheckEnabled(t) ==
  /\ todo[t] # <<>> /\ Op(t) = "inject"
  /\ \/ Next1(t)
     \/ todo' = [todo EXCEPT ![t] = SubSeq(@, Head(@).skip + 2, Len(@))]
  /\ UNCHANGED <<held, queue>>

Init ==
  /\ todo = [t \in Task |-> <<>>]
  /\ held = [l \in Locks |-> [t \in Task |-> 0]]
  /\ queue = [l \in Locks |-> <<>>]

Step(t) == Take(t) \/ DropGuard(t) \/ Awaited(t) \/ CheckEnabled(t)

Next == (\E t \in Task : Spawn(t) \/ Step(t)) \/ (\E l \in Locks : Grant(l))

(***************************************************************************)
(* The runtime polls a task that can go on, a system call or a latency     *)
(* ends, and a released permit goes to the task at the head of the queue.  *)
(* That requests keep coming is not assumed.                               *)
(***************************************************************************)
Fairness == (\A t \in Task : WF_vars(Step(t))) /\ (\A l \in Locks : WF_vars(Grant(l)))

Spec == Init /\ [][Next]_vars /\ Fairness

-----------------------------------------------------------------------------
(* Properties *)

(* Types, and what an RwLock of MaxReads permits allows.  A task waits in  *)
(* the queue of the lock it asks for; one that has ended, by an answer or  *)
(* by an error of an await, holds nothing.                                 *)
TypeOK ==
  /\ DOMAIN todo = Task /\ \A t \in Task : \E k \in DOMAIN Program : IsRest(todo[t], Program[k])
  /\ held \in [Locks -> [Task -> 0..MaxReads]] /\ \A l \in Locks : Free(l) \in 0..MaxReads
  /\ DOMAIN queue = Locks
  /\ \A l \in Locks : \A i \in DOMAIN queue[l] :
       LET t == queue[l][i] IN t \in Task /\ todo[t] # <<>> /\ Op(t) = "acquire" /\ Head(todo[t]).lock = l
  /\ \A t \in Task : todo[t] = <<>> => \A l \in Locks : held[l][t] = 0

Rank == [inode_map |-> 1, opened_files |-> 2, opened_dirs |-> 2, injector |-> 3]

(* The handlers, with their early returns, and update take the locks in    *)
(* one order: inode_map, then opened_files or opened_dirs, then injector.  *)
(* In particular no request asks again for a lock it holds, which would    *)
(* hang it when a writer waits in between.                                 *)
LockOrder ==
  \A t \in Task : todo[t] # <<>> /\ Op(t) = "acquire" =>
    \A l \in Locks : held[l][t] > 0 => Rank[l] < Rank[Head(todo[t]).lock]

(* Never does every request in progress wait for another one. *)
NotAllWaiting ==
  (\E t \in Task : todo[t] # <<>>) =>
    \/ \E t \in Task : todo[t] # <<>> /\ ~Queued(t)
    \/ \E l \in Locks : queue[l] # <<>> /\ Head(todo[Head(queue[l])]).permits <= Free(l)

(* Every request is answered and every update of the injectors takes       *)
(* effect, however many requests come after it.                            *)
Answered == \A t \in Task : todo[t] # <<>> ~> todo[t] = <<>>
=============================================================================
