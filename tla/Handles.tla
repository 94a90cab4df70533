------------------------------ MODULE Handles ------------------------------
(***************************************************************************)
(* The open files and directories of HookFs (src/src/hookfs/mod.rs): the   *)
(* slabs opened_files and opened_dirs, the descriptors their entries own,  *)
(* and the guards of their locks that are held across system calls.        *)
(*                                                                         *)
(* A member of Open is a `struct file' of the kernel: it is opened, used   *)
(* by any number of requests, flushed by every close of a duplicate, and   *)
(* released once, after the last request that uses it was answered.  The   *)
(* daemon knows it only by the handle (fh) it returned for it.             *)
(***************************************************************************)
EXTENDS Naturals

CONSTANTS
  Open,          \* bound: files and directories open at a time
  Task,          \* bound: requests that use them at a time
  Path,          \* what is opened
  Fd,            \* descriptors the daemon may have (RLIMIT_NOFILE)
  Fh,            \* bound: keys of a slab
  MaxFailures,   \* bound: failures of close(2)
  None

Entry == [fd : Fd, path : Path]

ASSUME HandlesAssumption == None \notin Path \cup Fd \cup Fh \cup Open \cup Entry /\ MaxFailures \in Nat

Table == {"file", "dir"}

VARIABLES
  fds,       \* fds[d]: what descriptor d is open on
  slot,      \* slot[b]: the slab opened_files or opened_dirs; an entry is a File or a Dir
  handle,    \* handle[k]: how far the opening or the release of k is
  use,       \* use[t]: a request that uses an open file or directory
  lost,      \* history: descriptors dropped by a create that failed
  failures   \* calls of close(2) that have failed

vars == <<fds, slot, handle, use, lost, failures>>

NoHandle == [pc |-> "idle", tab |-> "file", path |-> None, fd |-> None, fh |-> None]

NoUse == [pc |-> "idle", open |-> None, op |-> "none", fd |-> None]

Ops(b) == IF b = "file" THEN {"read", "write", "flush", "fsync"} ELSE {"readdir"}

Handle == [pc : {"idle", "own", "insert", "held", "release", "close", "panic"}, tab : Table,
           path : Path \cup {None}, fd : Fd \cup {None}, fh : Fh \cup {None}]

Use == [pc : {"idle", "get", "io"}, open : Open \cup {None},
        op : Ops("file") \cup Ops("dir") \cup {"none"}, fd : Fd \cup {None}]

(* Types; a request that has a descriptor in hand has a real one. *)
TypeOK ==
  /\ fds \in [Fd -> Path \cup {None}]
  /\ slot \in [Table -> [Fh -> Entry \cup {None}]]
  /\ handle \in [Open -> Handle]
  /\ \A k \in Open :
       /\ handle[k].pc # "idle" => handle[k].path \in Path
       /\ handle[k].pc \in {"own", "insert", "close"} => handle[k].fd \in Fd
       /\ handle[k].pc \in {"held", "release", "close"} => handle[k].fh \in Fh
  /\ use \in [Task -> Use]
  /\ \A t \in Task :
       /\ use[t].pc # "idle" => use[t].open \in Open
       /\ use[t].pc = "io" => use[t].fd \in Fd
  /\ lost \subseteq Fd
  /\ failures \in 0..MaxFailures

-----------------------------------------------------------------------------
(* The locks: a guard lives as long as the step of the request says. *)

UsedIn(t, b) == use[t].pc = "io" /\ handle[use[t].open].tab = b

Closing(b) == \E k \in Open : handle[k].pc = "close" /\ handle[k].tab = b

MayWrite(b) == ~Closing(b) /\ ~\E t \in Task : UsedIn(t, b)

(* read, write, flush and fsync take opened_files.read(), readdir takes opened_dirs.write(). *)
MayUse(b) == IF b = "file" THEN ~Closing(b) ELSE MayWrite(b)

-----------------------------------------------------------------------------
(* open, opendir, create *)

(* async_open or Dir::open returns a descriptor; its failure, like an      *)
(* injected fault before it, ends the request and changes nothing.         *)
AsyncOpen(k, b, p, next) ==
  /\ handle[k].pc = "idle"
  /\ \E d \in Fd :
       /\ fds[d] = None
       /\ fds' = [fds EXCEPT ![d] = p]
       /\ handle' = [handle EXCEPT ![k] = [pc |-> next, tab |-> b, path |-> p, fd |-> d, fh |-> None]]
  /\ UNCHANGED <<slot, use, lost, failures>>

OpenFile(k, p) == AsyncOpen(k, "file", p, "insert")

Opendir(k, p) == AsyncOpen(k, "dir", p, "insert")

Create(k, p) == AsyncOpen(k, "file", p, "own")

(* create goes on with lchown and stat; `?' forgets the descriptor, which nothing closes. *)
CreateOwn(k) ==
  /\ handle[k].pc = "own"
  /\ \/ handle' = [handle EXCEPT ![k].pc = "insert"] /\ UNCHANGED lost
     \/ handle' = [handle EXCEPT ![k] = NoHandle] /\ lost' = lost \cup {handle[k].fd}
  /\ UNCHANGED <<fds, slot, use, failures>>

(* The entry is inserted under the write guard, and the reply tells the kernel its key. *)
Insert(k) ==
  /\ handle[k].pc = "insert"
  /\ MayWrite(handle[k].tab)
  /\ \E h \in Fh :
       /\ slot[handle[k].tab][h] = None
       /\ slot' = [slot EXCEPT ![handle[k].tab][h] = [fd |-> handle[k].fd, path |-> handle[k].path]]
       /\ handle' = [handle EXCEPT ![k] = [@ EXCEPT !.pc = "held", !.fd = None, !.fh = h]]
  /\ UNCHANGED <<fds, use, lost, failures>>

-----------------------------------------------------------------------------
(* read, write, flush, fsync, readdir *)

(* The kernel sends a request for an open file or directory. *)
Request(t, k) ==
  /\ use[t].pc = "idle" /\ handle[k].pc = "held"
  /\ \E op \in Ops(handle[k].tab) : use' = [use EXCEPT ![t] = [pc |-> "get", open |-> k, op |-> op, fd |-> None]]
  /\ UNCHANGED <<fds, slot, handle, lost, failures>>

(* The guard is taken and the entry looked up: FhNotFound, or its descriptor. *)
GetFile(t) ==
  /\ use[t].pc = "get"
  /\ LET k == use[t].open
         e == slot[handle[k].tab][handle[k].fh]
     IN /\ MayUse(handle[k].tab)
        /\ use' = IF e = None THEN [use EXCEPT ![t] = NoUse] ELSE [use EXCEPT ![t] = [@ EXCEPT !.pc = "io", !.fd = e.fd]]
  /\ UNCHANGED <<fds, slot, handle, lost, failures>>

(* Faulty variant: flush, which comes with every close(2), closes the file. *)
DoneFlushCloses(t) ==
  /\ use[t].pc = "io"
  /\ fds' = IF use[t].op = "flush" THEN [fds EXCEPT ![use[t].fd] = None] ELSE fds
  /\ use' = [use EXCEPT ![t] = NoUse]
  /\ UNCHANGED <<slot, handle, lost, failures>>

(* The system call on the descriptor has returned, and the guard is dropped. *)
Done(t) ==
  /\ use[t].pc = "io"
  /\ use' = [use EXCEPT ![t] = NoUse]
  /\ UNCHANGED <<fds, slot, handle, lost, failures>>

-----------------------------------------------------------------------------
(* release, releasedir *)

(* The kernel sends it when the last reference to the file is gone. *)
LastPut(k) ==
  /\ handle[k].pc = "held"
  /\ \A t \in Task : use[t].open # k
  /\ handle' = [handle EXCEPT ![k].pc = "release"]
  /\ UNCHANGED <<fds, slot, use, lost, failures>>

(* Slab::remove panics on a vacant key. *)
Panic(k) == handle' = [handle EXCEPT ![k].pc = "panic"]

(* Removing a Dir from the slab drops it, and dropping it closes its descriptor. *)
Releasedir(k) ==
  /\ handle[k].pc = "release" /\ handle[k].tab = "dir" /\ MayWrite("dir")
  /\ LET e == slot["dir"][handle[k].fh]
     IN IF e = None
        THEN Panic(k) /\ UNCHANGED <<fds, slot>>
        ELSE /\ slot' = [slot EXCEPT !["dir"][handle[k].fh] = None]
             /\ fds' = [fds EXCEPT ![e.fd] = None]
             /\ handle' = [handle EXCEPT ![k] = NoHandle]
  /\ UNCHANGED <<use, lost, failures>>

(* The write guard is taken, and kept while close(2) runs on the pool. *)
Release(k) ==
  /\ handle[k].pc = "release" /\ handle[k].tab = "file" /\ MayWrite("file")
  /\ LET e == slot["file"][handle[k].fh]
     IN IF e = None
        THEN Panic(k)
        ELSE handle' = [handle EXCEPT ![k] = [@ EXCEPT !.pc = "close", !.fd = e.fd]]
  /\ UNCHANGED <<fds, slot, use, lost, failures>>

(* Faulty variant: the descriptor is left to nobody. *)
AsyncCloseNot(k) ==
  /\ handle[k].pc = "close"
  /\ slot' = [slot EXCEPT !["file"][handle[k].fh] = None]
  /\ handle' = [handle EXCEPT ![k] = NoHandle]
  /\ UNCHANGED <<fds, use, lost, failures>>

(* Faulty variant: a close that fails is tried again. *)
AsyncCloseRetries(k) ==
  /\ handle[k].pc = "close"
  /\ fds' = [fds EXCEPT ![handle[k].fd] = None]
  /\ \/ /\ slot' = [slot EXCEPT !["file"][handle[k].fh] = None]
        /\ handle' = [handle EXCEPT ![k] = NoHandle] /\ UNCHANGED failures
     \/ failures < MaxFailures /\ failures' = failures + 1 /\ UNCHANGED <<slot, handle>>
  /\ UNCHANGED <<use, lost>>

(* close(2) gives the descriptor up even when it fails; then `?' leaves    *)
(* the entry, with the number of a descriptor that may be used again.      *)
AsyncClose(k) ==
  /\ handle[k].pc = "close"
  /\ fds' = [fds EXCEPT ![handle[k].fd] = None]
  /\ handle' = [handle EXCEPT ![k] = NoHandle]
  /\ \/ slot' = [slot EXCEPT !["file"][handle[k].fh] = None] /\ UNCHANGED failures
     \/ failures < MaxFailures /\ failures' = failures + 1 /\ UNCHANGED slot
  /\ UNCHANGED <<use, lost>>

-----------------------------------------------------------------------------
Init ==
  /\ fds = [d \in Fd |-> None]
  /\ slot = [b \in Table |-> [h \in Fh |-> None]]
  /\ handle = [k \in Open |-> NoHandle]
  /\ use = [t \in Task |-> NoUse]
  /\ lost = {}
  /\ failures = 0

Opening(k) == (\E p \in Path : OpenFile(k, p) \/ Opendir(k, p) \/ Create(k, p)) \/ CreateOwn(k) \/ Insert(k)

Using(t) == (\E k \in Open : Request(t, k)) \/ GetFile(t) \/ Done(t)

Releasing(k) == LastPut(k) \/ Releasedir(k) \/ Release(k) \/ AsyncClose(k)

Next == (\E k \in Open : Opening(k) \/ Releasing(k)) \/ (\E t \in Task : Using(t))

(* Only safety is stated: that every request ends is shown in Requests. *)
Spec == Init /\ [][Next]_vars

-----------------------------------------------------------------------------
(* Properties *)

HasEntry(k) == handle[k].pc \in {"held", "release", "close"}

EntryOf(k) == slot[handle[k].tab][handle[k].fh]

(* A handle the kernel has, until its release is through, leads to an      *)
(* entry whose descriptor is open on what was opened, whatever other       *)
(* requests opened, closed or failed to close since; no two handles share  *)
(* a descriptor; and no release finds its entry gone, where Slab::remove   *)
(* would panic.                                                            *)
HandlesLive ==
  \A k \in Open :
    /\ handle[k].pc # "panic"
    /\ HasEntry(k) =>
         /\ EntryOf(k) # None /\ fds[EntryOf(k).fd] = handle[k].path
         /\ \A j \in Open \ {k} : HasEntry(j) /\ EntryOf(j) # None => EntryOf(j).fd # EntryOf(k).fd

(* A read, write, flush or readdir acts on the file its handle was opened  *)
(* on, and a release never closes another's descriptor, even though the    *)
(* numbers of closed descriptors stay behind in entries of opened_files.   *)
IoOnOwnFile ==
  /\ \A t \in Task : use[t].pc = "io" => fds[use[t].fd] = handle[use[t].open].path
  /\ \A k \in Open : handle[k].pc = "close" => fds[handle[k].fd] = handle[k].path

(* A descriptor that is open is owned by a handle of the kernel or by an   *)
(* opening or release under way: only a create that fails after its open   *)
(* leaks one.                                                              *)
FdsAccounted ==
  \A d \in Fd : fds[d] # None =>
    \/ d \in lost
    \/ \E k \in Open : handle[k].pc \in {"own", "insert"} /\ handle[k].fd = d
    \/ \E k \in Open : HasEntry(k) /\ EntryOf(k).fd = d
=============================================================================
