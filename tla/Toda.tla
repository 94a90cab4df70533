-------------------------------- MODULE Toda --------------------------------
(***************************************************************************)
(* The life of the toda process: inject, serve until a signal, resume      *)
(* (src/src/main.rs), with the mounts it moves (mount_injector.rs,         *)
(* mount.rs), the thread that runs the FUSE session, the guard that thread *)
(* wakes the main thread with (stop.rs), the shutdown of the tokio runtime *)
(* (hookfs/runtime.rs), and the processes whose files it moves from one    *)
(* mount to the other (replacer/mod.rs).                                   *)
(*                                                                         *)
(* Mounts are stacked on two directories: path, the target, and new, the   *)
(* __chaosfs__ directory beside it.  The target is a mount point, "vol".   *)
(* A process holds at most one file open below path or new, on the mount   *)
(* that was on top when it opened it.                                      *)
(***************************************************************************)
EXTENDS Naturals, Sequences, SequencesExt

CONSTANTS
  Procs,       \* processes that use the target
  MaxTries,    \* tries of an umount: the first one and 20 retries in the code
  NoMount

ASSUME TodaAssumption ==
  /\ MaxTries \in Nat \ {0}
  /\ NoMount \notin {"vol", "bind", "fuse", "back"}

VARIABLES
  mount_only, \* Options::mount_only: no replacer runs
  prompt,   \* TRUE: the FUSE thread is through with mounting when the sleep of 200 ms ends
  pc,       \* where the main thread is
  session,  \* where the FUSE thread is
  path,     \* the mounts on the target, the last one on top
  new,      \* the mounts on the __chaosfs__ directory
  inner,    \* Stop::inner, set when the guard is dropped
  enabled,  \* HookFs::enable_injection
  injected, \* inject() has returned Ok: main holds the MountInjectionGuard
  frozen,   \* processes stopped by ptrace
  file,     \* the mount of the file each process holds open
  closing,  \* where the task of each process's last RELEASE is
  signal,   \* SIGINT or SIGTERM has been caught
  tries     \* umounts tried in the present loop

env == <<mount_only, prompt>>   \* chosen once

vars == <<env, pc, session, path, new, inner, enabled, injected, frozen, file, closing, signal, tries>>

Data == {"vol", "bind", "back"}   \* three mounts of the same volume

Mount == Data \cup {"fuse"}

Exited == {"ok", "error", "panic"}

Before == {"start", "private", "bind", "prepare", "create", "move", "spawn", "wait", "asleep", "replace"}

After == {"disable", "canonicalize", "detect", "reopen", "umount", "join", "bindback", "umountnew"}

TypeOK ==
  /\ mount_only \in BOOLEAN /\ prompt \in BOOLEAN
  /\ pc \in Before \cup {"serve"} \cup After \cup Exited
  /\ session \in {"none", "mkdir", "mount", "serving", "shutdown", "ended", "failed"}
  /\ path \in Seq(Mount) /\ new \in Seq(Mount)
  /\ inner \in BOOLEAN /\ enabled \in BOOLEAN /\ injected \in BOOLEAN /\ signal \in BOOLEAN
  /\ frozen \subseteq Procs
  /\ file \in [Procs -> Mount \cup {NoMount}]
  /\ closing \in [Procs -> {"none", "queued", "polled", "blocking"}]
  /\ tries \in 0..MaxTries

Top(stack) == Last(stack)

Running == pc \notin Exited

(* umount(2) refuses a mount on which a file is open. *)
Pinned(m) == \E p \in Procs : file[p] = m

-----------------------------------------------------------------------------
(* inject() *)

Goto(from, to) == pc = from /\ pc' = to

(* Faulty variants, one per plausible slip in the code. *)

(* The replacer is not dropped when inject() returns an error. *)
InjectFailsFrozen(from) ==
  /\ Goto(from, "serve")
  /\ UNCHANGED <<session, path, new, inner, enabled, injected, frozen, file, closing, signal, tries, env>>

(* The mount is taken off path and put nowhere. *)
MoveMountDrops ==
  /\ Goto("move", "spawn") /\ path' = Front(path)
  /\ UNCHANGED <<session, new, inner, enabled, injected, frozen, file, closing, signal, tries, env>>

(* The main thread does not wait for the guard. *)
WaitNot ==
  /\ Goto("wait", "replace")
  /\ UNCHANGED <<session, path, new, inner, enabled, injected, frozen, file, closing, signal, tries, env>>

(* The tries are not limited ... *)
RetryUnlimited(from, m) ==
  /\ pc = from /\ Pinned(m) /\ tries' = tries + 1
  /\ UNCHANGED <<pc, session, path, new, inner, enabled, injected, frozen, file, closing, signal, env>>

(* ... nor counted. *)
RetryForever(from, m) == pc = from /\ Pinned(m) /\ UNCHANGED vars

(* The FUSE thread is not joined. *)
JoinNot ==
  /\ Goto("join", "bindback")
  /\ UNCHANGED <<session, path, new, inner, enabled, injected, frozen, file, closing, signal, tries, env>>

(* The error of the umount is only logged. *)
UmountNewIgnored ==
  /\ Goto("umountnew", "ok") /\ frozen' = {}
  /\ IF Pinned(Top(new)) THEN UNCHANGED new ELSE new' = Front(new)
  /\ UNCHANGED <<session, path, inner, enabled, injected, file, closing, signal, tries, env>>

-----------------------------------------------------------------------------

(* inject() returns an error: its locals are dropped, so the replacer       *)
(* detaches; the FUSE thread, if there is one, runs on.  main waits for a   *)
(* signal all the same.                                                     *)
InjectFails(from) ==
  /\ Goto(from, "serve") /\ frozen' = {}
  /\ UNCHANGED <<session, path, new, inner, enabled, injected, file, closing, signal, tries, env>>

Canonicalize ==
  \/ /\ Goto("start", "private")
     /\ UNCHANGED <<session, path, new, inner, enabled, injected, frozen, file, closing, signal, tries, env>>
  \/ InjectFails("start")

(* mount(MS_PRIVATE).unwrap_or_else(panic) *)
MakePrivate ==
  /\ Goto("private", "bind") \/ Goto("private", "panic")
  /\ UNCHANGED <<session, path, new, inner, enabled, injected, frozen, file, closing, signal, tries, env>>

BindSelf ==
  /\ \/ Goto("bind", "prepare") /\ path' = Append(path, "bind")
     \/ Goto("bind", "panic") /\ UNCHANGED path
  /\ UNCHANGED <<session, new, inner, enabled, injected, frozen, file, closing, signal, tries, env>>

(* UnionReplacer::prepare: a process that holds a file of the target is    *)
(* stopped, unless it cannot be traced.                                    *)
Prepare(from, to) ==
  /\ Goto(from, to)
  /\ IF mount_only THEN UNCHANGED frozen
     ELSE frozen' \in SUBSET {p \in Procs : file[p] # NoMount}
  /\ UNCHANGED <<session, path, new, inner, enabled, injected, file, closing, signal, tries, env>>

CreateInjection ==
  \/ /\ Goto("create", "move")
     /\ UNCHANGED <<session, path, new, inner, enabled, injected, frozen, file, closing, signal, tries, env>>
  \/ InjectFails("create")

(* MountsInfo::move_mount: the top mount of path goes to new. *)
MoveMount ==
  \/ /\ Goto("move", "spawn")
     /\ path' = Front(path) /\ new' = Append(new, Top(path))
     /\ UNCHANGED <<session, inner, enabled, injected, frozen, file, closing, signal, tries, env>>
  \/ InjectFails("move")

SpawnSession ==
  /\ Goto("spawn", "wait") /\ session' = "mkdir"
  /\ UNCHANGED <<path, new, inner, enabled, injected, frozen, file, closing, signal, tries, env>>

(* StopWaiter::wait, and the sleep after it. *)
Wait ==
  /\ \/ /\ inner /\ Goto("wait", "replace")
        /\ prompt => session \notin {"mkdir", "mount"}
     \/ ~inner /\ Goto("wait", "asleep")
  /\ UNCHANGED <<session, path, new, inner, enabled, injected, frozen, file, closing, signal, tries, env>>

(* Condvar::wait may return with no notification. *)
SpuriousWake ==
  /\ Goto("asleep", "wait")
  /\ UNCHANGED <<session, path, new, inner, enabled, injected, frozen, file, closing, signal, tries, env>>

(* The files of the processes in S are opened again on the mount m. *)
Reopened(S, m) == [p \in Procs |-> IF p \in S /\ file[p] # NoMount THEN m ELSE file[p]]

(* UnionReplacer::run reopens the files of the stopped processes at path,  *)
(* on whatever is mounted there; the first error ends it, and inject().    *)
(* It panics when a process dies under it, whose registers it cannot put   *)
(* back (Replacer!Panics).                                                 *)
RunReplacers ==
  \/ /\ Goto("replace", "serve")
     /\ file' = Reopened(frozen, Top(path)) /\ frozen' = {}
     /\ enabled' = TRUE /\ injected' = TRUE
     /\ UNCHANGED <<session, path, new, inner, closing, signal, tries, env>>
  \/ /\ ~mount_only
     /\ Goto("replace", "serve") \/ Goto("replace", "panic")
     /\ \E S \in SUBSET frozen : file' = Reopened(S, Top(path))
     /\ frozen' = {}
     /\ UNCHANGED <<session, path, new, inner, enabled, injected, closing, signal, tries, env>>

-----------------------------------------------------------------------------
(* main and resume() *)

(* wait_for_signal; with no guard there is nothing to resume. *)
CatchSignal ==
  /\ signal
  /\ IF injected THEN Goto("serve", "disable") ELSE Goto("serve", "ok")
  /\ UNCHANGED <<session, path, new, inner, enabled, injected, frozen, file, closing, signal, tries, env>>

DisableInjection ==
  /\ Goto("disable", "canonicalize") /\ enabled' = FALSE
  /\ UNCHANGED <<session, path, new, inner, injected, frozen, file, closing, signal, tries, env>>

(* The path is looked up through the FUSE mount, and may not be found. *)
CanonicalizeAgain ==
  /\ Goto("canonicalize", "detect") \/ Goto("canonicalize", "error")
  /\ UNCHANGED <<session, path, new, inner, enabled, injected, frozen, file, closing, signal, tries, env>>

(* The result of run() is only logged; it may panic as well. *)
RunReplacersBack ==
  /\ \/ Goto("reopen", "umount") /\ UNCHANGED frozen
     \/ ~mount_only /\ Goto("reopen", "panic") /\ frozen' = {}
  /\ \E S \in SUBSET frozen : file' = Reopened(S, Top(new))
  /\ tries' = 0
  /\ UNCHANGED <<session, path, new, inner, enabled, injected, closing, signal, env>>

(* retry(Fixed::from_millis(500).take(20), umount): the locals of resume,  *)
(* the replacer among them, are dropped when it gives up.                  *)
Retry(from, m) ==
  /\ pc = from /\ Pinned(m)
  /\ IF tries + 1 < MaxTries
     THEN tries' = tries + 1 /\ UNCHANGED <<pc, frozen>>
     ELSE pc' = "error" /\ frozen' = {} /\ UNCHANGED tries
  /\ UNCHANGED <<session, path, new, inner, enabled, injected, file, closing, signal, env>>

(* recover_mount: whatever is on top of path goes. *)
UmountPath ==
  \/ Retry("umount", Top(path))
  \/ /\ Goto("umount", "join") /\ ~Pinned(Top(path))
     /\ path' = Front(path)
     /\ UNCHANGED <<session, new, inner, enabled, injected, frozen, file, closing, signal, tries, env>>

JoinSession ==
  /\ \/ session = "ended" /\ Goto("join", "bindback") /\ UNCHANGED frozen
     \/ session = "failed" /\ Goto("join", "error") /\ frozen' = {}
  /\ UNCHANGED <<session, path, new, inner, enabled, injected, file, closing, signal, tries, env>>

(* MountsInfo::bind_mount: what is mounted on new is mounted on path too ... *)
BindBack ==
  /\ \/ Goto("bindback", "umountnew") /\ path' = Append(path, "back") /\ UNCHANGED frozen
     \/ \E to \in {"error", "panic"} : Goto("bindback", to) /\ frozen' = {} /\ UNCHANGED path
  /\ tries' = 0
  /\ UNCHANGED <<session, new, inner, enabled, injected, file, closing, signal, env>>

(* ... and goes from new, if nobody has a file open there. *)
UmountNew ==
  \/ Retry("umountnew", Top(new))
  \/ /\ Goto("umountnew", "ok") /\ ~Pinned(Top(new))
     /\ new' = Front(new) /\ frozen' = {}
     /\ UNCHANGED <<session, path, inner, enabled, injected, file, closing, signal, tries, env>>

-----------------------------------------------------------------------------
(* The FUSE thread.  StopGuard is dropped before fuser::mount, or with the *)
(* closure's captures when create_dir_all fails.                           *)

Wake == inner' = TRUE /\ pc' = IF pc = "asleep" THEN "wait" ELSE pc

CreateDir ==
  /\ Running
  /\ session = "mkdir" /\ session' \in {"mount", "failed"}
  /\ Wake
  /\ UNCHANGED <<path, new, enabled, injected, frozen, file, closing, signal, tries, env>>

FuseMount ==
  /\ Running
  /\ session = "mount"
  /\ \/ session' = "serving" /\ path' = Append(path, "fuse")
     \/ session' = "failed" /\ UNCHANGED path
  /\ UNCHANGED <<pc, new, inner, enabled, injected, frozen, file, closing, signal, tries, env>>

(* fuser::mount returns when the mount is gone; RUNTIME.write() is taken    *)
(* and held while the runtime is dropped.  Tasks that are not being polled  *)
(* are cancelled.                                                           *)
StartShutdown ==
  /\ Running
  /\ session = "serving" /\ ~Contains(path, "fuse")
  /\ session' = "shutdown"
  /\ closing' = [p \in Procs |-> IF closing[p] = "queued" THEN "none" ELSE closing[p]]
  /\ UNCHANGED <<pc, path, new, inner, enabled, injected, frozen, file, signal, tries, env>>

(* Dropping the runtime waits for its threads. *)
FinishShutdown ==
  /\ Running
  /\ session = "shutdown" /\ \A p \in Procs : closing[p] = "none"
  /\ session' = "ended"
  /\ UNCHANGED <<pc, path, new, inner, enabled, injected, frozen, file, closing, signal, tries, env>>

(* A task that handles RELEASE is polled, calls spawn_blocking (which needs *)
(* RUNTIME.read()), and is done when close(2) has returned.                 *)
RunRelease(p) ==
  /\ Running
  /\ \/ closing[p] = "queued" /\ session = "serving" /\ closing' = [closing EXCEPT ![p] = "polled"]
     \/ closing[p] = "polled" /\ session # "shutdown" /\ closing' = [closing EXCEPT ![p] = "blocking"]
     \/ closing[p] = "blocking" /\ closing' = [closing EXCEPT ![p] = "none"]
  /\ UNCHANGED <<pc, session, path, new, inner, enabled, injected, frozen, file, signal, tries, env>>

-----------------------------------------------------------------------------
(* The environment. *)

Signal ==
  /\ Running /\ ~signal /\ signal' = TRUE
  /\ UNCHANGED <<pc, session, path, new, inner, enabled, injected, frozen, file, closing, tries, env>>

(* A process opens a file below path. *)
OpenFile(p) ==
  /\ Running /\ p \notin frozen /\ file[p] = NoMount /\ path # <<>>
  /\ file' = [file EXCEPT ![p] = Top(path)]
  /\ UNCHANGED <<pc, session, path, new, inner, enabled, injected, frozen, closing, signal, tries, env>>

(* Closing a file of the FUSE mount sends a RELEASE nobody waits for; at    *)
(* most one of each process is followed at a time.                          *)
CloseFile(p) ==
  /\ Running /\ p \notin frozen /\ file[p] # NoMount
  /\ file' = [file EXCEPT ![p] = NoMount]
  /\ IF file[p] = "fuse" /\ session = "serving" /\ closing[p] = "none"
     THEN closing' = [closing EXCEPT ![p] = "queued"] ELSE UNCHANGED closing
  /\ UNCHANGED <<pc, session, path, new, inner, enabled, injected, frozen, signal, tries, env>>

-----------------------------------------------------------------------------
Init ==
  /\ mount_only \in BOOLEAN /\ prompt \in BOOLEAN
  /\ pc = "start" /\ session = "none"
  /\ path = <<"vol">> /\ new = <<>>
  /\ inner = FALSE /\ enabled = FALSE /\ injected = FALSE /\ signal = FALSE
  /\ frozen = {}
  /\ file \in [Procs -> {NoMount, "vol"}]
  /\ closing = [p \in Procs |-> "none"]
  /\ tries = 0

Main ==
  \/ Canonicalize \/ MakePrivate \/ BindSelf
  \/ Prepare("prepare", "create")
  \/ CreateInjection \/ MoveMount \/ SpawnSession \/ Wait \/ RunReplacers
  \/ CatchSignal \/ DisableInjection \/ CanonicalizeAgain
  \/ Prepare("detect", "reopen")
  \/ RunReplacersBack \/ UmountPath \/ JoinSession \/ BindBack \/ UmountNew

Session == CreateDir \/ FuseMount \/ StartShutdown \/ FinishShutdown

Environment == Signal \/ SpuriousWake \/ \E p \in Procs : OpenFile(p) \/ CloseFile(p)

(* The runtime is being dropped under RUNTIME.write(), and a worker it     *)
(* waits for wants RUNTIME.read().                                         *)
RuntimeStuck == session = "shutdown" /\ \E p \in Procs : closing[p] = "polled"

(* The main thread joins a session that was mounted after its umount and   *)
(* serves on.                                                              *)
LateMount == pc = "join" /\ Contains(path, "fuse")

Hung == RuntimeStuck \/ LateMount

(* The process is gone, or hangs for ever. *)
Stopped == (~Running \/ Hung) /\ UNCHANGED vars

Next == Main \/ Session \/ (\E p \in Procs : RunRelease(p)) \/ Environment \/ Stopped

(***************************************************************************)
(* Threads that can run do run: the main thread, the FUSE thread and the   *)
(* workers of the runtime.  Nothing is assumed of the other processes, nor *)
(* that a signal ever comes.                                               *)
(***************************************************************************)
Fairness == WF_vars(Main) /\ WF_vars(Session) /\ \A p \in Procs : WF_vars(RunRelease(p))

Spec == Init /\ [][Next]_vars /\ Fairness

-----------------------------------------------------------------------------
(* Properties *)

(* Whatever step of inject or resume fails, and wherever the FUSE thread   *)
(* is, the volume is mounted on top of path, or on new, where HookFs looks *)
(* for it.                                                                 *)
DataReachable == (path # <<>> /\ Top(path) \in Data) \/ new # <<>>

(* A FUSE session answers requests only while the volume is mounted on the *)
(* directory it takes the files from.                                      *)
SessionBacked == session = "serving" => new # <<>> /\ Top(new) \in Data

(* When resume has returned Ok, the volume is back on path, the FUSE mount *)
(* and the __chaosfs__ mount are gone, injection is off, and no process is *)
(* left on either of them.                                                 *)
CleanExit ==
  pc = "ok" /\ injected =>
    /\ path # <<>> /\ Top(path) \in Data /\ ~Contains(path, "fuse") /\ new = <<>>
    /\ session = "ended" /\ ~enabled
    /\ \A p \in Procs : file[p] \notin {"fuse", "bind"}

(* When the FUSE thread mounts in time, recover_mount takes the volume     *)
(* itself off path only if that thread has failed.                         *)
VolumeKept == prompt /\ ~Contains(path, "vol") => session = "failed"

(* A process the replacers have stopped runs again: on every way through   *)
(* inject and resume, errors included, it is detached, unless toda hangs.  *)
FrozenReleased == \A p \in Procs : p \in frozen ~> p \notin frozen \/ Hung

(* A signal ends toda, whatever fails on the way, but in two cases: the    *)
(* shutdown of the runtime meets a RELEASE task that has not reached       *)
(* spawn_blocking, or the FUSE thread mounts after the main thread has     *)
(* unmounted.                                                              *)
SignalExits == signal ~> ~Running \/ Hung

(* What the comment at the call of replacer.run in inject() says: FUSE is  *)
(* mounted on path by then.                                                *)
FuseUpAtRun == pc = "replace" => Contains(path, "fuse")
=============================================================================
