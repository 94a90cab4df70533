# TLA+ models of toda

toda injects faults into the file operations of running processes. It moves a
volume aside, mounts a FUSE file system in its place that forwards every
request to the volume, and lets injectors delay, fail or falsify requests.
Processes that have files of the volume open are stopped with ptrace and their
files are reopened on the new mount; on a signal everything is put back.

This directory models the parts of toda where order, failure and concurrency
matter. TLC checks the models on small instances; TLAPS proves every safety
property that the passing runs check for every value of the constants (three of
them about `HookFs` under hypotheses, named below). Liveness stays with TLC.
`PROJECT.json` lists the components, the runs, which lines each definition
models, and the hazards the models were built for.

## The system and its models

| Part (under `src/src`) | Module | Proofs |
|---|---|---|
| inode table: `Node`, `InodeMap` (`hookfs/mod.rs`) | `InodeMap` | `HookFsProofs`, `HookFsPaths` |
| namespace handlers and handlers by inode number (`hookfs/mod.rs`) | `HookFs` | `HookFsProofs`, `HookFsPaths` |
| the FUSE lookup/forget contract | `LookupContract` (abstract specification) | `HookFsProofs` |
| task per request, locks, inject macros (`hookfs/mod.rs`, `async_fs.rs`, `runtime.rs`), `update` (`jsonrpc.rs`) | `Requests` | `RequestsProofs` |
| `inject`, `resume`, signals (`main.rs`), mounts (`mount_injector.rs`, `mount.rs`), guard (`stop.rs`), runtime shutdown | `Toda` | `TodaProofs` |
| open files and directories, their descriptors (`hookfs/mod.rs`) | `Handles` | `HandlesProofs` |
| `readdir` and its offsets (`hookfs/mod.rs`) | `Readdir` | `ReaddirProofs` |
| injectors and filter (`injector/`), the points of the inject macros, `update` | `Injectors` | `InjectorsProofs` |
| ptrace manager (`ptrace/`) | `Ptrace` | `ReplacerProofs` |
| replacers (`replacer/`), over `Ptrace`; their effect on mounts in `Toda` | `Replacer` | `ReplacerProofs` |
| replies, errors, conversions, `/dev/fuse` node | none: no state | |

The modules whose names begin with `MC` add the symmetry sets and the values of
constants the configurations use.

### InodeMap and HookFs

The kernel names files by inode number, the volume by path. `inode_map` is a
function from the known inode numbers to a reference count and a list of
paths, as in `HookFs::inode_map`; `InodeMap` has one operator per method. `fs`
is the volume: the inode each existing path leads to. Inode numbers are reused
once no path leads to them. The remaining variables are the kernel's side:
entry replies `issued` by the handlers, `received` (counted) by the kernel,
lookups `released` by it, and the `forgets` on their way. `answer` records
which file the last request by number reached and changed.

A handler is one action, because it holds the lock of the table from its first
use of it to its reply; `Requests` models what happens around that. An entry
reply is counted by the kernel later, and FORGETs, each a task of its own, are
handled in any order. Failures that leave state behind are modelled: the new
file whose `lchown` or `stat` fails, the `stat` that fails after a rename or a
link (constant `StatFails`), the `setattr` that fails half way. Failures before
any change are stuttering. `OverrideInos` are the numbers an attribute
override may report.

`FreshRenames` restricts the requests (not the code) to renames that neither
replace a file nor move a directory; one run uses it to show that nothing else
makes a request reach the wrong file.

### LookupContract

A FUSE daemon must know an inode from the first entry reply until every lookup
has been given back. The abstract specification gives each lookup an identity,
so that giving back is set subtraction. `KeepsContract` maps the table's
domain to `known`, and to `owed` the lookups not given back yet together with
those of the FORGETs on their way.

### Requests

Each handler is the sequence of places where it may wait: taking a lock,
dropping a guard, awaiting a system call or a latency (which may end it with
an error and drop all guards), and asking whether injection is enabled. Locks
are tokio RwLocks: first come first served semaphores with a limited number of
permits, a writer taking all of them. `Permits(l)` is the set of the permits of
`l` that are given out, and `Free(l)` what is left of `MaxReads`. The constant `Kinds` says which handlers
each task may be.

### Handles

`handle[k]` follows one open file of the kernel: `open`, `opendir` or `create`
has its descriptor in hand (`own`, `insert`), the kernel has its key (`held`),
RELEASE has come (`release`), `close(2)` runs (`close`). `slot` are the slabs
`opened_files` and `opened_dirs`, `fds` the descriptors of the daemon, and
`use[t]` a read, write, flush, fsync or readdir from its arrival to the end of
its system call. The guards are not variables: who holds `opened_files` or
`opened_dirs` follows from how far each request is (`MayUse`, `MayWrite`). When
`close(2)` fails, Linux has given the descriptor up all the same, and `release`
returns before it removes the entry: a stale entry stays, under a key nobody
gets again, with a number that may be in use again. When `create` fails after
its `open`, its descriptor is `lost`.

### Readdir

`dir` is the directory in the order the volume lists it. Each request lists it
anew, skips as many entries as the offset says, and fills a reply of
`MaxReply` entries; between two requests other processes add entries anywhere
and remove them. Entries of an unknown type end the request with an error, but
only when the listing reaches them.

### Injectors

A handler is the sequence of points at which it asks the injectors (`Points`),
with its system calls between them. At each point it takes the read guard of
the list, goes through it, and leaves; a fault ends it. `Enable` and `Disable`
are the switch that `inject` and `resume` turn, `Update` the RPC call. What an
injector draws is a nondeterministic choice over everything it may draw: the
attempt in the range of the weights (`Attempts`, `Pick`), the stretches a
mistake overwrites (`Stretches`, `Handle`), whether percent hits. `acted` and
`asked` record which injectors did something to a request and which were to,
each with its place in the list, since a list may hold equal ones; `Allowance` is what the mistakes
among them may overwrite together. `IsConf` says what a configuration is. The sum of
the weights wraps at `Width` bits as the i32 sum does in a release build. A
path that is no valid pattern matches everything, and a list of unknown method
names only matches nothing, as in the code.

### Ptrace and Replacer

`Ptrace` has the operations of `PtraceManager`: `trace` attaches what
`/proc/<pid>/task` lists, pass after pass until two passes attach nothing,
while threads not attached yet create threads and exit; `detach` counts down
and lets all threads go with the last `TracedProcess`. `Replacer` extends it
with `UnionReplacer`: `prepare` of the descriptor, cwd and mmap replacers one
after another over the listed processes, `run` of each over the processes it
kept, and the drop of what they hold. Running code in a process saves its
registers, maps memory, runs, restores, unmaps; each step may fail, and a `?`
or a panic ends `run` with the steps that Rust's drops still make. Processes
use their files only while they are not stopped and only while `prepare` goes
on: what a process does after `trace` has missed it is excluded by `Caught` in
the properties.

### Toda

Mounts are stacks on two directories: the target and `__chaosfs__`. The main
thread walks through `inject`, waits for a signal and walks through `resume`;
the FUSE thread creates the directory, mounts, serves and shuts the runtime
down; processes open and close files unless they are stopped. Every `?`,
`unwrap` and `panic!` on the way that a state change precedes or follows is a
branch; the replacers may panic as well as fail. `mount_only` is the command line option. `prompt` says whether mounting
is done when the 200 ms sleep ends, which the code hopes for and cannot know;
only `VolumeKept` assumes it. Both are chosen once, in `Init`.

## Runs

| Run | Shows | Distinct states |
|---|---|---|
| `HookFsFlat` | `PathsDistinct`, `RefCounts`, `RenameStaleness`: two names, two files, failing stats | 25298 |
| `HookFsTree` | `RenameStaleness` with a directory that moves and is replaced | 108473 |
| `HookFsRefs` | `KernelRefsBacked`, `KeepsContract` with three lookups per inode and an overridden inode number | 57308 |
| `HookFsFresh` | `PathsAccurate`, `OwnFile` when no rename replaces or moves a directory | 41844 |
| `HookFsReplaced` | `OwnFile` fails otherwise (expected violation) | |
| `Requests` | `TypeOK`, `LockOrder`, `NotAllWaiting`, and `Answered` under fairness: every handler against mknod or open and against release or update | 73711 |
| `TodaLife` | `CleanExit`, `VolumeKept`, `DataReachable`, `SessionBacked`, `FrozenReleased`, `SignalExits`, `TypeOK`: with and without `--mount-only`, prompt and late mounts | 12687 |
| `TodaFuseUp` | `FuseUpAtRun` fails (expected violation) | |
| `ReplacerUnion` | `TypeOK`, `AllStopped`, `StoppedCounted`, `CasesFresh`, `MovedIfOk`, `LeavesNoTrace`, `ReopenFaithful`: two processes, three threads, one mishap | 899195 |
| `Handles` | `HandlesLive`, `IoOnOwnFile`, `FdsAccounted`: failing closes and creates, reused descriptors | 31562 |
| `Readdir` | `TypeOK`, `MissedBounded`, `RepeatedBounded`, and `ListingEnds` under fairness: a listing of a directory that changes | 263654 |
| `Injectors` | `TypeOK`, `OneList`, `OffQuiet`, `FaultFirst`, `ActsAsAsked`, `WeightsExact`, `MistakeConfined`: requests against update and the switch | 524250 |

Bounds. Two names and two files suffice for a rename over a file, a hard link,
and the reuse of an inode number; depth two with one directory for a file
below a moving directory. Three lookups per inode let FORGETs of different
sizes overtake one another and a later lookup. In `Requests` one task is any
handler, the second one of those that hold a guard across an await, the third
a writer; with two permits per lock in place of tokio's many, this shows a
queued writer between readers and a lock whose readers are all taken. Two
processes, one stopped and one not, meet all steps of `Toda`; two tries stand
for the 21 of an umount.

`ReplacerUnion` has two processes and three threads in all (`MaxThreads`), so
that a thread may hand over to another that hands over again; one mishap
(`MaxMishaps`: a process refused or killed, `/proc` unreadable, `mmap` failing)
can fall at any step. `MCUses` says what the files of the processes may be.
Thread ids are not reused. `Handles` has two opens at a time and three
descriptors and keys (`Open`, `Fd`, `Fh`), one more than the opens, so that a
stale entry of the one failing close (`MaxFailures`) and a reused descriptor
meet two live handles. A listing of five entries in replies of two takes
several requests (`Entries`, `MaxReply`), and three changes (`MaxChanges`) fall
between them. Weights of three bits (`Width`) make every sum and overflow
small enough to enumerate; one update (`MaxUpdates`) falls anywhere. One of the
lists holds the same mistake injector twice. Requests
meet each other in `Injectors` only through the guard that keeps `update` out,
so one task makes requests of all kinds and the other just holds the guard.

Symmetry is used over processes, opens, tasks, paths, descriptors and keys
where the models treat them alike and the run has no liveness property.

Requests by number change neither the tree nor the table, so the runs that are
about these use `SpecNames`, without them; `HookFsFresh` and `HookFsReplaced`
make all requests.

Deadlock is checked in the runs of `HookFs`, `Requests` and `Toda`. The others
may stop: a listing or the replacers are through, each task of `Injectors` is
one request, and in `Handles` every descriptor may have been lost. In `Toda` a finished or hung process
stutters (`Stopped`); a state in which nothing can happen and which is neither
would be reported.

Fairness. `Requests`: the runtime polls tasks that can go on, system calls and
latencies end, and a lock's permit goes to the first in its queue (tokio
documents its RwLock as fair). Nothing is assumed of new requests. `Toda`: the
main thread, the FUSE thread and the runtime's workers run when they can.
Nothing is assumed of the other processes, and no signal need come. `Readdir`:
the caller goes on asking until the listing ends, and the daemon answers. The
other models state safety only and have no fairness.

## What the runs found

* A rename over a file leaves the replaced inode with the name it lost, and
  requests for it (`fstat` on an open descriptor, `setattr`, `open`) reach the
  file that replaced it. The test `nlink_zero` expects the replaced file's
  link count (`HookFsReplaced`).
* `mount()` returns Ok when the FUSE thread has failed, so the replacers may
  run, and `resume` may unmount the volume itself, with no FUSE in place. The
  comment in `inject` says it is mounted (`TodaFuseUp`).
* `SignalExits` and `FrozenReleased` hold up to two hangs, named in `Hung`:
  the runtime is dropped while the write lock on `RUNTIME` is held, and a
  RELEASE task that has been polled but has not reached `spawn_blocking` waits
  for that lock (`RuntimeStuck`); and a FUSE mount that succeeds after
  `recover_mount` has unmounted is joined for ever (`LateMount`).
* When a stopped process was reopened on `__chaosfs__`, the last umount of
  `resume` finds it busy until the retries are used up, and `resume` returns
  an error; `CleanExit` is about the exits that report success.
* A listing misses at most as many entries as were removed, and repeats at
  most as many as were added, since it began (`MissedBounded`,
  `RepeatedBounded`): the offset is an index into a list that shifts.
* Two passes that attach nothing do not mean that all threads are stopped: two
  threads that create a successor and exit between the listing and their turn
  leave one running. One such thread is not enough (`AllStopped`).
* `CwdReplacer` reads the working directory before it stops the process; the
  directory is sure to be the old one only if `FdReplacer` had stopped the
  process before (`CasesFresh`). The result of the injected `chdir` is not
  looked at.
* Injection that is switched off still falsifies data to be written
  (`OffQuiet` names it as the exception).
* RELEASE, RELEASEDIR, FORGET and FSYNCDIR are accepted as method names, and
  nothing is ever injected there.
* A failed `close(2)` leaves an entry with a stale descriptor number in
  `opened_files`. It is harmless: nobody gets its key (`HandlesLive`).
* A partial FORGET never lowers the count. The table may keep an entry for
  ever, and this is also what makes reordered FORGETs safe.

## Proofs

Everything is proved for every value of the constants that satisfies the named
assumption of the component's module, and rests on nothing else: sets of any
size, any number of requests, processes, threads, descriptors, changes and
mishaps. The assumptions say that bounds are natural numbers, that sets of
unlike things are disjoint, that the tasks of `Requests` and the entries of
`Readdir` are finitely many, that there is a greatest descriptor number, and
that the configurations of `Injectors` have the types of `InjectorConfig`. That
`2 ^ (Width - 1)` is positive is assumed as well, because the provers do not
compute powers; TLC evaluates it. Each proof gives an inductive invariant, one
lemma per action that keeps it, and the theorems that follow.

### HookFs

* `TypeCorrect`: `Spec => []TypeOK`.
* `RefCountsInvariant`: `Spec => []RefCounts`. `RefCounts`, with the types, is
  the inductive invariant. `KernelRefsBacked` alone is not inductive: a FORGET
  could claim more than the kernel ever released. `Base(i)`, the replies sent
  before the entry was created, is the key: since the count is never lowered,
  an entry's count is `issued - Base`, each FORGET on its way covers a
  stretch above `Base`, and the stretches are disjoint. Only a FORGET that
  covers everything from `Base` to `issued` can drop the entry, and then there
  is nothing else on its way and nothing held.
* `KernelRefsSafe`: `Spec => []KernelRefsBacked`, from the above.
* `ImplementsContract`: `Spec => KeepsContract`: the initial state maps to an
  initial state, and each action to `Learn`, `Grant`, `GiveBack` or a stutter.
* `PathsAlwaysDistinct`: `Spec => []PathsDistinct`, inductive together with the
  types: `Node::insert` appends only what is not in the list, and what
  `Node::remove` leaves is the list without one element, in its order.
* `OnlyRenameStales`: `Spec => RenameStaleness`, when no attribute override
  changes inode numbers (`OverrideInos = {}`; with one, the table takes a file
  for another from the first reply on). The invariant adds `Tree`: what lies
  above an existing path exists and is a directory. A step then
  does one of four things to tree and table together: a path is listed under
  the inode it leads to, none is, a name goes from both, or a rename. Paths
  that move are compared as prefixes (`Above`, `RerootMoves`).
* `PathsStayAccurate`, `NumbersReachOwnFile`: `PathsAccurate` and `OwnFile`,
  under the hypotheses that make them true and that the run `HookFsFresh` uses:
  no override of inode numbers, no rename that replaces a file or moves a
  directory (`FreshRenames`), and no `stat` that fails after the file system has
  been changed (`~StatFails`). `HookFsReplaced` shows what happens without the
  second.

### Handles

`HandlesTyped`, `HandlesAlwaysLive`, `IoAlwaysOnOwnFile`, `FdsAlwaysAccounted`:
`TypeOK`, `HandlesLive`, `IoOnOwnFile` and `FdsAccounted`. None is inductive.
`HInv` gives each open file the one descriptor it owns, in the hands of its
request or in its entry (`FdOf`), and says that it is open on what was opened
(`OwnedLive`), that nobody else owns it (`OwnedOnce`), that a request's
descriptor is the one its file owns (`UsesHeld`), and that what is open is owned
or lost (`Accounted`). `OwnedOnce` is why stale entries do no harm: who owns
another descriptor has another entry (`VacateKeepsOthers`). Every action keeps a
descriptor, gives one up or takes a fresh one; the first two are a lemma each
(`KeepStep`, `GiveUpStep`) that the lemmas of the actions use.

### Readdir

`TypeCorrect`, `MissesAreBounded`, `RepeatsAreBounded`: `TypeOK`,
`MissedBounded` and `RepeatedBounded`. The bounds hold at the end of a listing
only; what is inductive counts places on either side of the offset: those
before it whose entry was there all the time and was not returned number at
most `removed`, and those after it whose entry was returned number at most
`added` less what was repeated. An entry added or removed moves one place at
most across the offset, which is shown by mapping the places after the change
to the places before it (`Onto`, `OntoButOne`).

### Requests

`TypeCorrect`, `LocksInOrder`, `NeverAllWaiting`: `TypeOK`, `LockOrder` and
`NotAllWaiting`, for any number of requests and permits. What a handler holds
at each of its steps is derived from its parts as in Hoare logic:
`Triple(A, s, B)` says that steps `s`, begun with the locks `A`, take locks in
ascending order only and end with `B`. Macros and handlers are composed from
triples, and `Programs` says that each handler starts and ends with nothing.
The invariant says that each task is at a point of such a triple with the locks
it holds (`Ordered`), that a queue holds tasks that wait for its
lock, each once (`Queues`), and that no more permits are out than there are
(`WithinLimit`). If every task waited in vain, take the last lock in the order
that has a queue: whoever holds permits of it would be waiting for a later one,
so nobody does, and its first in line gets what it wants.

### Injectors

All seven properties: `TypeCorrect`, `ListStays`, `QuietWhenOff`,
`FaultsComeFirst`, `InjectorsActAsAsked`, `WeightsAreExact`,
`MistakesConfined`. The invariant (`Fine`) follows one request along what is left
of its points. `Route` says of the rest what the handlers have in common: points
that may fail come before the work, mistakes are made at the one point of
read and write that has the data, and what remains after a point is a route again.

* `WeightsAreExact` needs that the partial sums of non-negative weights grow and
  do not wrap while the total does not. This is an induction over data, done
  without an induction rule: `LeastProperties` gives a least index at which a
  claim fails, and there the recursive equation of `Sums` contradicts it. That
  the recursive function satisfies its equation is proved first (`SumsExist`,
  `SumsAdd`).
* `MistakesConfined` maps pairs of a stretch's number and a position in it onto
  the bytes overwritten, so that one injector overwrites at most
  `max_occurrences * max_length`; the pairs of the injectors of a request are
  disjoint because each injector comes with its place in the list.

### Ptrace and Replacer

`TypeCorrect`, `WholeProcessStopped`, `NobodyLeftStopped`, `NotesStayFresh`,
`AllMovedWhenOk`, `NoTraceLeft`, `CodeKeepsDescriptors`: `TypeOK`, `AllStopped`,
`StoppedCounted`, `CasesFresh`, `MovedIfOk`, `LeavesNoTrace` and
`ReopenFaithful`. The invariant has ten parts. `Counted` says that the counter
of a process is the number of `TracedProcess`es there are of it, and with
`Schedule` (each replacer sees a process once in `prepare` and once in `run`)
that it stays below 5. `Passes` is the invariant of the loop in `trace`: as long
as a thread of the process runs, each pass so far that attached nothing has
missed one that exited, and the present pass has attached one, has missed one,
or has one to come; hence two missed threads are needed to leave one running. `Clean`
confines toda's registers and memory to the one process in which it runs code,
and `Fresh` and `Moved` carry what `prepare` noted to `run`, past everything the
processes that are not stopped do to their files. What the generated code
computes for a whole table of descriptors (`ReopenAll`) is shown by
induction over the set of descriptors to reopen, with a minimal counterexample.

`ReopenFaithful` is about processes all of whose threads are stopped
(`Caught`). A process with a thread that `trace` has missed may open and close
descriptors between `prepare` and `run`, and then the code of `FdReplacer` acts on
descriptors that are not those it noted.

### Toda

`TodaTyped`, `DataAlwaysReachable`, `SessionAlwaysBacked`, `ExitAlwaysClean`,
`VolumeAlwaysKept`: the safety properties. `IInv` says which mounts there are on
`path` and `new` in each of four phases (`NotSpawned`, `Up`, `Joining`,
`Joined`), given where the main thread and the FUSE thread are. There are seven
stacks of mounts in all; `Stacks`, `StackTypes` and `StackContents` compute what
a mount or umount makes of each, and the steps of the proof are about names of
stacks only. `Joining` is the phase to look at: the umount may have taken the
FUSE mount, or the volume below it when the FUSE thread was late or failed, and
only the first leads on to `Joined`. `NoFuse` holds from the umount on, since it
fails while a file is open there, and `ExitAlwaysClean` needs it; `Mounted`
carries what `prompt` says at the end of the sleep over to the umount, for
`VolumeAlwaysKept`.

### Only model-checked

Liveness: `Answered` (`Requests`), `FrozenReleased` and `SignalExits` (`Toda`),
`ListingEnds` (`Readdir`). Properties under fairness are beyond the prover.
`RenameStaleness`, `PathsAccurate` and `OwnFile` are proved under the hypotheses
above, and are checked under the same restrictions.

The modules that are proved about, `Toda` excepted, use the sequence operators
of the standard module and not those of `SequencesExt`, whose definitions would
be part of every obligation and slow the provers down.

## Not modelled

Contents of files and attributes other than the inode number; which error a
failing system call returns (`listxattr` and `removexattr` read `errno` after
an await, perhaps on another thread); `getlk`, `setlk`, `bmap`, which answer
ENOSYS; the conversion of replies and errors; the transport of the RPC server;
the `/dev/fuse` node, one mknod whose failure is ignored; failures of the
kernel's own bookkeeping.

Of the replacers: the encoding of the machine code they generate (its system
calls are modelled), the addresses of mappings, positions shared by duplicated
descriptors, and signals that arrive while injected code runs, which the code
does not pass on. `Toda` takes from
`Replacer` only that the replacers stop processes, move some or all of their
files, fail or panic, and let go.
