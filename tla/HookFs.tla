------------------------------- MODULE HookFs -------------------------------
(***************************************************************************)
(* The namespace side of the FUSE file system toda mounts                  *)
(* (src/src/hookfs/mod.rs): the handlers that read or write the inode      *)
(* table, the backing directory tree they act on, and the kernel's half of *)
(* the lookup/forget protocol.                                             *)
(*                                                                         *)
(* Every request is served by a task of its own (spawn in async_fs.rs), so *)
(* requests are handled in any order.  A handler that changes the table    *)
(* holds inode_map.write() from its first use of the table to its reply,   *)
(* and one that only reads it holds inode_map.read(): a handler is one     *)
(* atomic step.  What is not atomic is the traffic with the kernel: an     *)
(* entry reply is counted by the kernel after the handler has ended, and a *)
(* FORGET (sent without waiting for an answer) is handled after any number *)
(* of later requests.                                                      *)
(*                                                                         *)
(* A request that fails before it has changed anything, by an injected     *)
(* fault or by an error of the backing file system, is a stuttering step.  *)
(***************************************************************************)
EXTENDS InodeMap, FiniteSets

CONSTANTS
  Names,          \* names of directory entries
  MaxDepth,       \* bound: longest path below the mount point
  FileInos,       \* inode numbers the backing file system gives to non-directories
  DirInos,        \* ... and to directories
  Root,           \* FUSE_ROOT_ID, the inode number of the mount point
  OverrideInos,   \* values an AttrOverrideInjector gives to attr.ino
  FreshRenames,   \* TRUE: only renames of files to names not in use are requested
  StatFails,      \* TRUE: the stat after a rename(2) or link(2) that succeeded may fail
  MaxLookups,     \* bound: entry replies per inode
  NoFile

ASSUME HookFsAssumption ==
  /\ MaxDepth \in Nat /\ MaxLookups \in Nat
  /\ Root \notin FileInos \cup DirInos
  /\ FileInos \cap DirInos = {}
  /\ OverrideInos \subseteq FileInos \cup DirInos
  /\ FreshRenames \in BOOLEAN /\ StatFails \in BOOLEAN
  /\ NoFile \notin FileInos \cup DirInos \cup {Root}

Ino == FileInos \cup DirInos \cup {Root}

(* A path is relative to original_path, which is <<>>. *)
Path == {p \in Seq(Names) : Len(p) <= MaxDepth}

(* Path q lies below path p, at any depth. *)
Above(p, q) == Len(p) < Len(q) /\ \A k \in 1..Len(p) : p[k] = q[k]

Parent(p) == SubSeq(p, 1, Len(p) - 1)

VARIABLES
  fs,         \* the backing tree: the inode each existing path leads to
  inode_map,  \* HookFs::inode_map
  issued,     \* entry replies sent, per inode
  received,   \* entry replies the kernel has counted
  released,   \* lookups the kernel has given back with a FORGET
  forgets,    \* FORGET requests not handled yet
  answer      \* the last request addressed by inode number, and the file it reached

kernel == <<issued, received, released, forgets>>

vars == <<fs, inode_map, issued, received, released, forgets, answer>>

(***************************************************************************)
(* A FORGET gives back the lookups first+1..last of its inode, counted in  *)
(* the order the kernel received them.  HookFs sees only how many.         *)
(***************************************************************************)
Forget == [ino : Ino, first : Nat, last : Nat]

NLookup(f) == f.last - f.first

TypeOK ==
  /\ DOMAIN fs \subseteq Path /\ fs \in [DOMAIN fs -> Ino]
  /\ DOMAIN inode_map \subseteq Ino
  /\ inode_map \in [DOMAIN inode_map -> [ref_count : Nat, paths : Seq(Path)]]
  /\ issued \in [Ino -> Nat] /\ received \in [Ino -> Nat] /\ released \in [Ino -> Nat]
  /\ forgets \subseteq Forget
  /\ answer \in [asked : Ino, hit : Ino \cup {NoFile}, wrote : Ino \cup {NoFile}]

NoAnswer == [asked |-> Root, hit |-> NoFile, wrote |-> NoFile]

-----------------------------------------------------------------------------
(* The backing file system (external: system calls on original_path).      *)

IsDir(p) == p \in DOMAIN fs /\ fs[p] \in DirInos \cup {Root}

IsFile(p) == p \in DOMAIN fs /\ fs[p] \in FileInos

Below(p) == {q \in DOMAIN fs : Above(p, q)}

(* A name that can be created at path p: the parent is a directory there. *)
Creatable(p) == p \notin DOMAIN fs /\ IsDir(Parent(p))

(* An inode number is reused once no path leads to it any more. *)
FreeIno(i) == \A p \in DOMAIN fs : fs[p] # i

Linked(p, i) == [q \in DOMAIN fs \cup {p} |-> IF q = p THEN i ELSE fs[q]]

Unlinked(p) == [q \in DOMAIN fs \ {p} |-> fs[q]]

(* Path p with its prefix old replaced by new. *)
Reroot(p, old, new) == new \o SubSeq(p, Len(old) + 1, Len(p))

(* rename(2): two links to the same inode are left alone. *)
Renamed(old, new) ==
  IF new \in DOMAIN fs /\ fs[new] = fs[old] THEN fs
  ELSE LET moving  == Below(old) \cup {old}
           staying == DOMAIN fs \ (moving \cup {new})
       IN [p \in staying \cup {Reroot(q, old, new) : q \in moving} |->
             IF p \in staying THEN fs[p] ELSE fs[CHOOSE q \in moving : Reroot(q, old, new) = p]]

CanRename(old, new) ==
  /\ old \in DOMAIN fs /\ IsDir(Parent(new))
  /\ ~Above(old, new)
  /\ \A q \in Below(old) : Len(Reroot(q, old, new)) <= MaxDepth
  /\ \/ new \notin DOMAIN fs
     \/ IsFile(old) /\ IsFile(new)
     \/ IsDir(old) /\ IsDir(new) /\ Below(new) = {}

-----------------------------------------------------------------------------
(* Helpers of the handlers. *)

(* The kernel names an inode in a request only while it counts a lookup of it. *)
Held(i) == i = Root \/ received[i] > released[i]

(* HookFs::get_file_attr: the attributes may carry an overridden number. *)
StatIno(i) == {i} \cup OverrideInos

(* parent_path.join(name), for a parent that has a path. *)
Join(parent, name) == Append(GetPath(inode_map, parent), name)

CanJoin(parent) == Held(parent) /\ HasPath(inode_map, parent) /\ Len(GetPath(inode_map, parent)) < MaxDepth

(* Faulty variant: the path is listed under the number of the file, the    *)
(* reply carries the overridden one.                                       *)
ReplyEntryRealIno(path, i) ==
  \E ino \in StatIno(i) :
    /\ issued[ino] < MaxLookups
    /\ inode_map' = IncreaseRef(InsertPath(inode_map, i, path), ino)
    /\ issued' = [issued EXCEPT ![ino] = @ + 1]
    /\ answer' = NoAnswer
    /\ UNCHANGED <<received, released, forgets>>

(* The common end of the handlers that reply with an entry. *)
ReplyEntry(path, i) ==
  \E ino \in StatIno(i) :
    /\ issued[ino] < MaxLookups
    /\ inode_map' = IncreaseRef(InsertPath(inode_map, ino, path), ino)
    /\ issued' = [issued EXCEPT ![ino] = @ + 1]
    /\ answer' = NoAnswer
    /\ UNCHANGED <<received, released, forgets>>

(* lchown or stat failed: the error is returned and the new name stays. *)
NoEntry == answer' = NoAnswer /\ UNCHANGED <<inode_map, kernel>>

-----------------------------------------------------------------------------
(* Handlers addressed by parent and name. *)

Lookup(parent, name) ==
  /\ CanJoin(parent)
  /\ LET path == Join(parent, name)
     IN path \in DOMAIN fs /\ ReplyEntry(path, fs[path])
  /\ UNCHANGED fs

(* mknod, mkdir and symlink: create the object, chown it, stat it. *)
MakeNode(parent, name, inos) ==
  /\ CanJoin(parent)
  /\ LET path == Join(parent, name)
     IN /\ Creatable(path)
        /\ \E i \in inos : /\ FreeIno(i)
                           /\ fs' = Linked(path, i)
                           /\ ReplyEntry(path, i) \/ NoEntry

Mknod(parent, name) == MakeNode(parent, name, FileInos)

Mkdir(parent, name) == MakeNode(parent, name, DirInos)

Symlink(parent, name) == MakeNode(parent, name, FileInos)

(* open(O_CREAT), then chown and stat; an existing file is opened and chowned too. *)
Create(parent, name) ==
  /\ CanJoin(parent)
  /\ LET path == Join(parent, name)
     IN \/ MakeNode(parent, name, FileInos)
        \/ /\ IsFile(path)
           /\ ReplyEntry(path, fs[path]) \/ NoEntry
           /\ UNCHANGED fs

(* stat before the removal, to know which entry of the table loses the path. *)
RemoveName(path) ==
  /\ fs' = Unlinked(path)
  /\ \E ino \in StatIno(fs[path]) : inode_map' = RemovePath(inode_map, ino, path)
  /\ answer' = NoAnswer
  /\ UNCHANGED kernel

Unlink(parent, name) ==
  CanJoin(parent) /\ IsFile(Join(parent, name)) /\ RemoveName(Join(parent, name))

Rmdir(parent, name) ==
  /\ CanJoin(parent)
  /\ IsDir(Join(parent, name)) /\ Below(Join(parent, name)) = {}
  /\ RemoveName(Join(parent, name))

(* Only the entry of the moved inode is touched, and not even that when    *)
(* the stat of the new path fails: see RenameStaleness.                    *)
RenamePaths(old, new) ==
  /\ CanRename(old, new)
  /\ FreshRenames => IsFile(old) /\ new \notin DOMAIN fs
  /\ fs' = Renamed(old, new)
  /\ \/ \E ino \in StatIno(fs[old]) :
          inode_map' = InsertPath(RemovePath(inode_map, ino, old), ino, new)
     \/ StatFails /\ UNCHANGED inode_map
  /\ answer' = NoAnswer
  /\ UNCHANGED kernel

Rename(parent, name, newparent, newname) ==
  /\ CanJoin(parent) /\ CanJoin(newparent)
  /\ RenamePaths(Join(parent, name), Join(newparent, newname))

Link(i, newparent, newname) ==
  /\ Held(i) /\ HasPath(inode_map, i) /\ CanJoin(newparent)
  /\ LET original == GetPath(inode_map, i)
         path     == Join(newparent, newname)
     IN /\ IsFile(original) /\ Creatable(path)
        /\ fs' = Linked(path, fs[original])
        /\ ReplyEntry(path, fs[original]) \/ (StatFails /\ NoEntry)

-----------------------------------------------------------------------------
(* Handlers addressed by inode number: they act on the file at its path. *)

(* The file a system call on the path of i reaches. *)
Reached(i) ==
  IF HasPath(inode_map, i) /\ GetPath(inode_map, i) \in DOMAIN fs
  THEN fs[GetPath(inode_map, i)] ELSE NoFile

Reply(i, hit, wrote) ==
  /\ answer' = [asked |-> i, hit |-> hit, wrote |-> wrote]
  /\ UNCHANGED <<fs, inode_map, kernel>>

(* An injected fault or an error answers the request, or the system call does. *)
ReadByIno(i) == Held(i) /\ \E hit \in {Reached(i), NoFile} : Reply(i, hit, NoFile)

WriteByIno(i) == Held(i) /\ \E hit \in {Reached(i), NoFile} : Reply(i, hit, hit)

Getattr(i) == ReadByIno(i)

(* lchown, chmod, truncate, utimensat, stat: a later one may fail after an earlier one. *)
Setattr(i) ==
  \/ WriteByIno(i)
  \/ Held(i) /\ Reply(i, NoFile, Reached(i))

Readlink(i) == i \in FileInos /\ ReadByIno(i)

(* The flags may hold O_TRUNC. *)
Open(i) == i \in FileInos /\ (ReadByIno(i) \/ WriteByIno(i))

Opendir(i) == i \notin FileInos /\ ReadByIno(i)

(* The path is looked up for the filter; the call is made on original_path. *)
Statfs(i) ==
  Held(i) /\ \E hit \in {NoFile} \cup {j \in {i} : HasPath(inode_map, j)} : Reply(i, hit, NoFile)

Setxattr(i) == WriteByIno(i)

Getxattr(i) == ReadByIno(i)

Listxattr(i) == ReadByIno(i)

Removexattr(i) == WriteByIno(i)

Access(i) == ReadByIno(i)

-----------------------------------------------------------------------------
(* The kernel's half of the lookup protocol, and FORGET. *)

(* The kernel counts an entry reply that has arrived. *)
CountReply(i) ==
  /\ received[i] < issued[i]
  /\ received' = [received EXCEPT ![i] = @ + 1]
  /\ answer' = NoAnswer
  /\ UNCHANGED <<fs, inode_map, issued, released, forgets>>

(* The kernel gives back n lookups; the mount point's inode stays. *)
SendForget(i, n) ==
  /\ i # Root /\ released[i] + n <= received[i]
  /\ released' = [released EXCEPT ![i] = @ + n]
  /\ forgets' = forgets \cup {[ino |-> i, first |-> released[i], last |-> released[i] + n]}
  /\ answer' = NoAnswer
  /\ UNCHANGED <<fs, inode_map, issued, received>>

DoForget(f) ==
  /\ inode_map' = DecreaseRef(inode_map, f.ino, NLookup(f))
  /\ forgets' = forgets \ {f}
  /\ answer' = NoAnswer
  /\ UNCHANGED <<fs, issued, received, released>>

-----------------------------------------------------------------------------
(* HookFs::new: the mount point is in the table, with no lookup counted.   *)
(* The backing tree is empty; a file it already holds is one whose creator *)
(* failed to chown it.                                                     *)
Init ==
  /\ fs = [p \in {<<>>} |-> Root]
  /\ inode_map = InsertPath([i \in {} |-> EmptyNode], Root, <<>>)
  /\ issued = [i \in Ino |-> 0]
  /\ received = [i \in Ino |-> 0]
  /\ released = [i \in Ino |-> 0]
  /\ forgets = {}
  /\ answer = NoAnswer

ByName ==
  \E parent \in Ino, name \in Names :
    \/ Lookup(parent, name)
    \/ Mknod(parent, name)
    \/ Mkdir(parent, name)
    \/ Symlink(parent, name)
    \/ Create(parent, name)
    \/ Unlink(parent, name)
    \/ Rmdir(parent, name)
    \/ \E newparent \in Ino, newname \in Names : Rename(parent, name, newparent, newname)
    \/ \E i \in FileInos : Link(i, parent, name)

ByNumber ==
  \E i \in Ino :
    \/ Getattr(i)
    \/ Setattr(i)
    \/ Readlink(i)
    \/ Open(i)
    \/ Opendir(i)
    \/ Statfs(i)
    \/ Setxattr(i)
    \/ Getxattr(i)
    \/ Listxattr(i)
    \/ Removexattr(i)
    \/ Access(i)

Kernel ==
  \/ \E i \in Ino : CountReply(i)
  \/ \E i \in Ino, n \in 1..MaxLookups : SendForget(i, n)
  \/ \E f \in forgets : DoForget(f)

Next == ByName \/ ByNumber \/ Kernel

Spec == Init /\ [][Next]_vars

(* Requests by number leave the tree and the table alone: this part of Next *)
(* reaches the same ones, in fewer states.                                  *)
SpecNames == Init /\ [][ByName \/ Kernel]_vars

-----------------------------------------------------------------------------
(* Properties *)

(* Node::insert never lets a path into the list twice, whatever inserts,   *)
(* removals and renames have come before: Node::remove and the choice of   *)
(* the last path rely on it.                                               *)
PathsDistinct ==
  \A i \in DOMAIN inode_map :
    \A j, k \in DOMAIN inode_map[i].paths :
      inode_map[i].paths[j] = inode_map[i].paths[k] => j = k

(* An inode the kernel may name in a request, or is about to be told of,   *)
(* has an entry in the table: no FORGET, however late and whatever was     *)
(* looked up meanwhile, makes InodeMap::decrease_ref drop it.              *)
KernelRefsBacked ==
  \A i \in Ino : Held(i) \/ issued[i] > received[i] => i \in DOMAIN inode_map

(* The replies sent before the entry of i was last created. *)
Base(i) == issued[i] - Count(inode_map, i)

(* The count behind it.  An entry counts the replies since it was created; *)
(* the FORGETs on their way cover disjoint stretches of them, and what the *)
(* kernel still holds comes after.  Without an entry nothing is owed.      *)
RefCounts ==
  /\ Root \in DOMAIN inode_map /\ released[Root] = 0
  /\ \A i \in Ino : released[i] <= received[i] /\ received[i] <= issued[i]
  /\ \A i \in Ino \ DOMAIN inode_map : released[i] = issued[i]
  /\ \A i \in DOMAIN inode_map : 0 <= Base(i) /\ Base(i) <= released[i]
  /\ \A f \in forgets :
       /\ f.ino \in DOMAIN inode_map /\ f.ino # Root
       /\ Base(f.ino) <= f.first
       /\ f.first < f.last /\ f.last <= released[f.ino]
  /\ \A f, g \in forgets :
       f.ino = g.ino /\ f # g => f.last <= g.first \/ g.last <= f.first

(* The lookups granted for i and not given back by a FORGET already handled. *)
Outstanding(i) ==
  ((released[i] + 1) .. issued[i]) \cup UNION {(f.first + 1) .. f.last : f \in {g \in forgets : g.ino = i}}

Contract ==
  INSTANCE LookupContract WITH
    Ids    <- 1..MaxLookups,
    known  <- DOMAIN inode_map,
    owed   <- [i \in Ino |-> Outstanding(i)]

(* HookFs keeps the contract a FUSE daemon has with the kernel, although   *)
(* its reference count is never lowered and FORGETs overtake one another.  *)
KeepsContract == Contract!Spec

(* A path in the list of an inode that does not lead to it. *)
Stale(i, p) ==
  /\ i \in DOMAIN inode_map /\ Lists(inode_map[i].paths, p)
  /\ p \notin DOMAIN fs \/ fs[p] # i

(* Paths go stale in three ways only, all in rename: the file replaced     *)
(* keeps the name it lost, what lies below a directory that moves keeps    *)
(* the old prefix, and the file moved keeps its old name if the stat after *)
(* the rename fails.  Unlink, rmdir, link, FORGET and the reuse of inode   *)
(* numbers never leave a stale path behind.                                *)
RenameStaleness ==
  [][\A i \in DOMAIN inode_map, p \in DOMAIN fs :
       Stale(i, p)' /\ ~Stale(i, p) =>
         \E old \in DOMAIN fs, new \in DOMAIN fs' :
           /\ RenamePaths(old, new)
           /\ \/ p = new /\ fs[new] = i
              \/ Above(old, p)
              \/ p = old /\ fs[old] = i /\ UNCHANGED inode_map]_vars

(* When no rename replaces a file or moves a directory, every path in the  *)
(* table leads to the inode it is listed under.                            *)
PathsAccurate ==
  \A i \in DOMAIN inode_map : \A k \in DOMAIN inode_map[i].paths :
    inode_map[i].paths[k] \in DOMAIN fs /\ fs[inode_map[i].paths[k]] = i

(* A request addressed by inode number reads and changes the file of that  *)
(* inode, or fails.                                                        *)
OwnFile == answer.hit \in {answer.asked, NoFile} /\ answer.wrote \in {answer.asked, NoFile}
=============================================================================
