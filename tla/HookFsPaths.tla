---------------------------- MODULE HookFsPaths ----------------------------
(***************************************************************************)
(* The lists of paths in the inode table of HookFs: no sequence of         *)
(* inserts, removals, renames and FORGETs makes a list hold a path twice;  *)
(* while the table's numbers are the tree's, only RENAME leaves a path in  *)
(* a list that no longer leads to the inode, and only one that replaces or *)
(* carries something.                                                      *)
(***************************************************************************)
EXTENDS HookFsProofs

NoRepeat(s) == \A j, k \in DOMAIN s : s[j] = s[k] => j = k

DistinctTable(m) == \A i \in DOMAIN m : NoRepeat(m[i].paths)

(* Node::insert appends only what is not there. *)
LEMMA NodeInsertDistinct ==
  ASSUME NEW paths \in Seq(Path), NEW p \in Path, NoRepeat(paths)
  PROVE  NoRepeat(NodeInsert(paths, p))
<1>1. CASE Lists(paths, p)
  BY <1>1, Zenon DEF NodeInsert
<1>2. CASE ~Lists(paths, p)
  <2>1. \A i \in 1..Len(paths) : paths[i] # p
    BY <1>2 DEF Lists
  <2>2. /\ NodeInsert(paths, p) = Append(paths, p)
        /\ DOMAIN Append(paths, p) = 1..(Len(paths) + 1) /\ Append(paths, p)[Len(paths) + 1] = p
        /\ \A i \in 1..Len(paths) : Append(paths, p)[i] = paths[i]
    BY <1>2 DEF NodeInsert
  <2>3. Len(paths) \in Nat /\ DOMAIN paths = 1..Len(paths)
    BY LenProperties, Zenon
  <2>4. \A i \in 1..(Len(paths) + 1) : i \in 1..Len(paths) \/ i = Len(paths) + 1
    BY <2>3
  <2> QED BY <2>1, <2>2, <2>3, <2>4 DEF NoRepeat
<1> QED BY <1>1, <1>2, Zenon

(* Node::remove closes the gap and keeps the order. *)
LEMMA NodeRemoveDistinct ==
  ASSUME NEW paths \in Seq(Path), NEW p, NoRepeat(paths)
  PROVE  NoRepeat(NodeRemove(paths, p))
<1>1. CASE ~Lists(paths, p)
  BY <1>1, Zenon DEF NodeRemove
<1>2. CASE Lists(paths, p)
  <2> DEFINE k == CHOOSE i \in DOMAIN paths : paths[i] = p
             n == Len(paths)
             front == SubSeq(paths, 1, k - 1)
             rest == SubSeq(paths, k + 1, n)
  <2>1. k \in 1..n /\ n \in Nat /\ DOMAIN paths = 1..n
    BY <1>2, LenProperties, Zenon DEF Lists
  <2>2. NodeRemove(paths, p) = front \o rest
    BY <1>2, Zenon DEF NodeRemove
  <2> HIDE DEF k, n
  <2>3. \A i \in 1..n : paths[i] \in Path
    BY ElementOfSeq, Zenon DEF n
  <2>4. front \in Seq(Path) /\ Len(front) = k - 1 /\ \A i \in 1..(k - 1) : front[i] = paths[i]
    <3>1. k - 1 \in Int /\ \A i \in 1..(k - 1) : paths[i] \in Path
      BY <2>1, <2>3
    <3>2. /\ front \in Seq(Path) /\ Len(front) = IF 1 <= k - 1 THEN k - 1 - 1 + 1 ELSE 0
          /\ \A i \in 1..(k - 1 - 1 + 1) : front[i] = paths[1 + i - 1]
      BY <3>1, SubSeqProperties
    <3> HIDE DEF front
    <3> QED BY <2>1, <3>2
  <2>5. rest \in Seq(Path) /\ Len(rest) = n - k /\ \A i \in 1..(n - k) : rest[i] = paths[k + i]
    <3>1. k + 1 \in Int /\ n \in Int /\ \A i \in (k + 1)..n : paths[i] \in Path
      BY <2>1, <2>3
    <3>2. /\ rest \in Seq(Path) /\ Len(rest) = IF k + 1 <= n THEN n - (k + 1) + 1 ELSE 0
          /\ \A i \in 1..(n - (k + 1) + 1) : rest[i] = paths[k + 1 + i - 1]
      BY <3>1, SubSeqProperties
    <3> HIDE DEF rest
    <3> QED BY <2>1, <3>2
  <2> HIDE DEF front, rest
  <2>6. /\ front \o rest \in Seq(Path) /\ Len(front \o rest) = Len(front) + Len(rest)
        /\ \A i \in 1..(Len(front) + Len(rest)) :
             (front \o rest)[i] = IF i <= Len(front) THEN front[i] ELSE rest[i - Len(front)]
    BY <2>4, <2>5, ConcatProperties, Zenon
  <2> DEFINE r == front \o rest
  <2>7. DOMAIN r = 1..(n - 1)
    BY <2>1, <2>4, <2>5, <2>6, LenProperties
  <2>8. \A i \in 1..(n - 1) : r[i] = IF i < k THEN paths[i] ELSE paths[i + 1]
    <3> SUFFICES ASSUME NEW i \in 1..(n - 1) PROVE r[i] = IF i < k THEN paths[i] ELSE paths[i + 1]
      BY Zenon
    <3>1. CASE i < k
      <4>1. i \in 1..(Len(front) + Len(rest)) /\ i <= Len(front) /\ i \in 1..(k - 1)
        BY <3>1, <2>1, <2>4, <2>5
      <4> QED BY <3>1, <4>1, <2>4, <2>6, Zenon
    <3>2. CASE ~(i < k)
      <4>1. /\ i \in 1..(Len(front) + Len(rest)) /\ ~(i <= Len(front)) /\ i - Len(front) \in 1..(n - k)
            /\ k + (i - Len(front)) = i + 1
        BY <3>2, <2>1, <2>4, <2>5
      <4> QED BY <3>2, <4>1, <2>5, <2>6, Zenon
    <3> QED BY <3>1, <3>2, Zenon
  <2> HIDE DEF r
  <2>9. NoRepeat(r)
    BY <2>1, <2>7, <2>8 DEF NoRepeat
  <2> QED BY <2>2, <2>9, Zenon DEF r
<1> QED BY <1>1, <1>2, Zenon

(* InodeMap::insert_path keeps every list free of repetitions. *)
LEMMA InsertPathDistinct ==
  ASSUME NEW m, IsTable(m), DistinctTable(m), NEW i \in Ino, NEW p \in Path
  PROVE  DistinctTable(InsertPath(m, i, p))
<1>1. Entry(m, i) \in Node /\ NoRepeat(Entry(m, i).paths)
  BY DEF Entry, EmptyNode, Node, IsTable, DistinctTable, NoRepeat
<1>2. NoRepeat(NodeInsert(Entry(m, i).paths, p))
  BY <1>1, NodeInsertDistinct, Zenon DEF Node
<1>3. [Entry(m, i) EXCEPT !.paths = NodeInsert(@, p)].paths = NodeInsert(Entry(m, i).paths, p)
  BY <1>1, Zenon DEF Node
<1> QED BY <1>2, <1>3, Zenon DEF InsertPath, DistinctTable

(* So does InodeMap::remove_path. *)
LEMMA RemovePathDistinct ==
  ASSUME NEW m, IsTable(m), DistinctTable(m), NEW i, NEW p
  PROVE  DistinctTable(RemovePath(m, i, p))
<1>1. \A j \in DOMAIN m : NoRepeat([m[j] EXCEPT !.paths = NodeRemove(@, p)].paths)
  <2> SUFFICES ASSUME NEW j \in DOMAIN m
               PROVE  NoRepeat([m[j] EXCEPT !.paths = NodeRemove(@, p)].paths)
    BY Zenon
  <2>1. m[j] \in Node /\ NoRepeat(m[j].paths)
    BY Zenon DEF IsTable, DistinctTable
  <2>2. [m[j] EXCEPT !.paths = NodeRemove(@, p)].paths = NodeRemove(m[j].paths, p)
    BY <2>1, Zenon DEF Node
  <2> QED BY <2>1, <2>2, NodeRemoveDistinct, Zenon DEF Node
<1> QED BY <1>1, Zenon DEF RemovePath, DistinctTable

(* Counting does not touch the lists. *)
LEMMA CountingDistinct ==
  ASSUME NEW m, IsTable(m), DistinctTable(m), NEW i, NEW n
  PROVE  DistinctTable(IncreaseRef(m, i)) /\ DistinctTable(DecreaseRef(m, i, n))
<1>1. \A j \in DOMAIN m : [m[j] EXCEPT !.ref_count = @ + 1].paths = m[j].paths
  BY Zenon DEF IsTable, Node
<1>2. DistinctTable(IncreaseRef(m, i))
  BY <1>1, Zenon DEF IncreaseRef, DistinctTable
<1>3. DistinctTable(DecreaseRef(m, i, n))
  BY Zenon DEF DecreaseRef, DistinctTable
<1> QED BY <1>2, <1>3, Zenon

-----------------------------------------------------------------------------
DInv == TypeOK /\ DistinctTable(inode_map)

(* A reply with an entry inserts one path and counts one lookup. *)
LEMMA ReplyEntryDistinct ==
  ASSUME DInv, NEW path \in Path, NEW i \in Ino, ReplyEntry(path, i)
  PROVE  DistinctTable(inode_map')
<1>1. PICK ino \in StatIno(i) : inode_map' = IncreaseRef(InsertPath(inode_map, ino, path), ino)
  BY Zenon DEF ReplyEntry
<1>2. ino \in Ino /\ IsTable(inode_map)
  BY HookFsAssumption, TypeParts, Zenon DEF StatIno, Ino, DInv, TableType
<1> DEFINE m == InsertPath(inode_map, ino, path)
<1>3. IsTable(m) /\ DistinctTable(m)
  BY <1>2, InsertPathTable, InsertPathDistinct, Zenon DEF DInv
<1> HIDE DEF m
<1> QED BY <1>1, <1>3, CountingDistinct, Zenon DEF m

(* unlink and rmdir take a path out. *)
LEMMA RemoveNameDistinct ==
  ASSUME DInv, NEW path, RemoveName(path)
  PROVE  DistinctTable(inode_map')
<1>1. PICK ino \in StatIno(fs[path]) : inode_map' = RemovePath(inode_map, ino, path)
  BY Zenon DEF RemoveName
<1> QED BY <1>1, RemovePathDistinct, TypeParts, Zenon DEF DInv, TableType

(* rename takes the old path out and puts the new one in. *)
LEMMA RenameDistinct ==
  ASSUME DInv, NEW old \in Path, NEW new \in Path, RenamePaths(old, new)
  PROVE  DistinctTable(inode_map')
<1>1. ASSUME NEW ino \in StatIno(fs[old]),
             inode_map' = InsertPath(RemovePath(inode_map, ino, old), ino, new)
      PROVE  DistinctTable(inode_map')
  <2>1. ino \in Ino /\ IsTable(inode_map)
    BY HookFsAssumption, TypeParts, Zenon DEF StatIno, Ino, DInv, TableType, RenamePaths, CanRename, TypeOK
  <2> DEFINE m == RemovePath(inode_map, ino, old)
  <2>2. IsTable(m) /\ DistinctTable(m)
    BY <2>1, RemovePathTable, RemovePathDistinct, Zenon DEF DInv
  <2> HIDE DEF m
  <2> QED BY <1>1, <2>1, <2>2, InsertPathDistinct, Zenon DEF m
<1>2. ASSUME UNCHANGED inode_map PROVE DistinctTable(inode_map')
  BY <1>2, Zenon DEF DInv
<1> QED BY <1>1, <1>2, Zenon DEF RenamePaths

(* The handlers that reply with an entry or leave the table alone. *)
LEMMA MakeNodeDistinct ==
  ASSUME DInv, NEW parent \in Ino, NEW name \in Names, NEW inos \in SUBSET Ino, MakeNode(parent, name, inos)
  PROVE  DistinctTable(inode_map')
<1> DEFINE path == Join(parent, name)
<1>1. path \in Path
  BY JoinType, Zenon DEF MakeNode, DInv
<1>2. PICK i \in inos : ReplyEntry(path, i) \/ NoEntry
  BY Zenon DEF MakeNode
<1> HIDE DEF path
<1> QED BY <1>1, <1>2, ReplyEntryDistinct, Zenon DEF NoEntry, DInv

(* Every handler by name keeps the lists free of repetitions. *)
LEMMA ByNameDistinct ==
  ASSUME DInv, ByName
  PROVE  DistinctTable(inode_map')
<1>1. PICK parent \in Ino, name \in Names :
        \/ Lookup(parent, name) \/ Mknod(parent, name) \/ Mkdir(parent, name) \/ Symlink(parent, name)
        \/ Create(parent, name) \/ Unlink(parent, name) \/ Rmdir(parent, name)
        \/ \E newparent \in Ino, newname \in Names : Rename(parent, name, newparent, newname)
        \/ \E i \in FileInos : Link(i, parent, name)
  BY Zenon DEF ByName
<1> DEFINE path == Join(parent, name)
<1>2. CASE Lookup(parent, name)
  <2>1. path \in Path /\ fs[path] \in Ino /\ ReplyEntry(path, fs[path])
    BY <1>2, JoinType, Zenon DEF Lookup, DInv, TypeOK
  <2> QED BY <2>1, ReplyEntryDistinct, Zenon
<1>3. CASE Mknod(parent, name) \/ Mkdir(parent, name) \/ Symlink(parent, name)
  BY <1>3, MakeNodeDistinct, Zenon DEF Mknod, Mkdir, Symlink, Ino
<1>4. CASE Create(parent, name)
  <2>1. CASE MakeNode(parent, name, FileInos)
    BY <2>1, MakeNodeDistinct, Zenon DEF Ino
  <2>2. CASE IsFile(path) /\ (ReplyEntry(path, fs[path]) \/ NoEntry)
    <3>1. path \in Path /\ fs[path] \in Ino
      BY <1>4, <2>2, JoinType, Zenon DEF Create, DInv, IsFile, Ino
    <3> QED BY <2>2, <3>1, ReplyEntryDistinct, Zenon DEF NoEntry, DInv
  <2> QED BY <1>4, <2>1, <2>2, Zenon DEF Create
<1>5. CASE Unlink(parent, name) \/ Rmdir(parent, name)
  BY <1>5, RemoveNameDistinct, Zenon DEF Unlink, Rmdir
<1>6. CASE \E newparent \in Ino, newname \in Names : Rename(parent, name, newparent, newname)
  <2>1. PICK newparent \in Ino, newname \in Names : Rename(parent, name, newparent, newname)
    BY <1>6, Zenon
  <2>2. path \in Path /\ Join(newparent, newname) \in Path
    BY <2>1, JoinType, Zenon DEF Rename, DInv
  <2> QED BY <2>1, <2>2, RenameDistinct, Zenon DEF Rename
<1>7. CASE \E i \in FileInos : Link(i, parent, name)
  <2>1. PICK i \in FileInos : Link(i, parent, name)
    BY <1>7, Zenon
  <2> DEFINE file == fs[GetPath(inode_map, i)]
  <2>2. path \in Path /\ file \in Ino /\ (ReplyEntry(path, file) \/ NoEntry)
    BY <2>1, JoinType, Zenon DEF Link, DInv, IsFile, Ino
  <2> HIDE DEF file
  <2> QED BY <2>2, ReplyEntryDistinct, Zenon DEF NoEntry, DInv
<1> QED BY <1>1, <1>2, <1>3, <1>4, <1>5, <1>6, <1>7, Zenon

(* Requests by number and the kernel's counting leave the lists alone. *)
LEMMA OthersDistinct ==
  ASSUME DInv, ByNumber \/ Kernel \/ UNCHANGED vars
  PROVE  DistinctTable(inode_map')
<1>1. CASE ByNumber
  <2>1. UNCHANGED inode_map
    BY <1>1, Zenon DEF ByNumber, Getattr, Setattr, Readlink, Open, Opendir, Statfs, Setxattr, Getxattr, Listxattr,
                Removexattr, Access, ReadByIno, WriteByIno, Reply
  <2> QED BY <2>1, Zenon DEF DInv
<1>2. CASE Kernel
  <2>1. CASE \E f \in forgets : DoForget(f)
    <3>1. PICK f \in forgets : inode_map' = DecreaseRef(inode_map, f.ino, NLookup(f))
      BY <2>1, Zenon DEF DoForget
    <3> QED BY <3>1, CountingDistinct, TypeParts, Zenon DEF DInv, TableType
  <2>2. CASE UNCHANGED inode_map
    BY <2>2, Zenon DEF DInv
  <2> QED BY <1>2, <2>1, <2>2, Zenon DEF Kernel, CountReply, SendForget
<1>3. CASE UNCHANGED vars
  BY <1>3, Zenon DEF vars, DInv
<1> QED BY <1>1, <1>2, <1>3, Zenon

(* At the start the table holds the mount point. *)
LEMMA InitDistinct == Init => DInv
<1> SUFFICES ASSUME Init PROVE DistinctTable(inode_map)
  BY InitType, Zenon DEF DInv
<1> DEFINE m == [i \in {} |-> EmptyNode]
<1>1. IsTable(m) /\ DistinctTable(m) /\ Root \in Ino /\ <<>> \in Path
  BY HookFsAssumption DEF IsTable, DistinctTable, Ino, Path
<1> HIDE DEF m
<1> QED BY <1>1, InsertPathDistinct, Zenon DEF Init, m

(* Every step keeps types and lists. *)
LEMMA StepDistinct == DInv /\ [Next]_vars => DInv'
<1> SUFFICES ASSUME DInv, [Next]_vars PROVE DInv'
  BY Zenon
<1>1. TypeOK'
  BY StepType, Zenon DEF DInv
<1>2. DistinctTable(inode_map')
  BY ByNameDistinct, OthersDistinct, Zenon DEF Next
<1> QED BY <1>1, <1>2, Zenon DEF DInv

(* Whatever inserts, removals, renames and FORGETs have come before, no    *)
(* list of an inode holds a path twice: what Node::remove leaves behind,   *)
(* and which path get_path takes, is the same as for a set in the order of *)
(* insertion.                                                              *)
THEOREM PathsAlwaysDistinct == Spec => []PathsDistinct
<1>1. DInv => PathsDistinct
  BY Zenon DEF DInv, DistinctTable, NoRepeat, PathsDistinct
<1> QED BY <1>1, InitDistinct, StepDistinct, PTL DEF Spec

-----------------------------------------------------------------------------
(***************************************************************************)
(* What the lists say of the tree.  Every step either adds one path to the *)
(* tree and at most that path to a list, takes one out of both, or moves a *)
(* subtree (Change below); the paths of a tree have their directories.     *)
(***************************************************************************)

(* A path is below what a path above it is below. *)
LEMMA PrefixTrans ==
  ASSUME NEW s \in Seq(Names), NEW t \in Seq(Names), NEW u \in Seq(Names),
         Above(s, t), Above(t, u)
  PROVE  Above(s, u)
<1>1. /\ Len(s) \in Nat /\ Len(t) \in Nat /\ Len(u) \in Nat
      /\ Len(s) < Len(t) /\ Len(t) < Len(u)
      /\ \A i \in 1..Len(s) : s[i] = t[i]
      /\ \A i \in 1..Len(t) : t[i] = u[i]
  BY LenProperties, Zenon DEF Above
<1>2. Len(s) < Len(u) /\ \A i \in 1..Len(s) : s[i] = u[i]
  BY <1>1
<1> QED BY <1>2, Zenon DEF Above

(* The directory a path lies in is the lowest above it. *)
LEMMA ParentAbove ==
  ASSUME NEW p \in Path, p # <<>>
  PROVE  /\ Parent(p) \in Path /\ Above(Parent(p), p)
         /\ \A q \in Path : Above(q, p) => q = Parent(p) \/ Above(q, Parent(p))
<1> DEFINE n == Len(p) - 1
           f == SubSeq(p, 1, n)
<1>1. p \in Seq(Names) /\ Len(p) \in Nat /\ Len(p) # 0 /\ Len(p) <= MaxDepth /\ MaxDepth \in Nat
  BY EmptySeq, LenProperties, HookFsAssumption, Zenon DEF Path
<1>2. f \in Seq(Names) /\ Len(f) = Len(p) - 1 /\ \A i \in 1..(Len(p) - 1) : f[i] = p[i]
  <2>1. n \in Nat /\ \A i \in 1..n : p[i] \in Names
    BY <1>1, ElementOfSeq
  <2>2. /\ f \in Seq(Names) /\ Len(f) = IF 1 <= n THEN n - 1 + 1 ELSE 0
        /\ \A i \in 1..(n - 1 + 1) : f[i] = p[1 + i - 1]
    BY <2>1, SubSeqProperties
  <2> HIDE DEF f, n
  <2>3. Len(f) = n
    BY <2>1, <2>2
  <2>4. ASSUME NEW i \in 1..n PROVE f[i] = p[i]
    <3>1. i \in 1..(n - 1 + 1) /\ 1 + i - 1 = i
      BY <2>1
    <3> QED BY <2>2, <3>1, Zenon
  <2> QED BY <2>2, <2>3, <2>4, Zenon DEF n
<1>3. Parent(p) = f
  BY Zenon DEF Parent
<1> HIDE DEF f, n
<1>4. f \in Path /\ Above(f, p)
  BY <1>1, <1>2 DEF Above, Path
<1>5. ASSUME NEW q \in Path, Above(q, p) PROVE q = f \/ Above(q, f)
  <2>1. q \in Seq(Names) /\ Len(q) \in Nat /\ Len(q) < Len(p) /\ \A i \in 1..Len(q) : q[i] = p[i]
    BY <1>1, <1>5, LenProperties, Zenon DEF Above, Path
  <2>2. \A i \in 1..Len(q) : q[i] = f[i]
    BY <1>1, <1>2, <2>1
  <2>3. CASE Len(q) = Len(f)
    BY <1>2, <2>1, <2>2, <2>3, SeqEqual, Zenon
  <2>4. CASE Len(q) # Len(f)
    BY <1>1, <1>2, <2>1, <2>2, <2>4 DEF Above
  <2> QED BY <2>3, <2>4, Zenon
<1> QED BY <1>3, <1>4, <1>5, Zenon

(* Path x with its prefix old replaced by new, element by element. *)
IsRerooted(r, x, old, new) ==
  /\ r \in Seq(Names) /\ x \in Seq(Names) /\ old \in Seq(Names) /\ new \in Seq(Names)
  /\ Len(old) <= Len(x) /\ Len(old) \in Nat /\ Len(new) \in Nat /\ Len(x) \in Nat
  /\ \A i \in 1..Len(old) : old[i] = x[i]
  /\ Len(r) = Len(new) + (Len(x) - Len(old))
  /\ \A i \in 1..Len(new) : r[i] = new[i]
  /\ \A i \in 1..(Len(x) - Len(old)) : r[Len(new) + i] = x[Len(old) + i]

(* That is what Reroot does to old and what lies below it. *)
LEMMA RerootParts ==
  ASSUME NEW x \in Path, NEW old \in Path, NEW new \in Path, x = old \/ Above(old, x)
  PROVE  IsRerooted(Reroot(x, old, new), x, old, new)
<1> DEFINE a == Len(old)  n == Len(x)  b == Len(new)
           rest == SubSeq(x, a + 1, n)
           r == new \o rest
<1>1. /\ x \in Seq(Names) /\ old \in Seq(Names) /\ new \in Seq(Names)
      /\ a \in Nat /\ n \in Nat /\ b \in Nat /\ a <= n /\ \A i \in 1..a : old[i] = x[i]
  BY LenProperties DEF Above, Path
<1>2. rest \in Seq(Names) /\ Len(rest) = n - a /\ \A i \in 1..(n - a) : rest[i] = x[a + i]
  <2>1. a + 1 \in Int /\ n \in Int /\ \A i \in (a + 1)..n : x[i] \in Names
    BY <1>1, ElementOfSeq
  <2> HIDE DEF a, n
  <2>2. /\ rest \in Seq(Names) /\ Len(rest) = IF a + 1 <= n THEN n - (a + 1) + 1 ELSE 0
        /\ \A i \in 1..(n - (a + 1) + 1) : rest[i] = x[a + 1 + i - 1]
    BY <2>1, SubSeqProperties
  <2> HIDE DEF rest
  <2>3. Len(rest) = n - a
    BY <1>1, <2>2
  <2>4. ASSUME NEW i \in 1..(n - a) PROVE rest[i] = x[a + i]
    <3>1. i \in 1..(n - (a + 1) + 1) /\ a + 1 + i - 1 = a + i
      BY <1>1
    <3> QED BY <2>2, <3>1, Zenon
  <2> QED BY <2>2, <2>3, <2>4, Zenon
<1> HIDE DEF rest
<1>3. /\ r \in Seq(Names) /\ Len(r) = b + Len(rest)
      /\ \A i \in 1..(b + Len(rest)) : r[i] = IF i <= b THEN new[i] ELSE rest[i - b]
  <2>1. rest \in Seq(Names) /\ new \in Seq(Names)
    BY <1>1, <1>2, Zenon
  <2> QED BY ONLY <2>1, ConcatProperties, Zenon DEF r, b
<1>4. Reroot(x, old, new) = r
  BY Zenon DEF Reroot, rest
<1> HIDE DEF r, a, n, b
<1>5. \A i \in 1..b : r[i] = new[i]
  BY <1>1, <1>2, <1>3
<1>6. ASSUME NEW i \in 1..(n - a) PROVE r[b + i] = x[a + i]
  <2>1. b + i \in 1..(b + Len(rest)) /\ ~(b + i <= b) /\ (b + i) - b = i
    BY <1>1, <1>2
  <2> QED BY <1>2, <1>3, <2>1, Zenon
<1> QED BY <1>1, <1>2, <1>3, <1>4, <1>5, <1>6, Zenon DEF a, n, b, IsRerooted

(* Moving the paths from old downwards to new: nothing collides, and what  *)
(* is above a moved path is above new, or was moved too.                   *)
LEMMA RerootMoves ==
  ASSUME NEW old \in Path, NEW new \in Path, NEW x \in Path, x = old \/ Above(old, x)
  PROVE  /\ Reroot(old, old, new) = new
         /\ Above(old, x) => Above(new, Reroot(x, old, new))
         /\ \A y \in Path : (y = old \/ Above(old, y)) /\ Reroot(x, old, new) = Reroot(y, old, new) => x = y
         /\ \A q \in Path : Above(q, Reroot(x, old, new)) =>
              \/ Above(q, new)
              \/ \E y \in Path : /\ y = old \/ Above(old, y)
                               /\ Above(y, x) /\ q = Reroot(y, old, new)
<1> DEFINE a == Len(old)  n == Len(x)  b == Len(new)
           r == Reroot(x, old, new)
<1>1. /\ r \in Seq(Names) /\ old \in Seq(Names) /\ new \in Seq(Names) /\ x \in Seq(Names)
      /\ a \in Nat /\ n \in Nat /\ b \in Nat /\ a <= n /\ \A i \in 1..a : old[i] = x[i]
      /\ Len(r) = b + (n - a)
      /\ \A i \in 1..b : r[i] = new[i]
      /\ \A i \in 1..(n - a) : r[b + i] = x[a + i]
  <2>1. IsRerooted(r, x, old, new)
    BY RerootParts, Zenon
  <2> HIDE DEF r
  <2> QED BY ONLY <2>1, Zenon DEF IsRerooted, a, n, b
<1>2. Reroot(old, old, new) = new
  <2>1. SubSeq(old, Len(old) + 1, Len(old)) = <<>>
    BY SubSeqEmpty, LenProperties DEF Path
  <2> QED BY <2>1, ConcatProperties, Zenon DEF Reroot, Path
<1>3. ASSUME Above(old, x) PROVE Above(new, r)
  <2>1. a < n
    BY <1>1, <1>3, Zenon DEF Above
  <2> HIDE DEF a, n, r
  <2>2. Len(new) < Len(r) /\ \A i \in 1..Len(new) : new[i] = r[i]
    BY <1>1, <2>1
  <2> QED BY <1>1, <2>2, Zenon DEF Above
<1>4. ASSUME NEW y \in Path, y = old \/ Above(old, y), r = Reroot(y, old, new)
      PROVE  x = y
  <2> DEFINE k == Len(y)
  <2>1. /\ y \in Seq(Names) /\ k \in Nat /\ a <= k /\ \A i \in 1..a : old[i] = y[i]
        /\ Len(r) = b + (k - a)
        /\ \A i \in 1..(k - a) : r[b + i] = y[a + i]
    <3>1. IsRerooted(r, y, old, new)
      BY <1>4, RerootParts, Zenon
    <3> QED BY ONLY <3>1, Zenon DEF IsRerooted, a, b, k
  <2> HIDE DEF a, b, r
  <2>2. k = n
    BY <1>1, <2>1
  <2>3. ASSUME NEW i \in 1..n PROVE x[i] = y[i]
    <3>1. CASE i <= a
      BY <1>1, <2>1, <3>1
    <3>2. CASE ~(i <= a)
      <4>1. i - a \in 1..(n - a) /\ a + (i - a) = i
        BY <1>1, <3>2
      <4>2. x[a + (i - a)] = r[b + (i - a)]
        BY <1>1, <4>1, Zenon
      <4>3. i - a \in 1..(k - a)
        BY <2>2, <4>1, Zenon
      <4>4. y[a + (i - a)] = r[b + (i - a)]
        BY <2>1, <4>3, Zenon
      <4> QED BY <4>1, <4>2, <4>4, Zenon
    <3> QED BY <3>1, <3>2, Zenon
  <2> QED BY <1>1, <2>1, <2>2, <2>3, SeqEqual, Zenon
<1>5. ASSUME NEW q \in Path, Above(q, r), ~Above(q, new)
      PROVE  \E y \in Path : (y = old \/ Above(old, y)) /\ Above(y, x) /\ q = Reroot(y, old, new)
  <2> DEFINE c == Len(q)
             k == a + (c - b)
             y == SubSeq(x, 1, k)
  <2>1. q \in Seq(Names) /\ c \in Nat /\ c < Len(r) /\ \A i \in 1..c : q[i] = r[i]
    BY <1>1, <1>5, LenProperties, Zenon DEF Above, Path
  <2>2. b <= c
    <3> SUFFICES ASSUME c < b PROVE FALSE
      BY <1>1, <2>1
    <3> HIDE DEF a, n, r
    <3>1. Len(q) < Len(new) /\ \A i \in 1..Len(q) : q[i] = new[i]
      BY <1>1, <2>1
    <3> QED BY <3>1, <2>1, <1>1, <1>5, Zenon DEF Above
  <2> HIDE DEF a, b, c, n, r
  <2>3. k \in Nat /\ a <= k /\ k < n /\ k - a = c - b
    BY <1>1, <2>1, <2>2
  <2>4. y \in Seq(Names) /\ Len(y) = k /\ \A i \in 1..k : y[i] = x[i]
    <3>1. \A i \in 1..k : x[i] \in Names
      BY <1>1, <2>3, ElementOfSeq DEF n
    <3> HIDE DEF k
    <3>2. /\ y \in Seq(Names) /\ Len(y) = IF 1 <= k THEN k - 1 + 1 ELSE 0
          /\ \A i \in 1..(k - 1 + 1) : y[i] = x[1 + i - 1]
      BY <2>3, <3>1, SubSeqProperties
    <3> HIDE DEF y
    <3>3. Len(y) = k
      BY <2>3, <3>2
    <3>4. ASSUME NEW i \in 1..k PROVE y[i] = x[i]
      <4>1. i \in 1..(k - 1 + 1) /\ 1 + i - 1 = i
        BY <2>3
      <4> QED BY <3>2, <4>1, Zenon
    <3> QED BY <3>2, <3>3, <3>4, Zenon
  <2> HIDE DEF k, y
  <2>5. Above(y, x) /\ y \in Path
    <3>1. Len(y) < Len(x) /\ \A i \in 1..Len(y) : y[i] = x[i]
      BY <2>3, <2>4, Zenon DEF n
    <3>2. Above(y, x)
      BY <1>1, <2>4, <3>1, Zenon DEF Above
    <3>3. Len(x) <= MaxDepth /\ Len(x) \in Nat /\ MaxDepth \in Nat /\ Len(y) \in Nat
      BY <1>1, <2>3, <2>4, HookFsAssumption, Zenon DEF Path, n
    <3> QED BY <2>4, <3>1, <3>2, <3>3 DEF Path
  <2>6. y = old \/ Above(old, y)
    <3>1. Len(old) <= Len(y) /\ \A i \in 1..Len(old) : old[i] = y[i]
      <4>1. a <= Len(y) /\ \A i \in 1..a : old[i] = y[i]
        BY <1>1, <2>3, <2>4
      <4> QED BY <4>1, Zenon DEF a
    <3>2. CASE Len(old) = Len(y)
      BY <1>1, <2>4, <3>1, <3>2, SeqEqual, Zenon
    <3>3. CASE Len(old) # Len(y)
      <4>1. Len(old) < Len(y)
        BY <3>1, <3>3, <1>1, <2>3, <2>4 DEF a
      <4> QED BY <1>1, <2>4, <3>1, <4>1, Zenon DEF Above
    <3> QED BY <3>2, <3>3, Zenon
  <2> DEFINE s == Reroot(y, old, new)
  <2>7. /\ s \in Seq(Names) /\ Len(s) = b + (k - a)
        /\ \A i \in 1..b : s[i] = new[i]
        /\ \A i \in 1..(k - a) : s[b + i] = y[a + i]
    <3>1. IsRerooted(s, y, old, new)
      BY <2>5, <2>6, RerootParts, Zenon
    <3> HIDE DEF s
    <3>2. Len(y) = k /\ Len(new) = b /\ Len(old) = a
      BY <2>4, Zenon DEF a, b
    <3> QED BY ONLY <3>1, <3>2, Zenon DEF IsRerooted
  <2> HIDE DEF s
  <2>8. Len(s) = c
    BY ONLY <1>1, <2>1, <2>3, <2>7
  <2>9. ASSUME NEW i \in 1..c PROVE q[i] = s[i]
    <3>1. CASE i <= b
      BY <1>1, <2>1, <2>7, <3>1
    <3>2. CASE ~(i <= b)
      <4>1. /\ i - b \in 1..(n - a) /\ i - b \in 1..(k - a) /\ b + (i - b) = i
            /\ a + (i - b) \in 1..k
        BY <1>1, <2>1, <2>3, <3>2
      <4>2. q[i] = r[b + (i - b)] /\ s[i] = s[b + (i - b)]
        BY <2>1, <4>1, Zenon
      <4>3. r[b + (i - b)] = x[a + (i - b)] /\ s[b + (i - b)] = y[a + (i - b)]
        BY <1>1, <2>7, <4>1, Zenon
      <4>4. y[a + (i - b)] = x[a + (i - b)]
        BY <2>4, <4>1, Zenon
      <4> QED BY <4>2, <4>3, <4>4, Zenon
    <3> QED BY <3>1, <3>2, Zenon
  <2>10. q = s
    BY <2>1, <2>7, <2>8, <2>9, SeqEqual, Zenon DEF c
  <2> QED BY <2>5, <2>6, <2>10, Zenon DEF s
<1> QED BY <1>2, <1>3, <1>4, <1>5, Zenon

-----------------------------------------------------------------------------
(* The backing tree is one: what lies above an existing path is a directory. *)
Tree == \A p \in DOMAIN fs, q \in Path : Above(q, p) => q \in DOMAIN fs /\ fs[q] \in DirInos \cup {Root}

(* A name created in a directory. *)
LEMMA LinkedTree ==
  ASSUME TypeOK, Tree, NEW path \in Path, path # <<>>, Creatable(path), NEW i, fs' = Linked(path, i)
  PROVE  Tree'
<1> SUFFICES ASSUME NEW p \in DOMAIN fs', NEW q \in Path, Above(q, p)
             PROVE  q \in DOMAIN fs' /\ fs'[q] \in DirInos \cup {Root}
  BY Zenon DEF Tree
<1>1. /\ DOMAIN fs' = DOMAIN fs \cup {path} /\ path \notin DOMAIN fs
      /\ \A x \in DOMAIN fs : fs'[x] = fs[x]
  BY Zenon DEF Linked, Creatable
<1>2. q \in DOMAIN fs /\ fs[q] \in DirInos \cup {Root}
  <2>1. CASE p \in DOMAIN fs
    BY <2>1, Zenon DEF Tree
  <2>2. CASE p = path
    BY <2>2, ParentAbove, Zenon DEF Creatable, IsDir, Tree
  <2> QED BY <1>1, <2>1, <2>2, Zenon
<1> QED BY <1>1, <1>2, Zenon

(* Nothing lies below a file. *)
LEMMA NothingBelow ==
  ASSUME TypeOK, Tree, NEW path, IsFile(path)
  PROVE  Below(path) = {}
BY HookFsAssumption, Zenon DEF Below, IsFile, Tree, TypeOK

(* A name removed that has nothing below it. *)
LEMMA UnlinkedTree ==
  ASSUME TypeOK, Tree, NEW path, Below(path) = {}, fs' = Unlinked(path)
  PROVE  Tree'
<1> SUFFICES ASSUME NEW p \in DOMAIN fs', NEW q \in Path, Above(q, p)
             PROVE  q \in DOMAIN fs' /\ fs'[q] \in DirInos \cup {Root}
  BY Zenon DEF Tree
<1>1. DOMAIN fs' = DOMAIN fs \ {path} /\ \A x \in DOMAIN fs' : fs'[x] = fs[x]
  BY Zenon DEF Unlinked
<1>2. q \in DOMAIN fs /\ fs[q] \in DirInos \cup {Root}
  BY <1>1, Zenon DEF Tree
<1>3. q # path
  BY <1>1, Zenon DEF Below
<1> QED BY <1>1, <1>2, <1>3, Zenon

Moving(old) == Below(old) \cup {old}

Staying(old, new) == DOMAIN fs \ (Moving(old) \cup {new})

(* rename(2) in a tree, path by path: the paths from old downwards lead    *)
(* from new to where they did, the others stay and none of them is in the  *)
(* way.                                                                    *)
LEMMA RenamedAt ==
  ASSUME TypeOK, Tree, NEW old \in Path, NEW new \in Path, new # <<>>, CanRename(old, new),
         ~(new \in DOMAIN fs /\ fs[new] = fs[old])
  PROVE  /\ DOMAIN Renamed(old, new) = Staying(old, new) \cup {Reroot(q, old, new) : q \in Moving(old)}
         /\ \A p \in Staying(old, new) : Renamed(old, new)[p] = fs[p]
         /\ \A q \in Moving(old) : /\ Renamed(old, new)[Reroot(q, old, new)] = fs[q]
                                  /\ Reroot(q, old, new) \notin Staying(old, new)
         /\ ~\E p \in DOMAIN fs : Above(new, p)
<1> DEFINE R == Renamed(old, new)
<1>1. R = [p \in Staying(old, new) \cup {Reroot(q, old, new) : q \in Moving(old)} |->
             IF p \in Staying(old, new) THEN fs[p]
             ELSE fs[CHOOSE q \in Moving(old) : Reroot(q, old, new) = p]]
  BY Zenon DEF Renamed, Staying, Moving
<1>2. \A q \in Moving(old) : q \in DOMAIN fs /\ q \in Path /\ (q = old \/ Above(old, q))
  BY Zenon DEF Moving, Below, TypeOK, CanRename
<1>3. ~\E p \in DOMAIN fs : Above(new, p)
  <2> SUFFICES ASSUME NEW p \in DOMAIN fs, Above(new, p) PROVE FALSE
    BY Zenon
  <2>1. new \in DOMAIN fs /\ fs[new] \in DirInos \cup {Root}
    BY Zenon DEF Tree
  <2>2. ~IsFile(new) /\ Below(new) # {}
    BY <2>1, HookFsAssumption, Zenon DEF IsFile, Below
  <2> QED BY <2>1, <2>2, Zenon DEF CanRename
<1>4. ASSUME NEW q \in Moving(old)
      PROVE  R[Reroot(q, old, new)] = fs[q] /\ Reroot(q, old, new) \notin Staying(old, new)
  <2>1. Reroot(q, old, new) \notin Staying(old, new)
    <3>1. Reroot(q, old, new) = new \/ Above(new, Reroot(q, old, new))
      BY <1>2, RerootMoves
    <3> QED BY <1>3, <3>1, Zenon DEF Staying
  <2> DEFINE c == CHOOSE x \in Moving(old) : Reroot(x, old, new) = Reroot(q, old, new)
  <2>2. c \in Moving(old) /\ Reroot(c, old, new) = Reroot(q, old, new)
    BY Zenon
  <2> HIDE DEF c
  <2>3. c = q
    BY <1>2, <2>2, RerootMoves, Zenon
  <2>4. R[Reroot(q, old, new)] = fs[c]
    BY <1>1, <2>1 DEF c
  <2> QED BY <2>1, <2>3, <2>4, Zenon
<1>5. DOMAIN R = Staying(old, new) \cup {Reroot(q, old, new) : q \in Moving(old)}
  BY <1>1, Zenon
<1>6. \A p \in Staying(old, new) : R[p] = fs[p]
  BY <1>1, Zenon
<1> QED BY <1>3, <1>4, <1>5, <1>6, Zenon

(* rename keeps a tree one. *)
LEMMA RenamedTree ==
  ASSUME TypeOK, Tree, NEW old \in Path, NEW new \in Path, new # <<>>, CanRename(old, new),
         fs' = Renamed(old, new)
  PROVE  Tree'
<1>1. CASE new \in DOMAIN fs /\ fs[new] = fs[old]
  <2>1. fs' = fs
    BY <1>1, Zenon DEF Renamed
  <2> QED BY <2>1, Zenon DEF Tree
<1>2. CASE ~(new \in DOMAIN fs /\ fs[new] = fs[old])
  <2> DEFINE dirs == DirInos \cup {Root}
             S == Staying(old, new)
             M == Moving(old)
  <2>1. /\ DOMAIN fs' = S \cup {Reroot(q, old, new) : q \in M}
        /\ \A p \in S : fs'[p] = fs[p]
        /\ \A q \in M : fs'[Reroot(q, old, new)] = fs[q]
        /\ ~\E p \in DOMAIN fs : Above(new, p)
    BY <1>2, RenamedAt, Zenon
  <2>2. /\ \A q \in M : q \in DOMAIN fs /\ q \in Path /\ (q = old \/ Above(old, q))
        /\ \A q \in DOMAIN fs : q \in Path /\ (Above(old, q) => q \in M)
        /\ old \in M /\ old # new
        /\ Path \subseteq Seq(Names)
    BY <1>2, Zenon DEF Moving, Below, TypeOK, CanRename, Path
  <2>3. \A p \in DOMAIN fs : p \in S <=> p \notin M /\ p # new
    BY Zenon DEF Staying
  <2> HIDE DEF S, M, dirs
  <2>4. ASSUME NEW q \in Path, Above(q, new)
        PROVE  q \in S /\ fs[q] \in dirs
    <3>1. q \in DOMAIN fs /\ fs[q] \in dirs
      BY <2>4, ParentAbove, Zenon DEF CanRename, IsDir, Tree, dirs
    <3>2. q # new
      BY <2>4, LenProperties DEF Above, Path
    <3>3. q \notin M
      BY <2>2, <2>4, PrefixTrans, Zenon DEF CanRename
    <3> QED BY <2>3, <3>1, <3>2, <3>3, Zenon
  <2>5. ASSUME NEW p \in S, NEW q \in Path, Above(q, p)
        PROVE  q \in S /\ fs[q] \in dirs
    <3>1. p \in DOMAIN fs /\ p \in Seq(Names)
      BY <2>2, Zenon DEF S, Staying
    <3>2. q \in DOMAIN fs /\ fs[q] \in dirs
      BY <2>5, <3>1, Zenon DEF Tree, dirs
    <3>3. q # new
      BY <2>1, <2>5, <3>1, Zenon
    <3>4. q \notin M
      BY <2>2, <2>3, <2>5, <3>1, PrefixTrans, Zenon
    <3> QED BY <2>3, <3>2, <3>3, <3>4, Zenon
  <2>6. ASSUME NEW x \in M, NEW q \in Path, Above(q, Reroot(x, old, new))
        PROVE  q \in DOMAIN fs' /\ fs'[q] \in dirs
    <3>1. CASE Above(q, new)
      BY <2>1, <2>4, <3>1, Zenon
    <3>2. ASSUME NEW y \in Path, y = old \/ Above(old, y), Above(y, x), q = Reroot(y, old, new)
          PROVE  q \in DOMAIN fs' /\ fs'[q] \in dirs
      <4>1. y \in DOMAIN fs /\ fs[y] \in dirs
        BY <2>2, <3>2, Zenon DEF Tree, dirs
      <4>2. y \in M
        BY <2>2, <3>2, <4>1, Zenon
      <4> QED BY <2>1, <3>2, <4>1, <4>2, Zenon
    <3>3. x \in Path /\ (x = old \/ Above(old, x))
      BY <2>2, Zenon
    <3> QED BY <2>6, <3>1, <3>2, <3>3, RerootMoves
  <2> SUFFICES ASSUME NEW p \in DOMAIN fs', NEW q \in Path, Above(q, p)
               PROVE  q \in DOMAIN fs' /\ fs'[q] \in dirs
    BY Zenon DEF Tree, dirs
  <2> QED BY <2>1, <2>5, <2>6
<1> QED BY <1>1, <1>2, Zenon

-----------------------------------------------------------------------------
(* The paths listed under an inode, as a set. *)
Listed(m, i) == IF i \in DOMAIN m THEN {m[i].paths[k] : k \in DOMAIN m[i].paths} ELSE {}

(* A list without its k-th element. *)
Without(paths, k) == SubSeq(paths, 1, k - 1) \o SubSeq(paths, k + 1, Len(paths))

Members(s) == {s[k] : k \in DOMAIN s}

(* It closes the gap and keeps the order. *)
LEMMA WithoutParts ==
  ASSUME NEW paths \in Seq(Path), NEW k \in 1..Len(paths)
  PROVE  /\ DOMAIN Without(paths, k) = 1..(Len(paths) - 1)
         /\ \A i \in 1..(Len(paths) - 1) : Without(paths, k)[i] = IF i < k THEN paths[i] ELSE paths[i + 1]
<1> DEFINE n == Len(paths)
           front == SubSeq(paths, 1, k - 1)
           rest == SubSeq(paths, k + 1, n)
<1>1. k \in 1..n /\ n \in Nat /\ DOMAIN paths = 1..n
  BY LenProperties, Zenon
<1>2. Without(paths, k) = front \o rest
  BY Zenon DEF Without
<1> HIDE DEF n
<1>3. \A i \in 1..n : paths[i] \in Path
  BY ElementOfSeq, Zenon DEF n
<1>4. front \in Seq(Path) /\ Len(front) = k - 1 /\ \A i \in 1..(k - 1) : front[i] = paths[i]
  <2>1. k - 1 \in Int /\ \A i \in 1..(k - 1) : paths[i] \in Path
    BY <1>1, <1>3
  <2>2. /\ front \in Seq(Path) /\ Len(front) = IF 1 <= k - 1 THEN k - 1 - 1 + 1 ELSE 0
        /\ \A i \in 1..(k - 1 - 1 + 1) : front[i] = paths[1 + i - 1]
    BY <2>1, SubSeqProperties
  <2> HIDE DEF front
  <2> QED BY <1>1, <2>2
<1>5. rest \in Seq(Path) /\ Len(rest) = n - k /\ \A i \in 1..(n - k) : rest[i] = paths[k + i]
  <2>1. k + 1 \in Int /\ n \in Int /\ \A i \in (k + 1)..n : paths[i] \in Path
    BY <1>1, <1>3
  <2>2. /\ rest \in Seq(Path) /\ Len(rest) = IF k + 1 <= n THEN n - (k + 1) + 1 ELSE 0
        /\ \A i \in 1..(n - (k + 1) + 1) : rest[i] = paths[k + 1 + i - 1]
    BY <2>1, SubSeqProperties
  <2> HIDE DEF rest
  <2> QED BY <1>1, <2>2
<1> HIDE DEF front, rest
<1>6. /\ front \o rest \in Seq(Path) /\ Len(front \o rest) = Len(front) + Len(rest)
      /\ \A i \in 1..(Len(front) + Len(rest)) :
           (front \o rest)[i] = IF i <= Len(front) THEN front[i] ELSE rest[i - Len(front)]
  BY <1>4, <1>5, ConcatProperties, Zenon
<1> DEFINE r == front \o rest
<1>7. DOMAIN r = 1..(n - 1)
  BY <1>1, <1>4, <1>5, <1>6, LenProperties
<1>8. \A i \in 1..(n - 1) : r[i] = IF i < k THEN paths[i] ELSE paths[i + 1]
  <2> SUFFICES ASSUME NEW i \in 1..(n - 1) PROVE r[i] = IF i < k THEN paths[i] ELSE paths[i + 1]
    BY Zenon
  <2>1. CASE i < k
    <3>1. i \in 1..(Len(front) + Len(rest)) /\ i <= Len(front) /\ i \in 1..(k - 1)
      BY <2>1, <1>1, <1>4, <1>5
    <3> QED BY <2>1, <3>1, <1>4, <1>6, Zenon
  <2>2. CASE ~(i < k)
    <3>1. /\ i \in 1..(Len(front) + Len(rest)) /\ ~(i <= Len(front)) /\ i - Len(front) \in 1..(n - k)
          /\ k + (i - Len(front)) = i + 1
      BY <2>2, <1>1, <1>4, <1>5
    <3> QED BY <2>2, <3>1, <1>5, <1>6, Zenon
  <2> QED BY <2>1, <2>2, Zenon
<1> HIDE DEF r
<1> QED BY <1>2, <1>7, <1>8, Zenon DEF r, n
(* Node::insert and Node::remove, on lists without repetitions. *)
LEMMA NodeListed ==
  ASSUME NEW paths \in Seq(Path), NEW p \in Path, NoRepeat(paths)
  PROVE  /\ Members(NodeInsert(paths, p)) = Members(paths) \cup {p}
         /\ Members(NodeRemove(paths, p)) = Members(paths) \ {p}
<1> DEFINE n == Len(paths)
<1>1. n \in Nat /\ DOMAIN paths = 1..n
  BY LenProperties, Zenon
<1>2. CASE Lists(paths, p)
  <2>1. Members(NodeInsert(paths, p)) = Members(paths) \cup {p}
    BY <1>1, <1>2, Zenon DEF NodeInsert, Members, Lists
  <2> DEFINE k == CHOOSE i \in DOMAIN paths : paths[i] = p
             r == NodeRemove(paths, p)
  <2>2. k \in 1..n /\ paths[k] = p
    BY <1>2 DEF Lists
  <2>3. DOMAIN r = 1..(n - 1) /\ \A i \in 1..(n - 1) : r[i] = IF i < k THEN paths[i] ELSE paths[i + 1]
    <3>1. r = Without(paths, k)
      BY <1>2, Zenon DEF NodeRemove, Without
    <3> HIDE DEF r, k, n
    <3> QED BY <2>2, <3>1, WithoutParts, Zenon DEF n
  <2> HIDE DEF r, k, n
  <2>4. Members(r) = Members(paths) \ {p}
    <3>1. ASSUME NEW i \in 1..(n - 1) PROVE r[i] \in Members(paths) \ {p}
      <4>1. CASE i < k
        BY <1>1, <2>2, <2>3, <4>1 DEF Members, NoRepeat
      <4>2. CASE ~(i < k)
        <5>1. i + 1 \in 1..n /\ i + 1 # k
          BY <1>1, <2>2, <4>2
        <5> QED BY <1>1, <2>2, <2>3, <4>2, <5>1, Zenon DEF Members, NoRepeat
      <4> QED BY <4>1, <4>2, Zenon
    <3>2. ASSUME NEW i \in 1..n, paths[i] # p PROVE paths[i] \in Members(r)
      <4>1. CASE i < k
        <5>1. i \in 1..(n - 1)
          BY <1>1, <2>2, <4>1
        <5> QED BY <2>3, <4>1, <5>1, Zenon DEF Members
      <4>2. CASE ~(i < k)
        <5>1. i - 1 \in 1..(n - 1) /\ ~(i - 1 < k) /\ (i - 1) + 1 = i
          BY <1>1, <2>2, <3>2, <4>2
        <5>2. r[i - 1] = paths[i]
          BY <2>3, <5>1, Zenon
        <5> QED BY <2>3, <5>1, <5>2, Zenon DEF Members
      <4> QED BY <4>1, <4>2, Zenon
    <3> QED BY <1>1, <2>3, <3>1, <3>2, Zenon DEF Members
  <2> QED BY <2>1, <2>4, Zenon DEF r
<1>3. CASE ~Lists(paths, p)
  <2>1. \A i \in 1..n : paths[i] # p
    BY <1>3 DEF Lists
  <2>2. /\ NodeInsert(paths, p) = Append(paths, p)
        /\ DOMAIN Append(paths, p) = 1..(n + 1) /\ Append(paths, p)[n + 1] = p
        /\ \A i \in 1..n : Append(paths, p)[i] = paths[i]
    BY <1>3 DEF NodeInsert
  <2>3. \A i \in 1..(n + 1) : i \in 1..n \/ i = n + 1
    BY <1>1
  <2>4. 1..n \subseteq 1..(n + 1) /\ n + 1 \in 1..(n + 1)
    BY <1>1
  <2> HIDE DEF n
  <2>5. Members(NodeInsert(paths, p)) = Members(paths) \cup {p}
    BY <1>1, <2>2, <2>3, <2>4, Zenon DEF Members
  <2>6. Members(NodeRemove(paths, p)) = Members(paths) \ {p}
    BY <1>1, <1>3, <2>1, Zenon DEF NodeRemove, Members
  <2> QED BY <2>5, <2>6, Zenon
<1> QED BY <1>2, <1>3, Zenon

(* InodeMap::insert_path, as an operation on sets of paths. *)
LEMMA InsertPathListed ==
  ASSUME NEW m, IsTable(m), DistinctTable(m), NEW i \in Ino, NEW p \in Path
  PROVE  \A j : Listed(InsertPath(m, i, p), j) = Listed(m, j) \cup (IF j = i THEN {p} ELSE {})
<1> SUFFICES ASSUME NEW j
             PROVE  Listed(InsertPath(m, i, p), j) = Listed(m, j) \cup (IF j = i THEN {p} ELSE {})
  BY Zenon
<1>1. Entry(m, i) \in Node /\ NoRepeat(Entry(m, i).paths) /\ Members(Entry(m, i).paths) = Listed(m, i)
  BY DEF Entry, EmptyNode, Node, IsTable, DistinctTable, NoRepeat, Listed, Members
<1>2. [Entry(m, i) EXCEPT !.paths = NodeInsert(@, p)].paths = NodeInsert(Entry(m, i).paths, p)
  BY <1>1, Zenon DEF Node
<1>3. Members(NodeInsert(Entry(m, i).paths, p)) = Listed(m, i) \cup {p}
  BY <1>1, NodeListed, Zenon DEF Node
<1>4. CASE j = i
  <2> DEFINE t == InsertPath(m, i, p)
  <2>1. i \in DOMAIN t /\ t[i] = [Entry(m, i) EXCEPT !.paths = NodeInsert(@, p)]
    BY Zenon DEF InsertPath
  <2>2. Listed(t, i) = Members(t[i].paths)
    BY <2>1, Zenon DEF Listed, Members
  <2> HIDE DEF t
  <2>3. Listed(t, i) = Listed(m, i) \cup {p}
    BY <1>2, <1>3, <2>1, <2>2, Zenon
  <2> QED BY <1>4, <2>3, Zenon DEF t
<1>5. CASE j # i
  BY <1>5, Zenon DEF InsertPath, Listed
<1> QED BY <1>4, <1>5, Zenon

(* InodeMap::remove_path, likewise. *)
LEMMA RemovePathListed ==
  ASSUME NEW m, IsTable(m), DistinctTable(m), NEW i \in Ino, NEW p \in Path
  PROVE  \A j : Listed(RemovePath(m, i, p), j) = Listed(m, j) \ (IF j = i THEN {p} ELSE {})
<1> SUFFICES ASSUME NEW j
             PROVE  Listed(RemovePath(m, i, p), j) = Listed(m, j) \ (IF j = i THEN {p} ELSE {})
  BY Zenon
<1>1. CASE i \in DOMAIN m /\ j = i
  <2>1. m[i] \in Node /\ NoRepeat(m[i].paths) /\ Members(m[i].paths) = Listed(m, i)
    BY <1>1, Zenon DEF Node, IsTable, DistinctTable, Listed, Members
  <2>2. [m[i] EXCEPT !.paths = NodeRemove(@, p)].paths = NodeRemove(m[i].paths, p)
    BY <2>1, Zenon DEF Node
  <2>3. Members(NodeRemove(m[i].paths, p)) = Listed(m, i) \ {p}
    BY <2>1, NodeListed, Zenon DEF Node
  <2> DEFINE t == RemovePath(m, i, p)
  <2>4. i \in DOMAIN t /\ t[i] = [m[i] EXCEPT !.paths = NodeRemove(@, p)]
    BY <1>1, Zenon DEF RemovePath
  <2>5. Listed(t, i) = Members(t[i].paths)
    BY <2>4, Zenon DEF Listed, Members
  <2> HIDE DEF t
  <2>6. Listed(t, i) = Listed(m, i) \ {p}
    BY <2>2, <2>3, <2>4, <2>5, Zenon
  <2> QED BY <1>1, <2>6, Zenon DEF t
<1>2. CASE ~(i \in DOMAIN m /\ j = i)
  BY <1>2, Zenon DEF RemovePath, Listed
<1> QED BY <1>1, <1>2, Zenon

(* Counting lookups lists nothing. *)
LEMMA CountingListed ==
  ASSUME NEW m, IsTable(m), NEW i, NEW n, NEW j
  PROVE  /\ Listed(IncreaseRef(m, i), j) = Listed(m, j)
         /\ Listed(DecreaseRef(m, i, n), j) \subseteq Listed(m, j)
<1>1. \A x \in DOMAIN m : [m[x] EXCEPT !.ref_count = @ + 1].paths = m[x].paths
  BY Zenon DEF IsTable, Node
<1>2. Listed(IncreaseRef(m, i), j) = Listed(m, j)
  BY <1>1 DEF IncreaseRef, Listed
<1>3. Listed(DecreaseRef(m, i, n), j) \subseteq Listed(m, j)
  BY Zenon DEF DecreaseRef, Listed
<1> QED BY <1>2, <1>3, Zenon

-----------------------------------------------------------------------------
TInv == DInv /\ Tree

(* Names are only added to the tree. *)
Grown == DOMAIN fs \subseteq DOMAIN fs' /\ \A p \in DOMAIN fs : fs'[p] = fs[p]

(* What a step does to tree and table: a path is listed under the inode it *)
(* leads to, none is, a name goes from both, or a rename.                  *)
Gains(p, i) ==
  /\ Grown /\ p \in DOMAIN fs' /\ fs'[p] = i
  /\ \A j : Listed(inode_map', j) = Listed(inode_map, j) \cup (IF j = i THEN {p} ELSE {})

GainsNothing == Grown /\ \A j : Listed(inode_map', j) \subseteq Listed(inode_map, j)

Loses(p) ==
  /\ p \in DOMAIN fs /\ fs' = Unlinked(p)
  /\ \A j : Listed(inode_map', j) = Listed(inode_map, j) \ (IF j = fs[p] THEN {p} ELSE {})

Moves(old, new) == new # <<>> /\ RenamePaths(old, new)

Change ==
  \/ \E p \in Path, i \in Ino : Gains(p, i)
  \/ GainsNothing
  \/ \E p \in Path : Loses(p)
  \/ \E old, new \in Path : Moves(old, new)

(* The common end of the handlers that reply with an entry. *)
LEMMA ReplyEntryChange ==
  ASSUME DInv, OverrideInos = {}, NEW path \in Path, NEW i \in Ino, ReplyEntry(path, i),
         Grown, path \in DOMAIN fs', fs'[path] = i
  PROVE  Gains(path, i)
<1>1. inode_map' = IncreaseRef(InsertPath(inode_map, i, path), i)
  BY Zenon DEF ReplyEntry, StatIno
<1>2. IsTable(inode_map) /\ DistinctTable(inode_map)
  BY TypeParts, Zenon DEF DInv, TableType
<1> DEFINE m == InsertPath(inode_map, i, path)
<1>3. IsTable(m)
  BY <1>2, InsertPathTable, Zenon
<1>4. \A j : Listed(m, j) = Listed(inode_map, j) \cup (IF j = i THEN {path} ELSE {})
  BY <1>2, InsertPathListed
<1> HIDE DEF m
<1>5. \A j : Listed(IncreaseRef(m, i), j) = Listed(m, j)
  BY <1>3, CountingListed, Zenon
<1> QED BY <1>1, <1>4, <1>5, Zenon DEF Gains, m

(* lchown or stat has failed. *)
LEMMA NoEntryChange ==
  ASSUME NoEntry, Grown
  PROVE  GainsNothing
BY Zenon DEF NoEntry, GainsNothing

(* What a handler joins is never the mount point. *)
LEMMA JoinNotRoot ==
  ASSUME TypeOK, NEW parent \in Ino, NEW name \in Names, CanJoin(parent)
  PROVE  Join(parent, name) # <<>>
<1>1. GetPath(inode_map, parent) \in Seq(Names)
  BY GetPathType, Zenon DEF CanJoin, Path
<1> QED BY <1>1, AppendProperties DEF Join

(* A new name in the tree. *)
LEMMA LinkedGrows ==
  ASSUME NEW path, path \notin DOMAIN fs, NEW i, fs' = Linked(path, i)
  PROVE  Grown /\ path \in DOMAIN fs' /\ fs'[path] = i
BY Zenon DEF Linked, Grown

(* mknod, mkdir, symlink and create. *)
LEMMA MakeNodeChange ==
  ASSUME TInv, OverrideInos = {}, NEW parent \in Ino, NEW name \in Names, NEW inos \in SUBSET Ino,
         MakeNode(parent, name, inos)
  PROVE  Change /\ Tree'
<1> DEFINE path == Join(parent, name)
<1>1. path \in Path /\ path # <<>> /\ Creatable(path)
  BY JoinType, JoinNotRoot, Zenon DEF MakeNode, TInv, DInv
<1>2. PICK i \in inos : fs' = Linked(path, i) /\ (ReplyEntry(path, i) \/ NoEntry)
  BY Zenon DEF MakeNode
<1> HIDE DEF path
<1>3. i \in Ino /\ Grown /\ path \in DOMAIN fs' /\ fs'[path] = i
  BY <1>1, <1>2, LinkedGrows, Zenon DEF Creatable
<1>4. Gains(path, i) \/ GainsNothing
  BY <1>1, <1>2, <1>3, ReplyEntryChange, NoEntryChange, Zenon DEF TInv
<1>5. Tree'
  BY <1>1, <1>2, LinkedTree, Zenon DEF TInv, DInv
<1> QED BY <1>1, <1>3, <1>4, <1>5, Zenon DEF Change

(* unlink and rmdir. *)
LEMMA RemoveNameChange ==
  ASSUME TInv, OverrideInos = {}, NEW path \in Path, path \in DOMAIN fs, Below(path) = {}, RemoveName(path)
  PROVE  Change /\ Tree'
<1>1. inode_map' = RemovePath(inode_map, fs[path], path) /\ fs' = Unlinked(path) /\ fs[path] \in Ino
  BY Zenon DEF RemoveName, StatIno, TInv, DInv, TypeOK
<1>2. IsTable(inode_map) /\ DistinctTable(inode_map)
  BY TypeParts, Zenon DEF TInv, DInv, TableType
<1>3. Loses(path)
  BY <1>1, <1>2, RemovePathListed DEF Loses
<1>4. Tree'
  BY <1>1, UnlinkedTree, Zenon DEF TInv, DInv
<1> QED BY <1>3, <1>4, Zenon DEF Change

(* Handlers addressed by parent and name. *)
LEMMA ByNameChange ==
  ASSUME TInv, OverrideInos = {}, ByName
  PROVE  Change /\ Tree'
<1>1. PICK parent \in Ino, name \in Names :
        \/ Lookup(parent, name) \/ Mknod(parent, name) \/ Mkdir(parent, name) \/ Symlink(parent, name)
        \/ Create(parent, name) \/ Unlink(parent, name) \/ Rmdir(parent, name)
        \/ \E newparent \in Ino, newname \in Names : Rename(parent, name, newparent, newname)
        \/ \E i \in FileInos : Link(i, parent, name)
  BY Zenon DEF ByName
<1> DEFINE path == Join(parent, name)
<1>2. DInv /\ TypeOK /\ Tree
  BY Zenon DEF TInv, DInv
<1>3. ASSUME CanJoin(parent) PROVE path \in Path /\ path # <<>>
  BY <1>2, <1>3, JoinType, JoinNotRoot, Zenon
<1>4. CASE Lookup(parent, name) \/ (CanJoin(parent) /\ IsFile(path) /\ (ReplyEntry(path, fs[path]) \/ NoEntry) /\ UNCHANGED fs)
  <2>1. /\ path \in Path /\ path \in DOMAIN fs /\ fs[path] \in Ino /\ fs' = fs
        /\ ReplyEntry(path, fs[path]) \/ NoEntry
    BY <1>2, <1>3, <1>4, Zenon DEF Lookup, TypeOK, IsFile
  <2> HIDE DEF path
  <2>2. Grown /\ path \in DOMAIN fs' /\ fs'[path] = fs[path]
    BY <2>1, Zenon DEF Grown
  <2>3. Gains(path, fs[path]) \/ GainsNothing
    BY <1>2, <2>1, <2>2, ReplyEntryChange, NoEntryChange, Zenon
  <2>4. Tree'
    BY <1>2, <2>1, Zenon DEF Tree
  <2> QED BY <2>1, <2>3, <2>4, Zenon DEF Change
<1>5. CASE Mknod(parent, name) \/ Mkdir(parent, name) \/ Symlink(parent, name) \/ MakeNode(parent, name, FileInos)
  BY <1>5, MakeNodeChange, Zenon DEF Mknod, Mkdir, Symlink, Ino
<1>6. CASE Create(parent, name)
  BY <1>4, <1>5, <1>6, Zenon DEF Create
<1>7. CASE Unlink(parent, name) \/ Rmdir(parent, name)
  <2>1. path \in Path /\ path \in DOMAIN fs /\ Below(path) = {} /\ RemoveName(path)
    BY <1>2, <1>3, <1>7, NothingBelow, Zenon DEF Unlink, Rmdir, IsFile, IsDir
  <2> QED BY <2>1, RemoveNameChange, Zenon
<1>8. CASE \E newparent \in Ino, newname \in Names : Rename(parent, name, newparent, newname)
  <2>1. PICK newparent \in Ino, newname \in Names : Rename(parent, name, newparent, newname)
    BY <1>8, Zenon
  <2> DEFINE new == Join(newparent, newname)
  <2>2. path \in Path /\ new \in Path /\ new # <<>> /\ RenamePaths(path, new)
    BY <1>2, <1>3, <2>1, JoinType, JoinNotRoot, Zenon DEF Rename
  <2> HIDE DEF path, new
  <2>3. Tree'
    BY <1>2, <2>2, RenamedTree, Zenon DEF RenamePaths
  <2> QED BY <2>2, <2>3, Zenon DEF Change, Moves
<1>9. CASE \E i \in FileInos : Link(i, parent, name)
  <2>1. PICK i \in FileInos : Link(i, parent, name)
    BY <1>9, Zenon
  <2> DEFINE file == fs[GetPath(inode_map, i)]
  <2>2. /\ path \in Path /\ path # <<>> /\ file \in Ino /\ Creatable(path)
        /\ fs' = Linked(path, file) /\ (ReplyEntry(path, file) \/ NoEntry)
    BY <1>3, <2>1, Zenon DEF Link, IsFile, Ino
  <2> HIDE DEF file, path
  <2>3. Grown /\ path \in DOMAIN fs' /\ fs'[path] = file
    BY <2>2, LinkedGrows, Zenon DEF Creatable
  <2>4. Gains(path, file) \/ GainsNothing
    BY <1>2, <2>2, <2>3, ReplyEntryChange, NoEntryChange, Zenon
  <2>5. Tree'
    BY <1>2, <2>2, LinkedTree, Zenon
  <2> QED BY <2>2, <2>4, <2>5, Zenon DEF Change
<1> QED BY <1>1, <1>4, <1>5, <1>6, <1>7, <1>8, <1>9, Zenon

(* Requests by number, and the kernel's counting. *)
LEMMA OthersChange ==
  ASSUME TInv, ByNumber \/ Kernel \/ UNCHANGED vars
  PROVE  GainsNothing /\ Tree' /\ UNCHANGED fs
<1>1. UNCHANGED fs
  BY Zenon DEF ByNumber, Getattr, Setattr, Readlink, Open, Opendir, Statfs, Setxattr, Getxattr, Listxattr,
         Removexattr, Access, ReadByIno, WriteByIno, Reply, Kernel, CountReply, SendForget, DoForget, vars
<1>2. CASE \E f \in forgets : DoForget(f)
  <2>1. PICK f \in forgets : inode_map' = DecreaseRef(inode_map, f.ino, NLookup(f))
    BY <1>2, Zenon DEF DoForget
  <2>2. \A j : Listed(inode_map', j) \subseteq Listed(inode_map, j)
    BY <2>1, CountingListed, TypeParts, Zenon DEF TInv, DInv, TableType
  <2> QED BY <1>1, <2>2, Zenon DEF GainsNothing, Grown, TInv, Tree
<1>3. CASE UNCHANGED inode_map
  BY <1>1, <1>3, Zenon DEF GainsNothing, Grown, TInv, Tree
<1>4. ByNumber => UNCHANGED inode_map
  BY Zenon DEF ByNumber, Getattr, Setattr, Readlink, Open, Opendir, Statfs, Setxattr, Getxattr, Listxattr,
         Removexattr, Access, ReadByIno, WriteByIno, Reply
<1> QED BY <1>1, <1>2, <1>3, <1>4, Zenon DEF Kernel, CountReply, SendForget, vars

(* The invariant the results below rest on: types, lists without           *)
(* repetitions, and a tree.                                                *)
LEMMA TreeInit == Init => TInv
<1> SUFFICES ASSUME Init PROVE TInv
  BY Zenon
<1>1. Tree
  <2> SUFFICES ASSUME NEW q \in Path, Above(q, <<>>) PROVE FALSE
    BY Zenon DEF Init, Tree
  <2>1. q \in Seq(Names) /\ <<>> \in Seq(Names) /\ Len(q) \in Nat /\ Len(<<>>) = 0
    BY LenProperties, EmptySeq, Zenon DEF Path
  <2>2. Len(q) < Len(<<>>)
    BY <2>1, Zenon DEF Above
  <2> QED BY <2>1, <2>2
<1> QED BY <1>1, InitDistinct, Zenon DEF TInv

(* Every step keeps the tree a tree. *)
LEMMA TreeStep == OverrideInos = {} /\ TInv /\ [Next]_vars => TInv'
BY StepDistinct, ByNameChange, OthersChange, Zenon DEF TInv, Next

(* A path is stale if the list holds it and the tree does not lead from it to the inode. *)
LEMMA StaleIff ==
  ASSUME NEW i, NEW p
  PROVE  /\ TypeOK => (Stale(i, p) <=> p \in Listed(inode_map, i) /\ (p \notin DOMAIN fs \/ fs[p] # i))
         /\ TypeOK' => (Stale(i, p)' <=> p \in Listed(inode_map', i) /\ (p \notin DOMAIN fs' \/ fs'[p] # i))
<1>1. ASSUME NEW m, IsTable(m) PROVE (i \in DOMAIN m /\ Lists(m[i].paths, p)) <=> p \in Listed(m, i)
  <2>1. CASE i \in DOMAIN m
    <3>1. m[i].paths \in Seq(Path)
      BY <1>1, <2>1, Zenon DEF IsTable, Node
    <3>2. DOMAIN m[i].paths = 1..Len(m[i].paths)
      BY <3>1, LenProperties, Zenon
    <3> QED BY <2>1, <3>2, Zenon DEF Lists, Listed
  <2>2. CASE i \notin DOMAIN m
    BY <2>2, Zenon DEF Listed
  <2> QED BY <2>1, <2>2, Zenon
<1>2. (TypeOK => IsTable(inode_map)) /\ (TypeOK' => IsTable(inode_map'))
  BY Zenon DEF TypeOK, IsTable, Node
<1> QED BY <1>1, <1>2, Zenon DEF Stale

(* rename, where the paths it stales can be. *)
LEMMA MovesStale ==
  ASSUME TInv, TInv', OverrideInos = {}, NEW old \in Path, NEW new \in Path, Moves(old, new),
         NEW i, NEW p \in DOMAIN fs, Stale(i, p)', ~Stale(i, p)
  PROVE  /\ old \in DOMAIN fs /\ new \in DOMAIN fs'
         /\ \/ p = new /\ fs[new] = i
            \/ Above(old, p)
            \/ p = old /\ fs[old] = i /\ UNCHANGED inode_map /\ StatFails
<1>1. /\ TypeOK /\ TypeOK' /\ Tree /\ new # <<>> /\ CanRename(old, new) /\ old \in DOMAIN fs
      /\ fs' = Renamed(old, new) /\ fs[old] \in Ino
  BY Zenon DEF TInv, DInv, Moves, RenamePaths, CanRename, TypeOK
<1>2. p \in Listed(inode_map', i) /\ (p \notin DOMAIN fs' \/ fs'[p] # i)
  BY <1>1, StaleIff, Zenon
<1>3. p \in Listed(inode_map, i) => fs[p] = i
  BY <1>1, StaleIff, Zenon
<1>4. new \in DOMAIN fs' /\ fs'[new] = fs[old]
  <2>1. CASE new \in DOMAIN fs /\ fs[new] = fs[old]
    BY <1>1, <2>1, Zenon DEF Renamed
  <2>2. CASE ~(new \in DOMAIN fs /\ fs[new] = fs[old])
    <3>1. Reroot(old, old, new) = new /\ old \in Moving(old)
      BY RerootMoves, Zenon DEF Moving
    <3>2. /\ DOMAIN fs' = Staying(old, new) \cup {Reroot(q, old, new) : q \in Moving(old)}
          /\ \A q \in Moving(old) : fs'[Reroot(q, old, new)] = fs[q]
      BY <1>1, <2>2, RenamedAt, Zenon
    <3> QED BY <3>1, <3>2, Zenon
  <2> QED BY <2>1, <2>2, Zenon
<1>5. \/ \A j : Listed(inode_map', j) = (Listed(inode_map, j) \ (IF j = fs[old] THEN {old} ELSE {}))
                                         \cup (IF j = fs[old] THEN {new} ELSE {})
      \/ UNCHANGED inode_map /\ StatFails
  <2> DEFINE m == RemovePath(inode_map, fs[old], old)
  <2>1. CASE inode_map' = InsertPath(m, fs[old], new)
    <3>1. IsTable(inode_map) /\ DistinctTable(inode_map)
      BY TypeParts, Zenon DEF TInv, DInv, TableType
    <3>2. IsTable(m) /\ DistinctTable(m)
      BY <3>1, RemovePathTable, RemovePathDistinct, Zenon
    <3>3. \A j : Listed(m, j) = Listed(inode_map, j) \ (IF j = fs[old] THEN {old} ELSE {})
      BY <1>1, <3>1, RemovePathListed
    <3> HIDE DEF m
    <3>4. \A j : Listed(inode_map', j) = Listed(m, j) \cup (IF j = fs[old] THEN {new} ELSE {})
      BY <1>1, <2>1, <3>2, InsertPathListed
    <3> QED BY <3>3, <3>4, Zenon
  <2> QED BY <2>1, Zenon DEF Moves, RenamePaths, StatIno
<1>6. CASE p \notin Listed(inode_map, i)
  <2>1. p = new /\ i = fs[old]
    BY <1>2, <1>5, <1>6, Zenon
  <2> QED BY <1>2, <1>4, <2>1, Zenon
<1>7. CASE p \in Listed(inode_map, i) /\ fs' = fs
  BY <1>2, <1>3, <1>7, Zenon
<1>8. CASE p \in Listed(inode_map, i) /\ ~(new \in DOMAIN fs /\ fs[new] = fs[old])
  <2>1. fs[p] = i
    BY <1>3, <1>8, Zenon
  <2>2. p = new \/ p = old \/ Above(old, p)
    <3> SUFFICES ASSUME p # new, p # old, ~Above(old, p) PROVE FALSE
      BY Zenon
    <3>1. p \in Staying(old, new)
      BY Zenon DEF Staying, Moving, Below
    <3>2. p \in DOMAIN fs' /\ fs'[p] = fs[p]
      <4>1. /\ DOMAIN fs' = Staying(old, new) \cup {Reroot(q, old, new) : q \in Moving(old)}
            /\ \A q \in Staying(old, new) : fs'[q] = fs[q]
        BY <1>1, <1>8, RenamedAt, Zenon
      <4> QED BY <3>1, <4>1, Zenon
    <3> QED BY <1>2, <2>1, <3>2, Zenon
  <2>3. CASE p = old /\ p # new
    BY <1>1, <1>2, <1>4, <1>5, <2>1, <2>3, Zenon
  <2> QED BY <1>1, <1>4, <2>1, <2>2, <2>3, Zenon
<1> QED BY <1>1, <1>6, <1>7, <1>8, Zenon DEF Renamed

(* Paths go stale in three ways only, all in rename (src/hookfs/mod.rs):   *)
(* what the rename replaced, what lies below a directory that moved, and   *)
(* what was moved if the stat after the rename failed.  For every set of   *)
(* names and inode numbers and trees of any depth, while no injector       *)
(* changes the inode numbers of replies.                                   *)
THEOREM OnlyRenameStales ==
  ASSUME OverrideInos = {}
  PROVE  Spec => RenameStaleness
<1> DEFINE Fresh(i, p) == Stale(i, p)' /\ ~Stale(i, p)
           Excused(i, p) ==
             \E old \in DOMAIN fs, new \in DOMAIN fs' :
               /\ RenamePaths(old, new)
               /\ \/ p = new /\ fs[new] = i
                  \/ Above(old, p)
                  \/ p = old /\ fs[old] = i /\ UNCHANGED inode_map
<1>1. ASSUME TInv, [Next]_vars
      PROVE  \A i \in DOMAIN inode_map, p \in DOMAIN fs : Fresh(i, p) => Excused(i, p)
  <2> SUFFICES ASSUME NEW i \in DOMAIN inode_map, NEW p \in DOMAIN fs, Stale(i, p)', ~Stale(i, p)
               PROVE  Excused(i, p)
    BY Zenon
  <2>1. TInv' /\ TypeOK /\ TypeOK'
    BY <1>1, TreeStep, Zenon DEF TInv, DInv
  <2>2. p \in Listed(inode_map', i) /\ (p \notin DOMAIN fs' \/ fs'[p] # i)
    BY <2>1, StaleIff, Zenon
  <2>3. p \in Listed(inode_map, i) => fs[p] = i
    BY <2>1, StaleIff, Zenon
  <2>4. Change
    BY <1>1, ByNameChange, OthersChange, Zenon DEF Next, Change
  <2>5. CASE \E q \in Path, j \in Ino : Gains(q, j)
    BY <2>2, <2>3, <2>5, Zenon DEF Gains, Grown
  <2>6. CASE GainsNothing
    BY <2>2, <2>3, <2>6, Zenon DEF GainsNothing, Grown
  <2>7. CASE \E q \in Path : Loses(q)
    BY <2>2, <2>3, <2>7, Zenon DEF Loses, Unlinked
  <2>8. CASE \E old, new \in Path : Moves(old, new)
    <3>1. PICK old \in Path, new \in Path : Moves(old, new)
      BY <2>8, Zenon
    <3>2. /\ old \in DOMAIN fs /\ new \in DOMAIN fs'
          /\ \/ p = new /\ fs[new] = i
             \/ Above(old, p)
             \/ p = old /\ fs[old] = i /\ UNCHANGED inode_map
      BY <1>1, <2>1, <3>1, MovesStale, Zenon
    <3> QED BY <3>1, <3>2, Zenon DEF Moves
  <2> QED BY <2>4, <2>5, <2>6, <2>7, <2>8, Zenon DEF Change
<1>2. TInv /\ [Next]_vars
        => [\A i \in DOMAIN inode_map, p \in DOMAIN fs : Fresh(i, p) => Excused(i, p)]_vars
  BY <1>1, Zenon
<1>3. TInv /\ [Next]_vars => TInv'
  BY TreeStep, Zenon
<1>4. Init => TInv
  BY TreeInit, Zenon
<1>5. Spec => [][\A i \in DOMAIN inode_map, p \in DOMAIN fs : Fresh(i, p) => Excused(i, p)]_vars
  <2> HIDE DEF Fresh, Excused
  <2> QED BY <1>2, <1>3, <1>4, PTL DEF Spec
<1> QED BY <1>5, Zenon DEF RenameStaleness

-----------------------------------------------------------------------------
AInv == TInv /\ PathsAccurate

(* Accuracy, said of the sets of listed paths. *)
LEMMA AccurateIff ==
  /\ PathsAccurate <=> \A i : \A p \in Listed(inode_map, i) : p \in DOMAIN fs /\ fs[p] = i
  /\ PathsAccurate' <=> \A i : \A p \in Listed(inode_map', i) : p \in DOMAIN fs' /\ fs'[p] = i
<1>1. PathsAccurate <=> \A i : \A p \in Listed(inode_map, i) : p \in DOMAIN fs /\ fs[p] = i
  BY DEF PathsAccurate, Listed
<1>2. PathsAccurate' <=> \A i : \A p \in Listed(inode_map', i) : p \in DOMAIN fs' /\ fs'[p] = i
  BY DEF PathsAccurate, Listed
<1> QED BY <1>1, <1>2, Zenon

(* A file that rename moves to a name not in use. *)
LEMMA MovesAccurate ==
  ASSUME AInv, TInv', OverrideInos = {}, FreshRenames, ~StatFails,
         NEW old \in Path, NEW new \in Path, Moves(old, new)
  PROVE  PathsAccurate'
<1>1. /\ TypeOK /\ TypeOK' /\ Tree /\ IsFile(old) /\ new \notin DOMAIN fs /\ old \in DOMAIN fs
      /\ fs' = Renamed(old, new) /\ fs[old] \in Ino /\ new # <<>> /\ CanRename(old, new)
      /\ inode_map' = InsertPath(RemovePath(inode_map, fs[old], old), fs[old], new)
  BY Zenon DEF AInv, TInv, DInv, Moves, RenamePaths, CanRename, TypeOK, StatIno
<1> DEFINE m == RemovePath(inode_map, fs[old], old)
<1>2. IsTable(inode_map) /\ DistinctTable(inode_map)
  BY TypeParts, Zenon DEF AInv, TInv, DInv, TableType
<1>3. IsTable(m) /\ DistinctTable(m)
  BY <1>2, RemovePathTable, RemovePathDistinct, Zenon
<1>4. \A j : Listed(m, j) = Listed(inode_map, j) \ (IF j = fs[old] THEN {old} ELSE {})
  BY <1>1, <1>2, RemovePathListed
<1> HIDE DEF m
<1>5. \A j : Listed(inode_map', j) = Listed(m, j) \cup (IF j = fs[old] THEN {new} ELSE {})
  BY <1>1, <1>3, InsertPathListed DEF m
<1>6. /\ new \in DOMAIN fs' /\ fs'[new] = fs[old]
      /\ \A p \in DOMAIN fs : p # old => p \in DOMAIN fs' /\ fs'[p] = fs[p]
  <2>1. Reroot(old, old, new) = new /\ Moving(old) = {old} /\ \A p \in DOMAIN fs : p # old => p \in Staying(old, new)
    BY <1>1, RerootMoves, NothingBelow, Zenon DEF Moving, Staying
  <2>2. /\ DOMAIN fs' = Staying(old, new) \cup {Reroot(q, old, new) : q \in Moving(old)}
        /\ \A p \in Staying(old, new) : fs'[p] = fs[p]
        /\ \A q \in Moving(old) : fs'[Reroot(q, old, new)] = fs[q]
    BY <1>1, RenamedAt, Zenon
  <2> QED BY <2>1, <2>2, Zenon
<1>7. ASSUME NEW j, NEW p \in Listed(inode_map', j) PROVE p \in DOMAIN fs' /\ fs'[p] = j
  <2>1. CASE p = new /\ j = fs[old]
    BY <1>6, <2>1, Zenon
  <2>2. CASE p \in Listed(m, j)
    <3>1. p \in DOMAIN fs /\ fs[p] = j
      BY <1>4, <2>2, AccurateIff, Zenon DEF AInv
    <3>2. p # old
      BY <1>4, <2>2, <3>1, Zenon
    <3> QED BY <1>6, <3>1, <3>2, Zenon
  <2> QED BY <1>5, <2>1, <2>2, Zenon
<1> QED BY <1>7, AccurateIff, Zenon

(* Every step keeps the paths accurate. *)
LEMMA StepAccurate ==
  ASSUME OverrideInos = {}, FreshRenames, ~StatFails, AInv, [Next]_vars
  PROVE  AInv'
<1>1. TInv'
  BY TreeStep, Zenon DEF AInv
<1>2. \A i : \A p \in Listed(inode_map, i) : p \in DOMAIN fs /\ fs[p] = i
  BY AccurateIff, Zenon DEF AInv
<1>3. Change
  BY ByNameChange, OthersChange, Zenon DEF Next, Change, AInv
<1>4. CASE \E q \in Path, j \in Ino : Gains(q, j)
  <2>1. \A i : \A p \in Listed(inode_map', i) : p \in DOMAIN fs' /\ fs'[p] = i
    BY <1>2, <1>4 DEF Gains, Grown
  <2> QED BY <1>1, <2>1, AccurateIff, Zenon DEF AInv
<1>5. CASE GainsNothing
  <2>1. \A i : \A p \in Listed(inode_map', i) : p \in DOMAIN fs' /\ fs'[p] = i
    BY <1>2, <1>5, Zenon DEF GainsNothing, Grown
  <2> QED BY <1>1, <2>1, AccurateIff DEF AInv
<1>6. CASE \E q \in Path : Loses(q)
  <2>1. \A i : \A p \in Listed(inode_map', i) : p \in DOMAIN fs' /\ fs'[p] = i
    BY <1>2, <1>6 DEF Loses, Unlinked
  <2> QED BY <1>1, <2>1, AccurateIff DEF AInv
<1>7. CASE \E old, new \in Path : Moves(old, new)
  BY <1>1, <1>7, MovesAccurate, Zenon DEF AInv
<1> QED BY <1>3, <1>4, <1>5, <1>6, <1>7, Zenon DEF Change

(* At the start the mount point is at its path. *)
LEMMA InitAccurate == Init => AInv
<1> SUFFICES ASSUME Init PROVE PathsAccurate
  BY TreeInit, Zenon DEF AInv
<1> DEFINE m == [i \in {} |-> EmptyNode]
<1>1. IsTable(m) /\ DistinctTable(m) /\ Root \in Ino /\ <<>> \in Path /\ \A j : Listed(m, j) = {}
  BY HookFsAssumption DEF IsTable, DistinctTable, Ino, Path, Listed
<1>2. inode_map = InsertPath(m, Root, <<>>) /\ <<>> \in DOMAIN fs /\ fs[<<>>] = Root
  BY Zenon DEF Init
<1> HIDE DEF m
<1>3. \A j : Listed(inode_map, j) = IF j = Root THEN {<<>>} ELSE {}
  BY <1>1, <1>2, InsertPathListed
<1> QED BY <1>2, <1>3, AccurateIff, Zenon

(* While no rename replaces a file or moves a directory, no stat after a   *)
(* rename fails and no injector changes inode numbers, every path in the   *)
(* table leads to the inode it is listed under: after any sequence of      *)
(* creations, links, removals, renames, lookups and FORGETs, and whatever  *)
(* inode numbers the backing file system uses again.                       *)
THEOREM PathsStayAccurate ==
  ASSUME OverrideInos = {}, FreshRenames, ~StatFails
  PROVE  Spec => []PathsAccurate
<1>1. AInv /\ [Next]_vars => AInv'
  BY StepAccurate, Zenon
<1>2. AInv => PathsAccurate
  BY Zenon DEF AInv
<1> QED BY <1>1, <1>2, InitAccurate, PTL DEF Spec

(* The file a request by number reaches is its own. *)
LEMMA ReachesOwn ==
  ASSUME AInv, NEW i
  PROVE  Reached(i) \in {i, NoFile}
<1>1. CASE HasPath(inode_map, i) /\ GetPath(inode_map, i) \in DOMAIN fs
  <2>1. inode_map[i].paths \in Seq(Path) /\ inode_map[i].paths # <<>> /\ i \in DOMAIN inode_map
    BY <1>1, Zenon DEF AInv, TInv, DInv, TypeOK, HasPath
  <2>2. Len(inode_map[i].paths) \in DOMAIN inode_map[i].paths
    BY <2>1, EmptySeq, LenProperties
  <2>3. fs[GetPath(inode_map, i)] = i
    BY <2>1, <2>2, Zenon DEF AInv, PathsAccurate, GetPath
  <2> QED BY <1>1, <2>3, Zenon DEF Reached
<1>2. CASE ~(HasPath(inode_map, i) /\ GetPath(inode_map, i) \in DOMAIN fs)
  BY <1>2, Zenon DEF Reached
<1> QED BY <1>1, <1>2, Zenon

(* Whoever answers by number has looked at the table of this moment. *)
LEMMA StepOwn ==
  ASSUME AInv, OwnFile, [Next]_vars
  PROVE  OwnFile'
<1>1. CASE ByName
  <2>1. answer' = NoAnswer
    <3>1. /\ \A p, i : ReplyEntry(p, i) => answer' = NoAnswer
          /\ NoEntry => answer' = NoAnswer
          /\ \A p : RemoveName(p) => answer' = NoAnswer
          /\ \A p, q : RenamePaths(p, q) => answer' = NoAnswer
      BY Zenon DEF ReplyEntry, NoEntry, RemoveName, RenamePaths
    <3>2. \A p, n, S : MakeNode(p, n, S) => answer' = NoAnswer
      BY <3>1, Zenon DEF MakeNode
    <3> QED BY <1>1, <3>1, <3>2, Zenon DEF ByName, Lookup, Mknod, Mkdir, Symlink, Create, Unlink, Rmdir,
                                        Rename, Link
  <2> QED BY <2>1, Zenon DEF OwnFile, NoAnswer
<1>2. CASE ByNumber
  <2>1. PICK i \in Ino :
          \/ Getattr(i) \/ Setattr(i) \/ Readlink(i) \/ Open(i) \/ Opendir(i) \/ Statfs(i)
          \/ Setxattr(i) \/ Getxattr(i) \/ Listxattr(i) \/ Removexattr(i) \/ Access(i)
    BY <1>2, Zenon DEF ByNumber
  <2>2. \E hit, wrote \in {i, Reached(i), NoFile} : Reply(i, hit, wrote)
    BY <2>1, Zenon DEF Getattr, Setattr, Readlink, Open, Opendir, Statfs, Setxattr, Getxattr, Listxattr,
                Removexattr, Access, ReadByIno, WriteByIno
  <2>3. Reached(i) \in {i, NoFile}
    BY ReachesOwn, Zenon
  <2> QED BY <2>2, <2>3 DEF Reply, OwnFile
<1>3. CASE Kernel
  <2>1. answer' = NoAnswer
    BY <1>3, Zenon DEF Kernel, CountReply, SendForget, DoForget
  <2> QED BY <2>1 DEF OwnFile, NoAnswer
<1>4. CASE UNCHANGED vars
  BY <1>4, Zenon DEF vars, OwnFile
<1> QED BY <1>1, <1>2, <1>3, <1>4, Zenon DEF Next

(* Under the same conditions a request addressed by inode number reads and *)
(* changes the file of that inode, or fails.                               *)
THEOREM NumbersReachOwnFile ==
  ASSUME OverrideInos = {}, FreshRenames, ~StatFails
  PROVE  Spec => []OwnFile
<1>1. AInv /\ [Next]_vars => AInv'
  BY StepAccurate
<1>2. AInv /\ OwnFile /\ [Next]_vars => OwnFile'
  BY StepOwn, Zenon
<1>3. Init => OwnFile
  BY DEF Init, OwnFile, NoAnswer
<1> QED BY <1>1, <1>2, <1>3, InitAccurate, PTL DEF Spec
=============================================================================
