---------------------------- MODULE HookFsProofs ----------------------------
(***************************************************************************)
(* Proofs about HookFs, for every set of names and inode numbers and every *)
(* bound.                                                                  *)
(***************************************************************************)
EXTENDS HookFs, TLAPS

(* A sequence is a function on 1..Len. *)
LEMMA LenProperties ==
  ASSUME NEW S, NEW seq \in Seq(S)
  PROVE  Len(seq) \in Nat /\ seq \in [1..Len(seq) -> S] /\ DOMAIN seq = 1..Len(seq)
OBVIOUS

(* Its elements are those of the set it is over. *)
LEMMA ElementOfSeq ==
  ASSUME NEW S, NEW seq \in Seq(S), NEW n \in 1..Len(seq)
  PROVE  seq[n] \in S
OBVIOUS

(* Only the empty sequence has length 0. *)
LEMMA EmptySeq ==
  ASSUME NEW S
  PROVE  /\ <<>> \in Seq(S) /\ Len(<<>>) = 0
         /\ \A seq \in Seq(S) : seq # <<>> => Len(seq) \in Nat \ {0}
<1>1. <<>> \in Seq(S) /\ Len(<<>>) = 0
  OBVIOUS
<1>2. ASSUME NEW seq \in Seq(S), seq # <<>> PROVE Len(seq) \in Nat \ {0}
  BY <1>2
<1> QED BY <1>1, <1>2, Zenon

(* Sequences that agree element by element are equal. *)
LEMMA SeqEqual ==
  ASSUME NEW S, NEW s \in Seq(S), NEW t \in Seq(S), Len(s) = Len(t), \A i \in 1..Len(s) : s[i] = t[i]
  PROVE  s = t
OBVIOUS

(* A concatenation, element by element. *)
LEMMA ConcatProperties ==
  ASSUME NEW S, NEW s \in Seq(S), NEW t \in Seq(S)
  PROVE  /\ s \o t \in Seq(S) /\ Len(s \o t) = Len(s) + Len(t)
         /\ \A i \in 1..(Len(s) + Len(t)) : (s \o t)[i] = IF i <= Len(s) THEN s[i] ELSE t[i - Len(s)]
         /\ s \o <<>> = s
OBVIOUS

(* A part of a sequence, element by element. *)
LEMMA SubSeqProperties ==
  ASSUME NEW S, NEW s \in Seq(S), NEW m \in 1..(Len(s) + 1), NEW n \in 0..Len(s)
  PROVE  /\ SubSeq(s, m, n) \in Seq(S) /\ Len(SubSeq(s, m, n)) = IF m <= n THEN n - m + 1 ELSE 0
         /\ \A i \in 1..(n - m + 1) : SubSeq(s, m, n)[i] = s[m + i - 1]
OBVIOUS

(* A part that ends before it starts is empty. *)
LEMMA SubSeqEmpty ==
  ASSUME NEW S, NEW s \in Seq(S), NEW m \in Int, NEW n \in Int, n < m
  PROVE  SubSeq(s, m, n) = <<>>
OBVIOUS

(* The part from the first to the last element is the whole. *)
LEMMA SubSeqFull ==
  ASSUME NEW S, NEW s \in Seq(S)
  PROVE  SubSeq(s, 1, Len(s)) = s
OBVIOUS

(* A sequence with an element appended. *)
LEMMA AppendProperties ==
  ASSUME NEW S, NEW seq \in Seq(S), NEW elt \in S
  PROVE  /\ Append(seq, elt) \in Seq(S) /\ Append(seq, elt) # <<>> /\ Len(Append(seq, elt)) = Len(seq) + 1
         /\ \A i \in 1..Len(seq) : Append(seq, elt)[i] = seq[i]
         /\ Append(seq, elt)[Len(seq) + 1] = elt
OBVIOUS

Node == [ref_count : Nat, paths : Seq(Path)]

(* A table over a set of inodes: the part of TypeOK about inode_map. *)
IsTable(m) == DOMAIN m \subseteq Ino /\ m \in [DOMAIN m -> Node]

(* Inserting a path keeps a list of paths one. *)
LEMMA NodeInsertType ==
  ASSUME NEW paths \in Seq(Path), NEW p \in Path
  PROVE  NodeInsert(paths, p) \in Seq(Path)
BY AppendProperties, Zenon DEF NodeInsert

(* So does removing one. *)
LEMMA NodeRemoveType ==
  ASSUME NEW paths \in Seq(Path), NEW p
  PROVE  NodeRemove(paths, p) \in Seq(Path)
<1>1. CASE ~Lists(paths, p)
  BY <1>1, Zenon DEF NodeRemove
<1>2. CASE Lists(paths, p)
  <2> DEFINE k == CHOOSE i \in DOMAIN paths : paths[i] = p
  <2>1. k \in 1..Len(paths)
    BY <1>2 DEF Lists
  <2> HIDE DEF k
  <2>2. SubSeq(paths, 1, k - 1) \in Seq(Path) /\ SubSeq(paths, k + 1, Len(paths)) \in Seq(Path)
    BY <2>1
  <2>3. NodeRemove(paths, p) = SubSeq(paths, 1, k - 1) \o SubSeq(paths, k + 1, Len(paths))
    BY <1>2, Zenon DEF NodeRemove, k
  <2> QED BY <2>2, <2>3
<1> QED BY <1>1, <1>2, Zenon

(* After InsertPath the inode is known; no count has moved. *)
LEMMA InsertPathTable ==
  ASSUME NEW m, IsTable(m), NEW i \in Ino, NEW p \in Path
  PROVE  /\ IsTable(InsertPath(m, i, p))
         /\ DOMAIN InsertPath(m, i, p) = DOMAIN m \cup {i}
         /\ \A j \in Ino : Count(InsertPath(m, i, p), j) = Count(m, j)
<1>1. Entry(m, i) \in Node /\ Entry(m, i).ref_count = Count(m, i)
  BY DEF Entry, EmptyNode, Node, IsTable, Count
<1>2. NodeInsert(Entry(m, i).paths, p) \in Seq(Path)
  BY <1>1, NodeInsertType, Zenon DEF Node
<1>3. [Entry(m, i) EXCEPT !.paths = NodeInsert(@, p)] \in Node
  BY <1>1, <1>2, Zenon DEF Node
<1>4. [Entry(m, i) EXCEPT !.paths = NodeInsert(@, p)].ref_count = Entry(m, i).ref_count
  BY <1>1, Zenon DEF Node
<1> QED BY <1>1, <1>3, <1>4, Zenon DEF InsertPath, IsTable, Count

(* RemovePath leaves the counts and the set of known inodes alone. *)
LEMMA RemovePathTable ==
  ASSUME NEW m, IsTable(m), NEW i, NEW p
  PROVE  /\ IsTable(RemovePath(m, i, p))
         /\ DOMAIN RemovePath(m, i, p) = DOMAIN m
         /\ \A j \in Ino : Count(RemovePath(m, i, p), j) = Count(m, j)
<1>1. \A j \in DOMAIN m : /\ [m[j] EXCEPT !.paths = NodeRemove(@, p)] \in Node
                          /\ [m[j] EXCEPT !.paths = NodeRemove(@, p)].ref_count = m[j].ref_count
  BY NodeRemoveType, Zenon DEF Node, IsTable
<1> QED BY <1>1, Zenon DEF RemovePath, IsTable, Count

(* IncreaseRef adds one to the count of one known inode. *)
LEMMA IncreaseRefTable ==
  ASSUME NEW m, IsTable(m), NEW i \in DOMAIN m
  PROVE  /\ IsTable(IncreaseRef(m, i))
         /\ DOMAIN IncreaseRef(m, i) = DOMAIN m
         /\ \A j \in Ino : Count(IncreaseRef(m, i), j) = IF j = i THEN Count(m, i) + 1 ELSE Count(m, j)
<1>1. \A j \in DOMAIN m : /\ [m[j] EXCEPT !.ref_count = @ + 1] \in Node
                          /\ [m[j] EXCEPT !.ref_count = @ + 1].ref_count = m[j].ref_count + 1
  <2> SUFFICES ASSUME NEW n \in Node
               PROVE  /\ [n EXCEPT !.ref_count = @ + 1] \in Node
                      /\ [n EXCEPT !.ref_count = @ + 1].ref_count = n.ref_count + 1
    BY Zenon DEF IsTable
  <2>1. n.ref_count + 1 \in Nat
    BY DEF Node
  <2> QED BY <2>1, Zenon DEF Node
<1> QED BY <1>1 DEF IncreaseRef, IsTable, Count

(* DecreaseRef drops the inode or does nothing. *)
LEMMA DecreaseRefTable ==
  ASSUME NEW m, IsTable(m), NEW i, NEW n \in Int
  PROVE  /\ IsTable(DecreaseRef(m, i, n))
         /\ DOMAIN DecreaseRef(m, i, n) = {j \in DOMAIN m : j = i => Count(m, j) > n}
         /\ \A j \in DOMAIN DecreaseRef(m, i, n) : Count(DecreaseRef(m, i, n), j) = Count(m, j)
BY Zenon DEF DecreaseRef, IsTable, Node, Count

-----------------------------------------------------------------------------
(* The path of an inode that has one is a path. *)
LEMMA GetPathType ==
  ASSUME TypeOK, NEW i, HasPath(inode_map, i)
  PROVE  GetPath(inode_map, i) \in Path
<1>1. inode_map[i].paths \in Seq(Path) /\ inode_map[i].paths # <<>>
  BY Zenon DEF TypeOK, HasPath
<1>2. Len(inode_map[i].paths) \in 1..Len(inode_map[i].paths)
  BY <1>1, EmptySeq, LenProperties
<1> QED BY <1>1, <1>2, ElementOfSeq, Zenon DEF GetPath

(* So is what a handler joins to it. *)
LEMMA JoinType ==
  ASSUME TypeOK, NEW parent \in Ino, NEW name \in Names, CanJoin(parent)
  PROVE  Join(parent, name) \in Path
<1>1. GetPath(inode_map, parent) \in Path /\ Len(GetPath(inode_map, parent)) < MaxDepth
  BY GetPathType, Zenon DEF CanJoin
<1> QED BY <1>1, AppendProperties, LenProperties, HookFsAssumption DEF Join, Path

(* Moving a path to another prefix gives a path when it is short enough. *)
LEMMA RerootType ==
  ASSUME NEW p \in Path, NEW old \in Path, NEW new \in Path,
         Len(Reroot(p, old, new)) <= MaxDepth
  PROVE  Reroot(p, old, new) \in Path
<1>1. SubSeq(p, Len(old) + 1, Len(p)) \in Seq(Names)
  BY DEF Path
<1> QED BY <1>1 DEF Reroot, Path

(* The tree after a rename is a tree. *)
LEMMA RenamedType ==
  ASSUME TypeOK, NEW old \in Path, NEW new \in Path, CanRename(old, new)
  PROVE  /\ DOMAIN Renamed(old, new) \subseteq Path
         /\ Renamed(old, new) \in [DOMAIN Renamed(old, new) -> Ino]
<1>1. CASE new \in DOMAIN fs /\ fs[new] = fs[old]
  BY <1>1, Zenon DEF Renamed, TypeOK
<1>2. CASE ~(new \in DOMAIN fs /\ fs[new] = fs[old])
  <2> DEFINE moving  == Below(old) \cup {old}
             staying == DOMAIN fs \ (moving \cup {new})
             moved   == {Reroot(q, old, new) : q \in moving}
  <2>1. old \in DOMAIN fs /\ Below(old) \subseteq DOMAIN fs /\ moving \subseteq DOMAIN fs
    BY Zenon DEF CanRename, Below
  <2>2. Reroot(old, old, new) = new
    <3>1. SubSeq(old, Len(old) + 1, Len(old)) = <<>>
      BY SubSeqEmpty, LenProperties DEF Path
    <3> QED BY <3>1, ConcatProperties, Zenon DEF Reroot, Path
  <2>3. moved \subseteq Path
    <3> SUFFICES ASSUME NEW q \in moving PROVE Reroot(q, old, new) \in Path
      BY Zenon
    <3>1. CASE q = old
      BY <3>1, <2>2, Zenon
    <3>2. CASE q \in Below(old)
      BY <3>2, <2>1, RerootType, Zenon DEF CanRename, TypeOK
    <3> QED BY <3>1, <3>2, Zenon
  <2>4. \A p \in moved : (CHOOSE q \in moving : Reroot(q, old, new) = p) \in moving
    BY Zenon
  <2>5. Renamed(old, new) = [p \in staying \cup moved |->
           IF p \in staying THEN fs[p] ELSE fs[CHOOSE q \in moving : Reroot(q, old, new) = p]]
    BY <1>2, Zenon DEF Renamed
  <2> HIDE DEF moving, moved
  <2> QED BY <2>1, <2>3, <2>4, <2>5 DEF TypeOK
<1> QED BY <1>1, <1>2, Zenon

-----------------------------------------------------------------------------
(* What a step does to the counts.                                         *)

(* No count moves; at most one inode becomes known, with a count of zero. *)
Kept ==
  /\ IsTable(inode_map')
  /\ DOMAIN inode_map' = DOMAIN inode_map \/ \E i \in Ino : DOMAIN inode_map' = DOMAIN inode_map \cup {i}
  /\ \A j \in Ino : Count(inode_map', j) = Count(inode_map, j)
  /\ UNCHANGED kernel

(* One inode gets an entry reply, and one more in its count. *)
Granted(i) ==
  /\ IsTable(inode_map') /\ DOMAIN inode_map' = DOMAIN inode_map \cup {i}
  /\ \A j \in Ino : Count(inode_map', j) = IF j = i THEN Count(inode_map, i) + 1 ELSE Count(inode_map, j)
  /\ issued[i] < MaxLookups /\ issued' = [issued EXCEPT ![i] = @ + 1]
  /\ UNCHANGED <<received, released, forgets>>

(* TypeOK without the tree and the answer, and the tree and the answer. *)
TableType == IsTable(inode_map)

FsType == DOMAIN fs \subseteq Path /\ fs \in [DOMAIN fs -> Ino]

AnswerType == answer \in [asked : Ino, hit : Ino \cup {NoFile}, wrote : Ino \cup {NoFile}]

KernelType ==
  /\ issued \in [Ino -> Nat] /\ received \in [Ino -> Nat] /\ released \in [Ino -> Nat]
  /\ forgets \subseteq Forget

(* The type invariant, part by part: tree, table, lookup traffic, answer. *)
LEMMA TypeParts == TypeOK <=> FsType /\ TableType /\ KernelType /\ AnswerType
BY Zenon DEF TypeOK, FsType, TableType, KernelType, AnswerType, IsTable, Node

(* The same of the state after a step. *)
LEMMA TypePartsPrimed == FsType' /\ TableType' /\ KernelType' /\ AnswerType' => TypeOK'
BY Zenon DEF TypeOK, FsType, TableType, KernelType, AnswerType, IsTable, Node

(* The common end of the handlers that reply with an entry grants a lookup. *)
LEMMA ReplyEntryEffect ==
  ASSUME TypeOK, NEW path \in Path, NEW i \in Ino, ReplyEntry(path, i)
  PROVE  (\E ino \in Ino : Granted(ino)) /\ AnswerType'
<1>1. PICK ino \in StatIno(i) :
        /\ issued[ino] < MaxLookups
        /\ inode_map' = IncreaseRef(InsertPath(inode_map, ino, path), ino)
        /\ issued' = [issued EXCEPT ![ino] = @ + 1]
        /\ answer' = NoAnswer
        /\ UNCHANGED <<received, released, forgets>>
  BY Zenon DEF ReplyEntry
<1>2. ino \in Ino
  BY HookFsAssumption, Zenon DEF StatIno, Ino
<1>3. IsTable(inode_map)
  BY TypeParts, Zenon DEF TableType
<1> DEFINE m == InsertPath(inode_map, ino, path)
<1>4. /\ IsTable(m) /\ DOMAIN m = DOMAIN inode_map \cup {ino}
      /\ \A j \in Ino : Count(m, j) = Count(inode_map, j)
  BY <1>2, <1>3, InsertPathTable, Zenon
<1> HIDE DEF m
<1>5. /\ IsTable(inode_map') /\ DOMAIN inode_map' = DOMAIN m
      /\ \A j \in Ino : Count(inode_map', j) = IF j = ino THEN Count(m, ino) + 1 ELSE Count(m, j)
  BY <1>1, <1>4, IncreaseRefTable DEF m
<1>6. Granted(ino)
  BY <1>1, <1>2, <1>4, <1>5, Zenon DEF Granted
<1>7. AnswerType'
  BY <1>1, Zenon DEF AnswerType, NoAnswer, Ino
<1> QED BY <1>2, <1>6, <1>7, Zenon

(* A handler that leaves the table and the kernel's counts alone. *)
LEMMA UnchangedKept ==
  ASSUME TypeOK, UNCHANGED <<inode_map, kernel>>
  PROVE  Kept
BY TypeParts, Zenon DEF Kept, TableType

(* A failed lchown after the creation leaves table and counts alone. *)
LEMMA NoEntryEffect ==
  ASSUME TypeOK, NoEntry
  PROVE  Kept /\ AnswerType'
BY UnchangedKept, Zenon DEF NoEntry, AnswerType, NoAnswer, Ino

(* unlink and rmdir take a path out of the table and move no count. *)
LEMMA RemoveNameEffect ==
  ASSUME TypeOK, NEW path \in DOMAIN fs, RemoveName(path)
  PROVE  Kept /\ FsType' /\ AnswerType'
<1>1. PICK ino \in StatIno(fs[path]) : inode_map' = RemovePath(inode_map, ino, path)
  BY Zenon DEF RemoveName
<1>2. Kept
  BY <1>1, RemovePathTable, TypeParts DEF RemoveName, TableType, Kept
<1>3. FsType'
  BY Zenon DEF RemoveName, Unlinked, TypeOK, FsType
<1>4. AnswerType'
  BY Zenon DEF RemoveName, AnswerType, NoAnswer, Ino
<1> QED BY <1>2, <1>3, <1>4, Zenon

(* rename moves a path in the table, may learn of an inode, moves no count. *)
LEMMA RenameEffect ==
  ASSUME TypeOK, NEW old \in Path, NEW new \in Path, RenamePaths(old, new)
  PROVE  Kept /\ FsType' /\ AnswerType'
<1>1. old \in DOMAIN fs /\ fs[old] \in Ino
  BY Zenon DEF RenamePaths, CanRename, TypeOK
<1>2. ASSUME NEW ino \in StatIno(fs[old]),
             inode_map' = InsertPath(RemovePath(inode_map, ino, old), ino, new)
      PROVE  Kept
  <2>1. ino \in Ino
    BY <1>1, HookFsAssumption, Zenon DEF StatIno, Ino
  <2> DEFINE m == RemovePath(inode_map, ino, old)
  <2>2. /\ IsTable(m) /\ DOMAIN m = DOMAIN inode_map
        /\ \A j \in Ino : Count(m, j) = Count(inode_map, j)
    BY RemovePathTable, TypeParts, Zenon DEF TableType
  <2> HIDE DEF m
  <2>3. /\ IsTable(inode_map') /\ DOMAIN inode_map' = DOMAIN m \cup {ino}
        /\ \A j \in Ino : Count(inode_map', j) = Count(m, j)
    BY <1>2, <2>1, <2>2, InsertPathTable, Zenon DEF m
  <2> QED BY <2>1, <2>2, <2>3, Zenon DEF Kept, RenamePaths
<1>3. ASSUME UNCHANGED inode_map PROVE Kept
  BY <1>3, TypeParts, Zenon DEF Kept, RenamePaths, TableType
<1>4. FsType'
  BY RenamedType, Zenon DEF RenamePaths, FsType
<1>5. AnswerType'
  BY Zenon DEF RenamePaths, AnswerType, NoAnswer, Ino
<1> QED BY <1>2, <1>3, <1>4, <1>5, Zenon DEF RenamePaths

-----------------------------------------------------------------------------
(* The handlers that create, look up or link a name: one inode is granted, *)
(* or nothing but the tree changes.                                        *)
LEMMA MakeNodeEffect ==
  ASSUME TypeOK, NEW parent \in Ino, NEW name \in Names, NEW inos \in SUBSET Ino,
         MakeNode(parent, name, inos)
  PROVE  (Kept \/ \E i \in Ino : Granted(i)) /\ FsType' /\ AnswerType'
<1> DEFINE path == Join(parent, name)
<1>1. path \in Path
  BY JoinType, Zenon DEF MakeNode
<1>2. PICK i \in inos : fs' = Linked(path, i) /\ (ReplyEntry(path, i) \/ NoEntry)
  BY Zenon DEF MakeNode
<1> HIDE DEF path
<1>3. FsType'
  BY <1>1, <1>2, Zenon DEF Linked, TypeOK, FsType
<1>4. (Kept \/ \E j \in Ino : Granted(j)) /\ AnswerType'
  BY <1>1, <1>2, ReplyEntryEffect, NoEntryEffect, Zenon
<1> QED BY <1>3, <1>4, Zenon

(* lookup grants one lookup of the inode it found. *)
LEMMA LookupEffect ==
  ASSUME TypeOK, NEW parent \in Ino, NEW name \in Names, Lookup(parent, name)
  PROVE  (\E i \in Ino : Granted(i)) /\ FsType' /\ AnswerType'
<1>1. Join(parent, name) \in Path
  BY JoinType, Zenon DEF Lookup
<1>2. fs[Join(parent, name)] \in Ino /\ ReplyEntry(Join(parent, name), fs[Join(parent, name)])
  BY Zenon DEF Lookup, TypeOK
<1>3. FsType'
  BY Zenon DEF Lookup, FsType, TypeOK
<1> QED BY <1>1, <1>2, <1>3, ReplyEntryEffect, Zenon

(* create grants one lookup, or fails after open(O_CREAT) and grants none. *)
LEMMA CreateEffect ==
  ASSUME TypeOK, NEW parent \in Ino, NEW name \in Names, Create(parent, name)
  PROVE  (Kept \/ \E i \in Ino : Granted(i)) /\ FsType' /\ AnswerType'
<1> DEFINE path == Join(parent, name)
<1>1. CASE MakeNode(parent, name, FileInos)
  BY <1>1, MakeNodeEffect, Zenon DEF Ino
<1>2. CASE IsFile(path) /\ (ReplyEntry(path, fs[path]) \/ NoEntry) /\ UNCHANGED fs
  <2>1. path \in Path
    BY JoinType, Zenon DEF Create
  <2>2. fs[path] \in Ino
    BY <1>2, Zenon DEF IsFile, Ino
  <2>3. FsType'
    BY <1>2, Zenon DEF FsType, TypeOK
  <2> QED BY <1>2, <2>1, <2>2, <2>3, ReplyEntryEffect, NoEntryEffect, Zenon
<1> QED BY <1>1, <1>2, Zenon DEF Create

(* link grants one lookup of the inode that got a second name. *)
LEMMA LinkEffect ==
  ASSUME TypeOK, NEW i \in Ino, NEW parent \in Ino, NEW name \in Names, Link(i, parent, name)
  PROVE  (Kept \/ \E j \in Ino : Granted(j)) /\ FsType' /\ AnswerType'
<1> DEFINE path == Join(parent, name)
           file == fs[GetPath(inode_map, i)]
<1>1. path \in Path
  BY JoinType, Zenon DEF Link
<1>2. file \in Ino /\ fs' = Linked(path, file) /\ (ReplyEntry(path, file) \/ NoEntry)
  BY Zenon DEF Link, IsFile, Ino
<1> HIDE DEF path, file
<1>3. FsType'
  BY <1>1, <1>2, Zenon DEF Linked, TypeOK, FsType
<1> QED BY <1>1, <1>2, <1>3, ReplyEntryEffect, NoEntryEffect, Zenon

(* Requests addressed by name. *)
LEMMA ByNameEffect ==
  ASSUME TypeOK, ByName
  PROVE  (Kept \/ \E i \in Ino : Granted(i)) /\ FsType' /\ AnswerType'
<1>1. PICK parent \in Ino, name \in Names :
        \/ Lookup(parent, name)
        \/ Mknod(parent, name)
        \/ Mkdir(parent, name)
        \/ Symlink(parent, name)
        \/ Create(parent, name)
        \/ Unlink(parent, name)
        \/ Rmdir(parent, name)
        \/ \E newparent \in Ino, newname \in Names : Rename(parent, name, newparent, newname)
        \/ \E i \in FileInos : Link(i, parent, name)
  BY Zenon DEF ByName
<1>2. CASE Lookup(parent, name)
  BY <1>2, LookupEffect, Zenon
<1>3. CASE Mknod(parent, name) \/ Symlink(parent, name)
  BY <1>3, MakeNodeEffect, Zenon DEF Mknod, Symlink, Ino
<1>4. CASE Mkdir(parent, name)
  BY <1>4, MakeNodeEffect, Zenon DEF Mkdir, Ino
<1>5. CASE Create(parent, name)
  BY <1>5, CreateEffect, Zenon
<1>6. CASE Unlink(parent, name) \/ Rmdir(parent, name)
  BY <1>6, RemoveNameEffect, Zenon DEF Unlink, Rmdir, IsFile, IsDir
<1>7. CASE \E newparent \in Ino, newname \in Names : Rename(parent, name, newparent, newname)
  <2>1. PICK newparent \in Ino, newname \in Names : Rename(parent, name, newparent, newname)
    BY <1>7, Zenon
  <2>2. Join(parent, name) \in Path /\ Join(newparent, newname) \in Path
    BY <2>1, JoinType, Zenon DEF Rename
  <2> QED BY <2>1, <2>2, RenameEffect, Zenon DEF Rename
<1>8. CASE \E i \in FileInos : Link(i, parent, name)
  BY <1>8, LinkEffect, Zenon DEF Ino
<1> QED BY <1>1, <1>2, <1>3, <1>4, <1>5, <1>6, <1>7, <1>8, Zenon

(* Requests addressed by inode number change nothing but the answer. *)
LEMMA ByNumberEffect ==
  ASSUME TypeOK, ByNumber
  PROVE  Kept /\ FsType' /\ AnswerType'
<1>1. \A i \in Ino : Reached(i) \in Ino \cup {NoFile}
  BY Zenon DEF Reached, TypeOK
<1>2. \E i \in Ino, hit \in Ino \cup {NoFile}, wrote \in Ino \cup {NoFile} : Reply(i, hit, wrote)
  BY <1>1, Zenon DEF ByNumber, Getattr, Setattr, Readlink, Open, Opendir, Statfs, Setxattr, Getxattr,
              Listxattr, Removexattr, Access, ReadByIno, WriteByIno
<1>3. AnswerType'
  BY <1>2 DEF Reply, AnswerType
<1>4. UNCHANGED <<fs, inode_map, kernel>>
  BY <1>2, Zenon DEF Reply
<1>5. FsType'
  BY <1>4, Zenon DEF FsType, TypeOK
<1> QED BY <1>3, <1>4, <1>5, UnchangedKept, Zenon

(* The kernel's steps leave the tree alone and the answer empty. *)
LEMMA KernelEffect ==
  ASSUME TypeOK, Kernel
  PROVE  TableType' /\ KernelType' /\ FsType' /\ AnswerType'
<1>1. FsType' /\ AnswerType'
  <2>1. fs' = fs /\ answer' = NoAnswer
    BY Zenon DEF Kernel, CountReply, SendForget, DoForget
  <2> QED BY <2>1 DEF FsType, TypeOK, AnswerType, NoAnswer, Ino
<1>2. ASSUME NEW i \in Ino, CountReply(i) PROVE TableType' /\ KernelType'
  BY <1>2, TypeParts DEF CountReply, TableType, KernelType
<1>3. ASSUME NEW i \in Ino, NEW n \in 1..MaxLookups, SendForget(i, n) PROVE TableType' /\ KernelType'
  <2>1. n \in Nat /\ released[i] \in Nat
    BY HookFsAssumption DEF TypeOK
  <2> QED BY <2>1, <1>3, TypeParts DEF SendForget, TableType, KernelType, Forget
<1>4. ASSUME NEW f \in forgets, DoForget(f) PROVE TableType' /\ KernelType'
  <2>1. NLookup(f) \in Int
    BY DEF NLookup, TypeOK, Forget
  <2> QED BY <2>1, <1>4, DecreaseRefTable, TypeParts, Zenon DEF DoForget, TableType, KernelType
<1> QED BY <1>1, <1>2, <1>3, <1>4, Zenon DEF Kernel

(* A granted lookup keeps the kernel's counters numbers. *)
LEMMA GrantedType ==
  ASSUME TypeOK, NEW i \in Ino, Granted(i)
  PROVE  TableType' /\ KernelType'
BY TypeParts DEF Granted, TableType, KernelType

-----------------------------------------------------------------------------
LEMMA InitType == Init => TypeOK
<1> SUFFICES ASSUME Init PROVE TypeOK
  BY Zenon
<1>1. <<>> \in Path
  BY HookFsAssumption DEF Path
<1> DEFINE m == [i \in {} |-> EmptyNode]
<1>2. IsTable(m)
  BY Zenon DEF IsTable
<1>3. IsTable(inode_map)
  BY <1>1, <1>2, InsertPathTable, Zenon DEF Init, Ino
<1> QED BY <1>1, <1>3, TypeParts, Zenon
        DEF Init, FsType, TableType, KernelType, AnswerType, NoAnswer, Ino

(* Every handler, and every step of the kernel, keeps the types. *)
LEMMA StepType == TypeOK /\ [Next]_vars => TypeOK'
<1> SUFFICES ASSUME TypeOK, [Next]_vars PROVE TypeOK'
  BY Zenon
<1>1. CASE UNCHANGED vars
  BY <1>1, Zenon DEF vars, TypeOK
<1>2. CASE ByName \/ ByNumber
  <2>1. (Kept \/ \E i \in Ino : Granted(i)) /\ FsType' /\ AnswerType'
    BY <1>2, ByNameEffect, ByNumberEffect, Zenon
  <2>2. CASE Kept
    BY <2>1, <2>2, TypeParts, TypePartsPrimed, Zenon DEF Kept, kernel, TableType, KernelType
  <2>3. CASE \E i \in Ino : Granted(i)
    BY <2>1, <2>3, GrantedType, TypePartsPrimed, Zenon
  <2> QED BY <2>1, <2>2, <2>3, Zenon
<1>3. CASE Kernel
  BY <1>3, KernelEffect, TypePartsPrimed, Zenon
<1> QED BY <1>1, <1>2, <1>3, Zenon DEF Next

(* The inode table, the tree and the counters keep their types through     *)
(* every handler of HookFs, whatever is created, renamed or forgotten.     *)
THEOREM TypeCorrect == Spec => []TypeOK
BY InitType, StepType, PTL DEF Spec

-----------------------------------------------------------------------------
(* The reference counts.                                                   *)

(* HookFs::new: the mount point is known and nothing is granted. *)
LEMMA InitRefCounts == Init => RefCounts
<1> SUFFICES ASSUME Init PROVE RefCounts
  BY Zenon
<1>1. DOMAIN inode_map = {Root}
  BY Zenon DEF Init, InsertPath
<1>2. inode_map[Root] = [EmptyNode EXCEPT !.paths = NodeInsert(@, <<>>)]
  BY Zenon DEF Init, InsertPath, Entry
<1>3. inode_map[Root].ref_count = 0
  BY <1>2, Zenon DEF EmptyNode
<1> QED BY <1>1, <1>3 DEF Init, RefCounts, Base, Count, Ino

(* The numbers RefCounts compares. *)
LEMMA Numbers ==
  ASSUME TypeOK
  PROVE  /\ DOMAIN inode_map \subseteq Ino
         /\ \A j \in Ino : /\ issued[j] \in Nat /\ received[j] \in Nat /\ released[j] \in Nat
                           /\ Count(inode_map, j) \in Nat /\ Base(j) \in Int
         /\ \A f \in forgets : f.ino \in Ino /\ f.first \in Nat /\ f.last \in Nat
<1>1. DOMAIN inode_map \subseteq Ino
  BY Zenon DEF TypeOK
<1>2. \A j \in Ino : issued[j] \in Nat /\ received[j] \in Nat /\ released[j] \in Nat
  BY Zenon DEF TypeOK
<1>3. \A j \in Ino : Count(inode_map, j) \in Nat
  BY Zenon DEF TypeOK, Count
<1>4. \A f \in forgets : f.ino \in Ino /\ f.first \in Nat /\ f.last \in Nat
  BY Zenon DEF TypeOK, Forget
<1> QED BY <1>1, <1>2, <1>3, <1>4 DEF Base

(* A step that moves no count and no counter. *)
LEMMA KeptCounts ==
  ASSUME TypeOK, TypeOK', RefCounts, Kept
  PROVE  RefCounts'
<1>1. \A i \in Ino : Base(i)' = Base(i)
  BY Zenon DEF Kept, kernel, Base
<1>2. \A i \in DOMAIN inode_map' \ DOMAIN inode_map : Count(inode_map, i) = 0 /\ issued[i] \in Nat /\ i \in Ino
  BY Zenon DEF Count, TypeOK
<1>3. \A i \in DOMAIN inode_map' \ DOMAIN inode_map : Base(i) = issued[i] /\ released[i] = issued[i]
  BY <1>2 DEF Base, RefCounts
<1>4. \A i \in DOMAIN inode_map' : 0 <= Base(i)' /\ Base(i)' <= released'[i]
  <2> SUFFICES ASSUME NEW i \in DOMAIN inode_map' PROVE 0 <= Base(i)' /\ Base(i)' <= released'[i]
    BY Zenon
  <2>1. i \in Ino /\ released' = released
    BY Zenon DEF TypeOK, Kept, kernel
  <2>2. CASE i \in DOMAIN inode_map
    BY <2>1, <2>2, <1>1, Zenon DEF RefCounts
  <2>3. CASE i \notin DOMAIN inode_map
    BY <2>1, <2>3, <1>1, <1>2, <1>3
  <2> QED BY <2>2, <2>3, Zenon
<1>5. \A f \in forgets : f.ino \in Ino
  BY Zenon DEF TypeOK, Forget
<1> QED BY <1>1, <1>4, <1>5, Zenon DEF RefCounts, Kept, kernel

(* A granted lookup: the reply and the count grow together. *)
LEMMA GrantedCounts ==
  ASSUME TypeOK, TypeOK', RefCounts, NEW i \in Ino, Granted(i)
  PROVE  RefCounts'
<1>1. /\ DOMAIN inode_map \subseteq Ino /\ \A f \in forgets : f.ino \in Ino
      /\ \A j \in Ino : /\ issued[j] \in Nat /\ received[j] \in Nat /\ released[j] \in Nat
                        /\ Count(inode_map, j) \in Nat
  BY Numbers, Zenon
<1>2. \A j \in Ino : issued'[j] = IF j = i THEN issued[i] + 1 ELSE issued[j]
  BY Zenon DEF Granted, TypeOK
<1>3. \A j \in Ino : Base(j)' = Base(j)
  BY <1>1, <1>2 DEF Base, Granted
<1>4. i \notin DOMAIN inode_map => Base(i) = issued[i] /\ released[i] = issued[i]
  BY <1>1 DEF Base, Count, RefCounts
<1>5. \A j \in DOMAIN inode_map' : 0 <= Base(j) /\ Base(j) <= released[j]
  BY <1>1, <1>4 DEF Granted, RefCounts
<1>6. DOMAIN inode_map' = DOMAIN inode_map \cup {i} /\ released' = released /\ received' = received /\ forgets' = forgets
  BY Zenon DEF Granted
<1>7. \A j \in Ino : released[j] <= received[j] /\ received[j] <= issued'[j]
  BY <1>1, <1>2 DEF RefCounts
<1> QED BY <1>1, <1>2, <1>3, <1>5, <1>6, <1>7, Zenon DEF RefCounts

(* The kernel counts a reply. *)
LEMMA CountReplyCounts ==
  ASSUME TypeOK, RefCounts, NEW i \in Ino, CountReply(i)
  PROVE  RefCounts'
<1>1. \A j \in Ino : received[j] \in Nat /\ issued[j] \in Nat /\ released[j] \in Nat
  BY Numbers, Zenon
<1>2. \A j \in Ino : received'[j] = IF j = i THEN received[i] + 1 ELSE received[j]
  BY Zenon DEF CountReply, TypeOK
<1>3. UNCHANGED <<inode_map, issued, released, forgets>> /\ \A j : Base(j)' = Base(j)
  BY Zenon DEF CountReply, Base
<1>4. \A j \in Ino : released[j] <= received'[j] /\ received'[j] <= issued[j]
  BY <1>1, <1>2 DEF CountReply, RefCounts
<1> QED BY <1>3, <1>4, Zenon DEF RefCounts

(* The kernel sends a FORGET: it covers what follows the ones before it. *)
LEMMA SendForgetCounts ==
  ASSUME TypeOK, RefCounts, NEW i \in Ino, NEW n \in 1..MaxLookups, SendForget(i, n)
  PROVE  RefCounts'
<1> DEFINE h == [ino |-> i, first |-> released[i], last |-> released[i] + n]
<1>1. /\ DOMAIN inode_map \subseteq Ino
      /\ \A j \in Ino : /\ issued[j] \in Nat /\ received[j] \in Nat /\ released[j] \in Nat
                        /\ Base(j) \in Int
      /\ \A f \in forgets : f.ino \in Ino /\ f.first \in Nat /\ f.last \in Nat
      /\ n \in Nat /\ n > 0
  BY Numbers, HookFsAssumption
<1>2. \A j \in Ino : released'[j] = IF j = i THEN released[i] + n ELSE released[j]
  BY Zenon DEF SendForget, TypeOK
<1>3. UNCHANGED <<inode_map, issued, received>> /\ \A j : Base(j)' = Base(j)
  BY Zenon DEF SendForget, Base
<1>4. released[i] + n <= received[i] /\ i # Root /\ forgets' = forgets \cup {h}
  BY Zenon DEF SendForget
<1>5. i \in DOMAIN inode_map
  BY <1>1, <1>4 DEF RefCounts
<1>7. h.ino = i /\ h.first = released[i] /\ h.last = released[i] + n
  BY Zenon
<1> HIDE DEF h
<1>8. \A j \in Ino : released'[j] <= received[j] /\ released[j] <= released'[j]
  BY <1>1, <1>2, <1>4 DEF RefCounts
<1>9. \A f \in forgets' :
        /\ f.ino \in DOMAIN inode_map /\ f.ino # Root
        /\ Base(f.ino) <= f.first
        /\ f.first < f.last /\ f.last <= released'[f.ino]
  BY <1>1, <1>2, <1>4, <1>5, <1>7 DEF RefCounts
<1>10. \A f, g \in forgets' :
         f.ino = g.ino /\ f # g => f.last <= g.first \/ g.last <= f.first
  BY <1>1, <1>4, <1>7 DEF RefCounts
<1>11. \A j \in DOMAIN inode_map : 0 <= Base(j) /\ Base(j) <= released'[j]
  BY <1>1, <1>2, <1>8 DEF RefCounts
<1>12. released'[Root] = 0 /\ \A j \in Ino \ DOMAIN inode_map : released'[j] = issued[j]
  BY <1>2, <1>4, <1>5, Zenon DEF RefCounts, Ino
<1>13. \A j \in Ino : received[j] <= issued[j]
  BY Zenon DEF RefCounts
<1> QED BY <1>3, <1>8, <1>9, <1>10, <1>11, <1>12, <1>13, Zenon DEF RefCounts

(***************************************************************************)
(* HookFs handles a FORGET.  If it covers the whole count, it covers every *)
(* reply since the entry was created: the kernel holds nothing and no      *)
(* other FORGET of that inode is on its way.                               *)
(***************************************************************************)
LEMMA WholeForget ==
  ASSUME TypeOK, RefCounts, NEW f \in forgets, Count(inode_map, f.ino) <= NLookup(f)
  PROVE  /\ released[f.ino] = issued[f.ino]
         /\ \A g \in forgets : g.ino = f.ino => g = f
<1>1. /\ f.ino \in Ino /\ f.first \in Nat /\ f.last \in Nat /\ NLookup(f) = f.last - f.first
      /\ issued[f.ino] \in Nat /\ released[f.ino] \in Nat /\ received[f.ino] \in Nat
      /\ Count(inode_map, f.ino) \in Nat /\ Base(f.ino) = issued[f.ino] - Count(inode_map, f.ino)
  BY Numbers, Zenon DEF NLookup, Base
<1>2. /\ Base(f.ino) <= f.first /\ f.first < f.last /\ f.last <= released[f.ino]
      /\ released[f.ino] <= received[f.ino] /\ received[f.ino] <= issued[f.ino]
  BY <1>1, Zenon DEF RefCounts
<1>3. f.first = Base(f.ino) /\ f.last = issued[f.ino] /\ released[f.ino] = issued[f.ino]
  BY <1>1, <1>2
<1>4. ASSUME NEW g \in forgets, g.ino = f.ino PROVE g = f
  <2>1. /\ g.first \in Nat /\ g.last \in Nat /\ Base(f.ino) <= g.first /\ g.first < g.last
        /\ g.last <= released[f.ino]
    BY <1>4, Numbers, Zenon DEF RefCounts
  <2>2. ~(f.last <= g.first \/ g.last <= f.first)
    BY <1>1, <1>3, <2>1
  <2> QED BY <1>4, <2>2, Zenon DEF RefCounts
<1> QED BY <1>3, <1>4, Zenon

(* InodeMap::decrease_ref drops an entry only when nothing of it is owed. *)
LEMMA DoForgetCounts ==
  ASSUME TypeOK, RefCounts, NEW f \in forgets, DoForget(f)
  PROVE  RefCounts'
<1>1. /\ DOMAIN inode_map \subseteq Ino /\ IsTable(inode_map) /\ NLookup(f) \in Int
      /\ \A g \in forgets : g.ino \in Ino
      /\ \A j \in Ino : Count(inode_map, j) \in Nat
  BY Numbers, TypeParts DEF NLookup, TableType
<1>2. /\ DOMAIN inode_map' = {j \in DOMAIN inode_map : j = f.ino => Count(inode_map, j) > NLookup(f)}
      /\ \A j \in DOMAIN inode_map' : Count(inode_map', j) = Count(inode_map, j)
  BY <1>1, Zenon DEF DoForget, DecreaseRef, Count
<1>3. forgets' = forgets \ {f} /\ UNCHANGED <<issued, received, released>>
  BY Zenon DEF DoForget
<1>4. \A j \in DOMAIN inode_map' : j \in DOMAIN inode_map /\ Base(j)' = Base(j)
  BY <1>2, <1>3, Zenon DEF Base
<1>5. f.ino # Root /\ Root \in DOMAIN inode_map'
  BY <1>2, Zenon DEF RefCounts
<1>6. \A j \in DOMAIN inode_map \ DOMAIN inode_map' : j = f.ino /\ Count(inode_map, f.ino) <= NLookup(f)
  BY <1>1, <1>2
<1>7. \A j \in Ino \ DOMAIN inode_map' : released[j] = issued[j]
  BY <1>6, WholeForget, Zenon DEF RefCounts
<1>8. \A g \in forgets' : g.ino \in DOMAIN inode_map'
  BY <1>3, <1>6, WholeForget, Zenon DEF RefCounts
<1> QED BY <1>3, <1>4, <1>5, <1>7, <1>8, Zenon DEF RefCounts

(* What no step may break: the inductive invariant of the counts. *)
IInv == TypeOK /\ RefCounts

(* The inductive step for the counts of InodeMap. *)
LEMMA StepCounts == IInv /\ [Next]_vars => IInv'
<1> SUFFICES ASSUME TypeOK, RefCounts, [Next]_vars PROVE RefCounts' /\ TypeOK'
  BY Zenon DEF IInv
<1>1. TypeOK'
  BY StepType, Zenon
<1>2. CASE UNCHANGED vars
  BY <1>1, <1>2, Zenon DEF vars, RefCounts, Base
<1>3. CASE ByName \/ ByNumber
  <2>1. Kept \/ \E i \in Ino : Granted(i)
    BY <1>3, ByNameEffect, ByNumberEffect, Zenon
  <2> QED BY <1>1, <2>1, KeptCounts, GrantedCounts, Zenon
<1>4. CASE Kernel
  BY <1>1, <1>4, CountReplyCounts, SendForgetCounts, DoForgetCounts, Zenon DEF Kernel
<1> QED BY <1>1, <1>2, <1>3, <1>4, Zenon DEF Next

(* The replies granted, the lookups held and the FORGETs on their way stay *)
(* accounted for by the reference counts of InodeMap.                      *)
THEOREM RefCountsInvariant == Spec => []RefCounts
<1>1. Init => IInv
  BY InitType, InitRefCounts, Zenon DEF IInv
<1>2. IInv => RefCounts
  BY Zenon DEF IInv
<1> QED BY <1>1, <1>2, StepCounts, PTL DEF Spec

(* InodeMap::decrease_ref never drops an inode the kernel may still name.  *)
THEOREM KernelRefsSafe == Spec => []KernelRefsBacked
<1>1. Init => IInv
  BY InitType, InitRefCounts DEF IInv
<1>2. IInv => KernelRefsBacked
  <2> SUFFICES ASSUME TypeOK, RefCounts, NEW i \in Ino, Held(i) \/ issued[i] > received[i]
               PROVE  i \in DOMAIN inode_map
    BY Zenon DEF IInv, KernelRefsBacked
  <2>1. issued[i] \in Nat /\ received[i] \in Nat /\ released[i] \in Nat
    BY Numbers, Zenon
  <2> QED BY <2>1 DEF RefCounts, Held
<1> QED BY <1>1, <1>2, StepCounts, PTL DEF Spec

-----------------------------------------------------------------------------
(***************************************************************************)
(* HookFs implements LookupContract: its table knows every inode of which  *)
(* a granted lookup is outstanding.                                        *)
(***************************************************************************)

Owed == [i \in Ino |-> Outstanding(i)]

Known == DOMAIN inode_map

(* A lookup is outstanding if the kernel holds it, is about to hold it, or *)
(* has it in a FORGET on its way.                                          *)
Covers(F, i, k) == \E f \in F : f.ino = i /\ f.first < k /\ k <= f.last

Ids(r, s, F, i) == ((r + 1) .. s) \cup UNION {(f.first + 1) .. f.last : f \in {g \in F : g.ino = i}}

Spans(O, r, s, F, i) ==
  /\ O \subseteq Int
  /\ \A k \in Int : k \in O <=> (r < k /\ k <= s) \/ Covers(F, i, k)

(* Membership in the set of outstanding lookups, spelled out. *)
LEMMA OutstandingSet ==
  ASSUME NEW r \in Nat, NEW s \in Nat, NEW F \in SUBSET Forget, NEW i
  PROVE  Spans(Ids(r, s, F, i), r, s, F, i)
<1> DEFINE P == {g \in F : g.ino = i}
           U == UNION {(f.first + 1) .. f.last : f \in P}
<1>1. \A f \in F : f.first \in Nat /\ f.last \in Nat
  BY Zenon DEF Forget
<1>2. U \subseteq Int
  OBVIOUS
<1>3. \A k \in Int : k \in U <=> \E f \in P : f.first < k /\ k <= f.last
  BY <1>1
<1>4. \A k \in Int : k \in U <=> Covers(F, i, k)
  BY <1>3, Zenon DEF Covers
<1>5. Ids(r, s, F, i) = ((r + 1) .. s) \cup U
  BY Zenon DEF Ids
<1> HIDE DEF U
<1>6. \A k \in Int : k \in (r + 1) .. s <=> r < k /\ k <= s
  OBVIOUS
<1>7. (r + 1) .. s \subseteq Int
  OBVIOUS
<1> QED BY <1>2, <1>4, <1>5, <1>6, <1>7, Zenon DEF Spans

(* The same of the lookups HookFs owes. *)
LEMMA OutstandingIff ==
  ASSUME TypeOK, NEW i \in Ino
  PROVE  /\ Outstanding(i) \subseteq Int
         /\ \A k \in Int : k \in Outstanding(i) <=> (released[i] < k /\ k <= issued[i]) \/ Covers(forgets, i, k)
<1>1. released[i] \in Nat /\ issued[i] \in Nat /\ forgets \in SUBSET Forget
  BY Zenon DEF TypeOK
<1>2. Outstanding(i) = Ids(released[i], issued[i], forgets, i)
  BY Zenon DEF Outstanding, Ids
<1>3. Spans(Outstanding(i), released[i], issued[i], forgets, i)
  BY <1>1, <1>2, OutstandingSet, Zenon
<1> QED BY <1>3, Zenon DEF Spans

(* And after a step. *)
LEMMA OutstandingIffPrimed ==
  ASSUME TypeOK', NEW i \in Ino
  PROVE  /\ Outstanding(i)' \subseteq Int
         /\ \A k \in Int : k \in Outstanding(i)' <=> (released'[i] < k /\ k <= issued'[i]) \/ Covers(forgets', i, k)
<1>1. released'[i] \in Nat /\ issued'[i] \in Nat /\ forgets' \in SUBSET Forget
  BY Zenon DEF TypeOK
<1>2. Outstanding(i)' = Ids(released'[i], issued'[i], forgets', i)
  BY Zenon DEF Outstanding, Ids
<1>3. Spans(Outstanding(i)', released'[i], issued'[i], forgets', i)
  BY <1>1, <1>2, OutstandingSet, Zenon
<1> QED BY <1>3, Zenon DEF Spans

(* HookFs::new starts where the contract starts: only the mount point is known. *)
LEMMA InitContract == Init => Contract!Init
<1> SUFFICES ASSUME Init PROVE Known = {Root} /\ Owed = [i \in Ino |-> {}]
  BY Zenon DEF Contract!Init, Known, Owed
<1>1. Known = {Root}
  BY Zenon DEF Known, Init, InsertPath
<1>2. \A i \in Ino : Outstanding(i) = {}
  BY DEF Init, Outstanding
<1> QED BY <1>1, <1>2, Zenon DEF Owed

(* Two sets of lookups with the same members are the same. *)
LEMMA SameOwed ==
  ASSUME TypeOK, TypeOK',
         \A i \in Ino : \A k \in Int : k \in Outstanding(i)' <=> k \in Outstanding(i)
  PROVE  Owed' = Owed
<1>1. \A i \in Ino : Outstanding(i)' = Outstanding(i)
  BY OutstandingIff, OutstandingIffPrimed, Zenon
<1> QED BY <1>1, Zenon DEF Owed

(* An entry reply of HookFs is a Grant of the contract. *)
LEMMA GrantedContract ==
  ASSUME IInv, IInv', NEW i \in Ino, Granted(i)
  PROVE  Contract!Grant(i)
<1> USE DEF IInv
<1> DEFINE k == issued[i] + 1
<1>1. /\ issued[i] \in Nat /\ released[i] \in Nat /\ released[i] <= issued[i]
      /\ issued[i] < MaxLookups /\ MaxLookups \in Nat
  BY Numbers, HookFsAssumption DEF Granted, RefCounts
<1>2. \A j \in Ino : issued'[j] = IF j = i THEN k ELSE issued[j]
  BY Zenon DEF Granted, TypeOK
<1>3. released' = released /\ forgets' = forgets
  BY Zenon DEF Granted
<1>4. ~Covers(forgets, i, k)
  BY <1>1, Numbers DEF Covers, RefCounts
<1>5. k \in 1..MaxLookups /\ k \notin Outstanding(i)
  BY <1>1, <1>4, OutstandingIff
<1>6. Outstanding(i)' = Outstanding(i) \cup {k}
  <2>1. \A l \in Int : l \in Outstanding(i)' <=> l \in Outstanding(i) \/ l = k
    BY <1>1, <1>2, <1>3, OutstandingIff, OutstandingIffPrimed
  <2> QED BY <1>1, <2>1, OutstandingIff, OutstandingIffPrimed
<1>7. \A j \in Ino \ {i} : Outstanding(j)' = Outstanding(j)
  BY <1>2, <1>3, Zenon DEF Outstanding
<1>8. Owed' = [Owed EXCEPT ![i] = @ \cup {k}]
  BY <1>6, <1>7, Zenon DEF Owed
<1>9. Known' = Known \cup {i}
  BY Zenon DEF Granted, Known
<1> HIDE DEF k
<1> QED BY <1>5, <1>8, <1>9, Zenon DEF Contract!Grant, Owed, Known

(* A FORGET on its way still counts as owed: sending it changes nothing. *)
LEMMA SendForgetContract ==
  ASSUME IInv, IInv', NEW i \in Ino, NEW n \in 1..MaxLookups, SendForget(i, n)
  PROVE  Owed' = Owed /\ Known' = Known
<1> USE DEF IInv
<1> DEFINE h == [ino |-> i, first |-> released[i], last |-> released[i] + n]
<1>1. /\ n \in Nat /\ n > 0 /\ released[i] + n <= issued[i]
      /\ \A j \in Ino : issued[j] \in Nat /\ released[j] \in Nat /\ received[j] \in Nat
  BY Numbers, HookFsAssumption DEF SendForget, RefCounts
<1>2. \A j \in Ino : released'[j] = IF j = i THEN released[i] + n ELSE released[j]
  BY Zenon DEF SendForget, TypeOK
<1>3. issued' = issued /\ forgets' = forgets \cup {h} /\ inode_map' = inode_map
  BY Zenon DEF SendForget
<1>4. h.ino = i /\ h.first = released[i] /\ h.last = released[i] + n
  BY Zenon
<1> HIDE DEF h
<1>5. \A j \in Ino : \A k \in Int :
        Covers(forgets', j, k) <=> Covers(forgets, j, k) \/ (j = i /\ released[i] < k /\ k <= released[i] + n)
  BY <1>3, <1>4, Zenon DEF Covers
<1>6. \A j \in Ino : \A k \in Int : k \in Outstanding(j)' <=> k \in Outstanding(j)
  <2> SUFFICES ASSUME NEW j \in Ino, NEW k \in Int PROVE k \in Outstanding(j)' <=> k \in Outstanding(j)
    BY Zenon
  <2>1. k \in Outstanding(j) <=> (released[j] < k /\ k <= issued[j]) \/ Covers(forgets, j, k)
    BY OutstandingIff, Zenon
  <2>2. k \in Outstanding(j)' <=> (released'[j] < k /\ k <= issued[j]) \/ Covers(forgets', j, k)
    BY <1>3, OutstandingIffPrimed, Zenon
  <2>3. CASE j = i
    BY <1>1, <1>2, <1>5, <2>1, <2>2, <2>3
  <2>4. CASE j # i
    BY <1>2, <1>5, <2>1, <2>2, <2>4, Zenon
  <2> QED BY <2>3, <2>4, Zenon
<1> QED BY <1>3, <1>6, SameOwed, Zenon DEF Known

(* InodeMap::decrease_ref is a GiveBack of the contract. *)
LEMMA DoForgetContract ==
  ASSUME IInv, IInv', NEW f \in forgets, DoForget(f)
  PROVE  f.ino \in Ino /\ Contract!GiveBack(f.ino)
<1> USE DEF IInv
<1> DEFINE i == f.ino
           S == (f.first + 1) .. f.last
<1>1. /\ i \in Ino /\ f.first \in Nat /\ f.last \in Nat /\ released[i] \in Nat
      /\ \A g \in forgets : g.first \in Nat /\ g.last \in Nat
  BY Numbers, Zenon
<1>2. forgets' = forgets \ {f} /\ issued' = issued /\ released' = released
  BY Zenon DEF DoForget
<1>3. \A k \in Int : Covers(forgets', i, k) <=> Covers(forgets, i, k) /\ k \notin S
  <2> SUFFICES ASSUME NEW k \in Int PROVE Covers(forgets', i, k) <=> Covers(forgets, i, k) /\ k \notin S
    BY Zenon
  <2>1. k \in S <=> f.first < k /\ k <= f.last
    BY <1>1
  <2>2. \A g \in forgets : g.ino = i /\ g # f /\ g.first < k /\ k <= g.last => k \notin S
    BY <1>1, <2>1 DEF RefCounts
  <2> QED BY <1>2, <2>1, <2>2, Zenon DEF Covers
<1>4. \A k \in S : k \in Int /\ k <= released[i] /\ Covers(forgets, i, k)
  BY <1>1 DEF Covers, RefCounts
<1>5. Outstanding(i)' = Outstanding(i) \ S
  <2>1. \A k \in Int : k \in Outstanding(i)' <=> k \in Outstanding(i) /\ k \notin S
    <3> SUFFICES ASSUME NEW k \in Int PROVE k \in Outstanding(i)' <=> k \in Outstanding(i) /\ k \notin S
      BY Zenon
    <3>1. k \in Outstanding(i) <=> (released[i] < k /\ k <= issued[i]) \/ Covers(forgets, i, k)
      BY <1>1, OutstandingIff, Zenon
    <3>2. k \in Outstanding(i)' <=> (released[i] < k /\ k <= issued[i]) \/ Covers(forgets', i, k)
      BY <1>1, <1>2, OutstandingIffPrimed, Zenon
    <3>3. k \in S => ~(released[i] < k)
      BY <1>1, <1>4
    <3> QED BY <1>3, <3>1, <3>2, <3>3, Zenon
  <2> QED BY <1>1, <2>1, OutstandingIff, OutstandingIffPrimed, Zenon
<1>6. S \subseteq Outstanding(i)
  BY <1>1, <1>4, OutstandingIff, Zenon
<1>7. \A j \in Ino \ {i} : Outstanding(j)' = Outstanding(j)
  <2> SUFFICES ASSUME NEW j \in Ino, j # i PROVE Outstanding(j)' = Outstanding(j)
    BY Zenon
  <2>1. {g \in forgets' : g.ino = j} = {g \in forgets : g.ino = j}
    BY <1>2, Zenon
  <2> QED BY <1>2, <2>1, Zenon DEF Outstanding
<1>8. Owed' = [Owed EXCEPT ![i] = @ \ S]
  BY <1>5, <1>7, Zenon DEF Owed
<1>9. Known' = Known \/ (Known' = Known \ {i} /\ Count(inode_map, i) <= NLookup(f))
  <2>1. Known' = {j \in Known : j = i => inode_map[j].ref_count > NLookup(f)}
    BY Zenon DEF DoForget, DecreaseRef, Known
  <2>2. NLookup(f) \in Int /\ Count(inode_map, i) \in Int
    BY <1>1, Numbers DEF NLookup
  <2>3. CASE i \in Known /\ ~(Count(inode_map, i) <= NLookup(f))
    BY <2>1, <2>2, <2>3 DEF Count, Known
  <2>4. CASE i \notin Known
    BY <2>1, <2>4, Zenon
  <2>5. CASE i \in Known /\ Count(inode_map, i) <= NLookup(f)
    BY <2>1, <2>2, <2>5, Zenon DEF Count, Known
  <2> QED BY <2>3, <2>4, <2>5, Zenon
<1>10. Count(inode_map, i) <= NLookup(f) => S = Outstanding(i)
  <2> SUFFICES ASSUME Count(inode_map, i) <= NLookup(f) PROVE Outstanding(i) \subseteq S
    BY <1>6, Zenon
  <2>1. released[i] = issued[i] /\ \A g \in forgets : g.ino = i => g = f
    BY WholeForget, Zenon
  <2>2. \A k \in Int : k \in Outstanding(i) => f.first < k /\ k <= f.last
    BY <1>1, <2>1, OutstandingIff DEF Covers
  <2> QED BY <1>1, <2>2, OutstandingIff
<1>11. i # Root
  BY Zenon DEF RefCounts
<1> HIDE DEF S, i
<1>12. S \in SUBSET Owed[i]
  BY <1>1, <1>6, Zenon DEF Owed
<1>13. Owed[i] = Outstanding(i)
  BY <1>1, Zenon DEF Owed
<1>14. Contract!GiveBack(i)
  BY <1>8, <1>9, <1>10, <1>11, <1>12, <1>13, Zenon DEF Contract!GiveBack, Owed, Known
<1> QED BY <1>1, <1>14, Zenon DEF i

(* Every step of HookFs is a step of the contract or changes nothing it sees. *)
LEMMA StepContract ==
  IInv /\ IInv' /\ [Next]_vars => [Contract!Next]_(Contract!vars)
<1> SUFFICES ASSUME IInv, IInv', [Next]_vars
             PROVE  Contract!Next \/ (Known' = Known /\ Owed' = Owed)
  BY Zenon DEF Contract!vars, Known, Owed
<1>1. CASE UNCHANGED vars
  BY <1>1, Zenon DEF vars, Known, Owed, Outstanding
<1>2. CASE ByName \/ ByNumber
  <2>1. Kept \/ \E i \in Ino : Granted(i)
    BY <1>2, ByNameEffect, ByNumberEffect, Zenon DEF IInv
  <2>2. CASE Kept
    <3>1. Owed' = Owed
      BY <2>2, Zenon DEF Kept, kernel, Owed, Outstanding
    <3>2. ASSUME NEW i \in Ino, Known' = Known \cup {i} PROVE Contract!Learn(i)
      BY <3>1, <3>2, Zenon DEF Contract!Learn, Owed, Known
    <3> QED BY <2>2, <3>1, <3>2, Zenon DEF Kept, Known, Contract!Next
  <2>3. CASE \E i \in Ino : Granted(i)
    BY <2>3, GrantedContract, Zenon DEF Contract!Next
  <2> QED BY <2>1, <2>2, <2>3, Zenon
<1>3. ASSUME NEW i \in Ino, CountReply(i) PROVE Known' = Known /\ Owed' = Owed
  BY <1>3, Zenon DEF CountReply, Known, Owed, Outstanding
<1>4. ASSUME NEW f \in forgets, DoForget(f) PROVE Contract!Next
  BY <1>4, DoForgetContract, Zenon DEF Contract!Next
<1>5. CASE Kernel
  BY <1>3, <1>4, <1>5, SendForgetContract, Zenon DEF Kernel
<1> QED BY <1>1, <1>2, <1>5, Zenon DEF Next

(* Refinement: InodeMap, whose count is never lowered by a partial FORGET, *)
(* keeps the contract between a FUSE daemon and the kernel.                *)
THEOREM ImplementsContract == Spec => KeepsContract
<1>1. Init => IInv
  BY InitType, InitRefCounts DEF IInv
<1> QED BY <1>1, StepCounts, InitContract, StepContract, PTL DEF Spec, KeepsContract, Contract!Spec
=============================================================================
