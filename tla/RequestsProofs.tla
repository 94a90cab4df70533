--------------------------- MODULE RequestsProofs ---------------------------
(***************************************************************************)
(* Proofs about Requests, for every number of requests in progress and of  *)
(* readers a lock admits.  What a handler holds at each of its steps is    *)
(* derived from its parts, as in Hoare logic: Triple(A, s, B) says that a  *)
(* task that holds the locks A takes the steps s in the order of the locks *)
(* and holds B at their end.                                               *)
(***************************************************************************)
EXTENDS Requests, TLAPS, FiniteSetTheorems

HandlerStep ==
  [op : {"acquire"}, lock : Locks, permits : 1..MaxReads] \cup [op : {"drop"}, lock : Locks]
    \cup [op : {"work"}] \cup [op : {"inject"}, skip : Nat]

(* From the locks held[i] before step i to those after it. *)
Rule(s, a, i) ==
  /\ s[i].op = "acquire" => a[i + 1] = a[i] \cup {s[i].lock} /\ \A l \in a[i] : Rank[l] < Rank[s[i].lock]
  /\ s[i].op = "drop" => a[i + 1] = a[i] \ {s[i].lock}
  /\ s[i].op = "work" => a[i + 1] = a[i]
  /\ s[i].op = "inject" => /\ i + s[i].skip <= Len(s)
                           /\ a[i + 1] = a[i] /\ a[i + s[i].skip + 1] = a[i]

Annotates(a, s) ==
  /\ s \in Seq(HandlerStep)
  /\ a \in [1..(Len(s) + 1) -> SUBSET Locks]
  /\ \A i \in 1..Len(s) : Rule(s, a, i)

Triple(A, s, B) == \E a : Annotates(a, s) /\ a[1] = A /\ a[Len(s) + 1] = B

(* A concatenation, element by element. *)
LEMMA ConcatProperties ==
  ASSUME NEW S, NEW s \in Seq(S), NEW t \in Seq(S)
  PROVE  /\ s \o t \in Seq(S) /\ Len(s \o t) = Len(s) + Len(t) /\ Len(t) \in Nat
         /\ \A i \in 1..(Len(s) + Len(t)) : (s \o t)[i] = IF i <= Len(s) THEN s[i] ELSE t[i - Len(s)]
OBVIOUS

(* Nothing to do. *)
LEMMA EmptyTriple ==
  \A A, B : Triple(A, <<>>, B) => A = B
BY DEF Triple

(* One step: a lock is taken by a task that holds only earlier ones. *)
LEMMA AcquireTriple ==
  ASSUME NEW A \in SUBSET Locks, NEW l \in Locks, NEW n \in 1..MaxReads, \A m \in A : Rank[m] < Rank[l]
  PROVE  Triple(A, Acquire(l, n), A \cup {l})
<1> DEFINE s == Acquire(l, n)
           a == [i \in 1..2 |-> IF i = 1 THEN A ELSE A \cup {l}]
<1>1. s \in Seq(HandlerStep) /\ Len(s) = 1 /\ s[1].op = "acquire" /\ s[1].lock = l
  BY DEF Acquire, HandlerStep
<1>2. Rule(s, a, 1)
  BY <1>1 DEF Rule
<1>3. a \in [1..(1 + 1) -> SUBSET Locks]
  OBVIOUS
<1>4. Annotates(a, s)
  BY <1>1, <1>2, <1>3 DEF Annotates
<1> QED BY <1>1, <1>4 DEF Triple

(* One step: a guard is dropped. *)
LEMMA DropTriple ==
  ASSUME NEW A \in SUBSET Locks, NEW l \in Locks
  PROVE  Triple(A, Drop(l), A \ {l})
<1> DEFINE s == Drop(l)
           a == [i \in 1..2 |-> IF i = 1 THEN A ELSE A \ {l}]
<1>1. s \in Seq(HandlerStep) /\ Len(s) = 1 /\ s[1].op = "drop" /\ s[1].lock = l
  BY DEF Drop, HandlerStep
<1>2. Rule(s, a, 1)
  BY <1>1 DEF Rule
<1>3. a \in [1..(1 + 1) -> SUBSET Locks]
  OBVIOUS
<1>4. Annotates(a, s)
  BY <1>1, <1>2, <1>3 DEF Annotates
<1> QED BY <1>1, <1>4 DEF Triple

(* One step: something else is awaited. *)
LEMMA WorkTriple ==
  ASSUME NEW A \in SUBSET Locks
  PROVE  Triple(A, Work, A)
<1> DEFINE a == [i \in 1..2 |-> A]
<1>1. Work \in Seq(HandlerStep) /\ Len(Work) = 1 /\ Work[1].op = "work"
  BY DEF Work, HandlerStep
<1>2. Rule(Work, a, 1)
  BY <1>1 DEF Rule
<1>3. a \in [1..(1 + 1) -> SUBSET Locks]
  OBVIOUS
<1>4. Annotates(a, Work)
  BY <1>1, <1>2, <1>3 DEF Annotates
<1> QED BY <1>1, <1>4 DEF Triple

(* Where a skip of k steps from step i of n leads once m steps are put before them. *)
LEMMA SkipIndex ==
  \A m, n, k \in Nat : \A i \in 1..n : i + k <= n =>
    /\ i + k + 1 \in 1..(n + 1) /\ m + i + k <= m + n
    /\ m + i + k + 1 = m + (i + k + 1)
OBVIOUS

(* One part of a handler after another. *)
LEMMA Compose ==
  ASSUME NEW A, NEW s, NEW B, NEW t, NEW C, Triple(A, s, B), Triple(B, t, C)
  PROVE  Triple(A, s \o t, C)
<1>1. PICK a : Annotates(a, s) /\ a[1] = A /\ a[Len(s) + 1] = B
  BY DEF Triple
<1>2. PICK b : Annotates(b, t) /\ b[1] = B /\ b[Len(t) + 1] = C
  BY DEF Triple
<1> DEFINE m == Len(s)
           n == Len(t)
           u == s \o t
           c == [i \in 1..(m + n + 1) |-> IF i <= m THEN a[i] ELSE b[i - m]]
<1>3. s \in Seq(HandlerStep) /\ t \in Seq(HandlerStep) /\ m \in Nat /\ n \in Nat
  BY <1>1, <1>2 DEF Annotates
<1>4. /\ u \in Seq(HandlerStep) /\ Len(u) = m + n
      /\ \A i \in 1..m : u[i] = s[i]
      /\ \A j \in 1..n : u[m + j] = t[j]
  BY <1>3
<1>5. a \in [1..(m + 1) -> SUBSET Locks] /\ b \in [1..(n + 1) -> SUBSET Locks]
  BY <1>1, <1>2 DEF Annotates
<1> HIDE DEF u, m, n
<1>6. /\ \A i \in 1..(m + 1) : c[i] = a[i]
      /\ \A j \in 1..(n + 1) : c[m + j] = b[j]
      /\ c \in [1..(m + n + 1) -> SUBSET Locks]
  <2>1. a[m + 1] = b[1]
    BY <1>1, <1>2, Zenon DEF m
  <2> QED BY <1>3, <1>5, <2>1
<1> HIDE DEF c
<1>7. ASSUME NEW i \in 1..m PROVE Rule(u, c, i)
  <2>1. Rule(s, a, i) /\ u[i] = s[i] /\ s[i] \in HandlerStep
    BY <1>1, <1>3, <1>4, <1>7 DEF Annotates, m
  <2>2. c[i] = a[i] /\ c[i + 1] = a[i + 1]
    BY <1>3, <1>6
  <2>3. ASSUME s[i].op = "inject" PROVE i + s[i].skip <= Len(u) /\ c[i + s[i].skip + 1] = c[i]
    <3>1. s[i].skip \in Nat
      BY <2>1, <2>3 DEF HandlerStep
    <3>2. i + s[i].skip <= m /\ a[i + s[i].skip + 1] = a[i]
      BY <2>1, <2>3 DEF Rule, m
    <3>3. i + s[i].skip + 1 \in 1..(m + 1) /\ i + s[i].skip <= m + n
      <4>1. i + s[i].skip <= m + n
        BY <1>3, <3>1, <3>2
      <4> QED BY <1>3, <3>1, <3>2, <4>1, SkipIndex, Zenon
    <3> QED BY <1>4, <1>6, <2>2, <3>2, <3>3, Zenon
  <2> QED BY <2>1, <2>2, <2>3 DEF Rule
<1>8. ASSUME NEW j \in 1..n PROVE Rule(u, c, m + j)
  <2>1. Rule(t, b, j) /\ u[m + j] = t[j] /\ t[j] \in HandlerStep
    BY <1>2, <1>3, <1>4, <1>8 DEF Annotates, n
  <2>2. c[m + j] = b[j] /\ c[m + j + 1] = b[j + 1]
    BY <1>3, <1>6
  <2>3. ASSUME t[j].op = "inject" PROVE m + j + t[j].skip <= Len(u) /\ c[m + j + t[j].skip + 1] = c[m + j]
    <3>1. t[j].skip \in Nat
      BY <2>1, <2>3 DEF HandlerStep
    <3>2. j + t[j].skip <= n /\ b[j + t[j].skip + 1] = b[j]
      BY <2>1, <2>3 DEF Rule, n
    <3>3. /\ j + t[j].skip + 1 \in 1..(n + 1) /\ m + j + t[j].skip <= m + n
          /\ m + j + t[j].skip + 1 = m + (j + t[j].skip + 1)
      BY <1>3, <3>1, <3>2, SkipIndex, Zenon
    <3> QED BY <1>4, <1>6, <2>2, <3>2, <3>3, Zenon
  <2> QED BY <2>1, <2>2, <2>3 DEF Rule
<1>9. ASSUME NEW i \in 1..(m + n) PROVE Rule(u, c, i)
  <2>1. CASE i <= m
    BY <1>7, <2>1, <1>3
  <2>2. CASE ~(i <= m)
    <3>1. i - m \in 1..n /\ m + (i - m) = i
      BY <1>3, <2>2
    <3> QED BY <1>8, <3>1
  <2> QED BY <2>1, <2>2
<1>10. Annotates(c, u)
  BY <1>4, <1>6, <1>9 DEF Annotates
<1>11. c[1] = A /\ c[m + n + 1] = C
  <2>1. 1 \in 1..(m + 1) /\ n + 1 \in 1..(n + 1) /\ m + n + 1 = m + (n + 1)
    BY <1>3
  <2>2. b[n + 1] = C
    BY <1>2, Zenon DEF n
  <2>3. c[1] = a[1] /\ c[m + (n + 1)] = b[n + 1]
    BY <1>6, <2>1, Zenon
  <2> QED BY <1>1, <2>1, <2>2, <2>3
<1> QED BY <1>4, <1>10, <1>11 DEF Triple, u

(* A step put before others. *)
LEMMA Prepend ==
  ASSUME NEW S, NEW h \in Seq(S), NEW s \in Seq(S), Len(h) = 1
  PROVE  /\ h \o s \in Seq(S) /\ Len(h \o s) = Len(s) + 1
         /\ (h \o s)[1] = h[1] /\ \A i \in 1..Len(s) : (h \o s)[i + 1] = s[i]
<1> DEFINE n == Len(s)
           u == h \o s
<1>1. /\ u \in Seq(S) /\ Len(u) = Len(h) + n /\ n \in Nat
      /\ \A i \in 1..(Len(h) + n) : u[i] = IF i <= Len(h) THEN h[i] ELSE s[i - Len(h)]
  BY ConcatProperties, Zenon
<1> HIDE DEF n, u
<1>2. \A i \in 1..n : u[i + 1] = s[i]
  BY <1>1
<1>3. Len(u) = n + 1 /\ u[1] = h[1]
  BY <1>1
<1> QED BY <1>1, <1>2, <1>3, Zenon DEF n, u

(* What follows a test of the switch leaves the locks as they are, so that *)
(* skipping it makes no difference.                                        *)
LEMMA IfEnabledTriple ==
  ASSUME NEW A \in SUBSET Locks, NEW s, Triple(A, s, A)
  PROVE  Triple(A, IfEnabled(s), A)
<1>1. PICK a : Annotates(a, s) /\ a[1] = A /\ a[Len(s) + 1] = A
  BY DEF Triple
<1> DEFINE m == Len(s)
           u == IfEnabled(s)
           c == [i \in 1..(m + 2) |-> IF i = 1 THEN A ELSE a[i - 1]]
<1>2. s \in Seq(HandlerStep) /\ m \in Nat
  BY <1>1 DEF Annotates
<1>3. /\ u \in Seq(HandlerStep) /\ Len(u) = m + 1
      /\ u[1] = [op |-> "inject", skip |-> m] /\ \A i \in 1..m : u[i + 1] = s[i]
  <2> DEFINE h == <<[op |-> "inject", skip |-> m]>>
  <2>1. h \in Seq(HandlerStep) /\ Len(h) = 1 /\ h[1] = [op |-> "inject", skip |-> m]
    BY <1>2 DEF HandlerStep
  <2>2. u = h \o s
    BY DEF IfEnabled
  <2> HIDE DEF h, u
  <2> QED BY <1>2, <2>1, <2>2, Prepend DEF m
<1>4. a \in [1..(m + 1) -> SUBSET Locks]
  BY <1>1 DEF Annotates
<1> HIDE DEF u, m
<1>5. /\ c[1] = A /\ \A j \in 1..(m + 1) : c[j + 1] = a[j]
      /\ c \in [1..(m + 1 + 1) -> SUBSET Locks]
  BY <1>2, <1>4
<1> HIDE DEF c
<1>6. Rule(u, c, 1)
  <2>1. c[2] = A /\ c[m + 2] = A
    BY <1>1, <1>2, <1>5 DEF m
  <2> QED BY <1>2, <1>3, <1>5, <2>1 DEF Rule
<1>7. ASSUME NEW j \in 1..m PROVE Rule(u, c, j + 1)
  <2>1. Rule(s, a, j) /\ u[j + 1] = s[j] /\ s[j] \in HandlerStep
    BY <1>1, <1>2, <1>3, <1>7 DEF Annotates, m
  <2>2. c[j + 1] = a[j] /\ c[j + 1 + 1] = a[j + 1]
    BY <1>2, <1>5
  <2>3. ASSUME s[j].op = "inject" PROVE j + 1 + s[j].skip <= Len(u) /\ c[j + 1 + s[j].skip + 1] = c[j + 1]
    <3>1. s[j].skip \in Nat
      BY <2>1, <2>3 DEF HandlerStep
    <3>2. j + s[j].skip <= m /\ a[j + s[j].skip + 1] = a[j]
      BY <2>1, <2>3 DEF Rule, m
    <3>3. j + s[j].skip + 1 \in 1..(m + 1) /\ j + 1 + s[j].skip <= m + 1
          /\ j + 1 + s[j].skip + 1 = (j + s[j].skip + 1) + 1
      BY <1>2, <3>1, <3>2
    <3> QED BY <1>3, <1>5, <2>2, <3>2, <3>3, Zenon
  <2> QED BY <2>1, <2>2, <2>3 DEF Rule
<1>8. ASSUME NEW i \in 1..(m + 1) PROVE Rule(u, c, i)
  <2>1. i # 1 => i - 1 \in 1..m /\ (i - 1) + 1 = i
    BY <1>2
  <2> QED BY <1>6, <1>7, <2>1
<1>9. Annotates(c, u)
  BY <1>2, <1>3, <1>5, <1>8 DEF Annotates
<1>10. c[m + 1 + 1] = A
  BY <1>1, <1>2, <1>5 DEF m
<1> QED BY <1>3, <1>5, <1>9, <1>10 DEF Triple, u

-----------------------------------------------------------------------------
(* The macros and the handlers. *)

(* What the locks are called and in which order they are taken. *)
LEMMA LockNames ==
  /\ {} \in SUBSET Locks
  /\ \A l \in Locks : l \in {"inode_map", "opened_files", "opened_dirs", "injector"} /\ {l} \in SUBSET Locks
  /\ "inode_map" \in Locks /\ "opened_files" \in Locks /\ "opened_dirs" \in Locks /\ "injector" \in Locks
  /\ Rank["inode_map"] = 1 /\ Rank["opened_files"] = 2 /\ Rank["opened_dirs"] = 2 /\ Rank["injector"] = 3
BY DEF Locks, Rank

(* lock.read().await and lock.write().await take a reader's permit, or all. *)
LEMMA ReadWriteTriple ==
  ASSUME NEW A \in SUBSET Locks, NEW l \in Locks, \A m \in A : Rank[m] < Rank[l]
  PROVE  Triple(A, Read(l), A \cup {l}) /\ Triple(A, Write(l), A \cup {l})
<1>1. 1 \in 1..MaxReads /\ MaxReads \in 1..MaxReads
  BY RequestsAssumption
<1> QED BY <1>1, AcquireTriple, Zenon DEF Read, Write

(* The injector is asked by a task that does not hold its lock. *)
LEMMA InjectTriple ==
  ASSUME NEW A \in SUBSET Locks, "injector" \notin A
  PROVE  Triple(A, Inject, A) /\ Triple(A, InjectInto, A) /\ Triple(A, GetFileAttr, A)
<1> DEFINE B == A \cup {"injector"}
<1>1. Triple(A, Read("injector"), B)
  <2>1. \A m \in A : Rank[m] < Rank["injector"]
    BY LockNames
  <2> QED BY <2>1, LockNames, ReadWriteTriple, Zenon
<1>2. Triple(B, Work, B) /\ Triple(B, Drop("injector"), A)
  <2>1. B \in SUBSET Locks /\ B \ {"injector"} = A
    BY LockNames, Zenon
  <2> QED BY <2>1, LockNames, WorkTriple, DropTriple, Zenon
<1> HIDE DEF B
<1>3. Triple(A, Read("injector") \o Work \o Drop("injector"), A)
  BY <1>1, <1>2, Compose, Zenon
<1>4. Triple(A, Read("injector") \o Drop("injector"), A)
  BY <1>1, <1>2, Compose, Zenon
<1>5. Triple(A, Inject, A) /\ Triple(A, InjectInto, A)
  BY <1>3, <1>4, IfEnabledTriple, Zenon DEF Inject, InjectInto
<1> QED BY <1>5, WorkTriple, Compose, Zenon DEF GetFileAttr

(* The guard under which a macro finds the path is dropped before it asks  *)
(* the injector.                                                           *)
LEMMA InjectWithTriple ==
  ASSUME NEW l \in Locks
  PROVE  /\ Triple({}, Read(l), {l}) /\ Triple({}, Write(l), {l}) /\ Triple({l}, Drop(l), {})
         /\ Triple({l}, Work, {l})
         /\ l # "injector" => /\ Triple({}, InjectWith(l), {})
                              /\ Triple({l}, Inject, {l}) /\ Triple({l}, InjectInto, {l})
                              /\ Triple({l}, GetFileAttr, {l})
<1>1. {} \cup {l} = {l} /\ {l} \ {l} = {} /\ {} \in SUBSET Locks /\ {l} \in SUBSET Locks
  BY Zenon
<1>2. \A m \in {} : Rank[m] < Rank[l]
  BY Zenon
<1>3. Triple({}, Read(l), {l}) /\ Triple({}, Write(l), {l})
  BY <1>1, <1>2, ReadWriteTriple
<1>4. Triple({l}, Drop(l), {}) /\ Triple({l}, Work, {l})
  BY <1>1, DropTriple, WorkTriple
<1>5. ASSUME l # "injector"
      PROVE  Triple({l}, Inject, {l}) /\ Triple({l}, InjectInto, {l}) /\ Triple({l}, GetFileAttr, {l})
  BY <1>1, <1>5, InjectTriple, Zenon
<1>6. Triple({}, Inject, {})
  BY <1>1, InjectTriple, Zenon
<1>7. Triple({}, Read(l) \o Drop(l) \o Inject, {})
  BY <1>3, <1>4, <1>6, Compose, Zenon
<1> QED BY <1>3, <1>4, <1>5, <1>7, Zenon DEF InjectWith

(* The tables of open files and directories under the lock of the inodes. *)
LEMMA OpenTableTriple ==
  ASSUME NEW l \in {"opened_files", "opened_dirs"}
  PROVE  Triple({"inode_map"}, Write(l), {"inode_map", l}) /\ Triple({"inode_map", l}, Drop(l), {"inode_map"})
<1> DEFINE A == {"inode_map"}
           B == {"inode_map", l}
<1>1. /\ A \in SUBSET Locks /\ B \in SUBSET Locks /\ l \in Locks /\ A \cup {l} = B /\ B \ {l} = A
      /\ \A m \in A : Rank[m] < Rank[l]
  BY LockNames
<1>2. Triple(A, Write(l), A \cup {l}) /\ Triple(B, Drop(l), B \ {l})
  BY <1>1, ReadWriteTriple, DropTriple, Zenon
<1> QED BY <1>1, <1>2, Zenon

(* inject_write_data! looks into the table of open files while it asks the *)
(* injector.                                                               *)
LEMMA InjectWriteDataTriple == Triple({}, InjectWriteData, {})
<1> DEFINE A == {"opened_files"}
           B == {"opened_files", "injector"}
<1>1. /\ A \in SUBSET Locks /\ B \in SUBSET Locks /\ A \cup {"injector"} = B /\ B \ {"injector"} = A
      /\ \A m \in A : Rank[m] < Rank["injector"]
  BY LockNames
<1>2. Triple(A, Read("injector"), B) /\ Triple(B, Drop("injector"), A)
  <2>1. Triple(A, Read("injector"), A \cup {"injector"}) /\ Triple(B, Drop("injector"), B \ {"injector"})
    BY <1>1, LockNames, ReadWriteTriple, DropTriple, Zenon
  <2> QED BY <1>1, <2>1, Zenon
<1>3. Triple({}, Read("opened_files"), A) /\ Triple(A, Drop("opened_files"), {})
  BY LockNames, InjectWithTriple, Zenon
<1> HIDE DEF A, B
<1> QED BY <1>2, <1>3, Compose, Zenon DEF InjectWriteData

(* Every handler starts and ends without a lock. *)
Well(s) == Triple({}, s, {})

(* Those on the inode table. *)
LEMMA TableHandlers ==
  /\ Well(Lookup) /\ Well(Forget) /\ Well(Mknod) /\ Well(Mkdir) /\ Well(Symlink)
  /\ Well(Unlink) /\ Well(Rmdir) /\ Well(Rename) /\ Well(Link)
  /\ Well(Getattr) /\ Well(Setattr) /\ Well(Readlink) /\ Well(Setxattr) /\ Well(Fsyncdir)
<1> DEFINE I == {"inode_map"}
<1>1. /\ Triple({}, Read("inode_map"), I) /\ Triple({}, Write("inode_map"), I) /\ Triple(I, Drop("inode_map"), {})
      /\ Triple(I, Work, I) /\ Triple({}, InjectWith("inode_map"), {})
      /\ Triple(I, Inject, I) /\ Triple(I, InjectInto, I) /\ Triple(I, GetFileAttr, I)
  BY LockNames, InjectWithTriple
<1> HIDE DEF I
<1>2. /\ Triple({}, InjectWith("inode_map") \o Write("inode_map"), I)
      /\ Triple({}, InjectWith("inode_map") \o Read("inode_map"), I)
  BY <1>1, Compose, Zenon
<1>3. /\ Triple({}, InjectWith("inode_map") \o Write("inode_map") \o GetFileAttr, I)
      /\ Triple({}, InjectWith("inode_map") \o Read("inode_map") \o GetFileAttr, I)
      /\ Triple({}, InjectWith("inode_map") \o Write("inode_map") \o Work, I)
      /\ Triple({}, InjectWith("inode_map") \o Read("inode_map") \o Work, I)
  BY <1>1, <1>2, Compose, Zenon
<1>4. /\ Triple({}, InjectWith("inode_map") \o Write("inode_map") \o Work \o GetFileAttr, I)
      /\ Triple({}, InjectWith("inode_map") \o Read("inode_map") \o Work \o GetFileAttr, I)
  BY <1>1, <1>3, Compose, Zenon
<1>5. /\ Triple({}, InjectWith("inode_map") \o Write("inode_map") \o Work \o GetFileAttr \o InjectInto, I)
      /\ Triple({}, InjectWith("inode_map") \o Read("inode_map") \o Work \o GetFileAttr \o InjectInto, I)
  BY <1>1, <1>4, Compose, Zenon
<1>6. Well(Mkdir) /\ Well(Symlink) /\ Well(Link)
  BY <1>1, <1>5, Compose, Zenon DEF Well, Mkdir, Symlink, Link
<1>7. Well(Setattr)
  BY <1>1, <1>5, Compose, Zenon DEF Well, Setattr
<1>8. Well(Rename)
  BY <1>1, <1>4, Compose, Zenon DEF Well, Rename
<1>9. Well(Lookup) /\ Well(Getattr)
  BY <1>1, <1>3, Compose, Zenon DEF Well, Lookup, Getattr
<1>10. Well(Unlink) /\ Well(Rmdir)
  BY <1>1, <1>3, Compose, Zenon DEF Well, Unlink, Rmdir
<1>11. Well(Readlink) /\ Well(Setxattr)
  BY <1>1, <1>3, Compose, Zenon DEF Well, Readlink, Setxattr
<1>12. Well(Forget) /\ Well(Fsyncdir)
  BY <1>1, Compose, Zenon DEF Well, Forget, Fsyncdir
<1>13. Well(Mknod)
  <2>1. Triple({}, InjectWith("inode_map") \o Write("inode_map") \o Inject \o Work, I)
    BY <1>1, <1>2, Compose, Zenon
  <2>2. Triple({}, InjectWith("inode_map") \o Write("inode_map") \o Inject \o Work \o GetFileAttr \o InjectInto, I)
    BY <1>1, <2>1, Compose, Zenon
  <2> QED BY <1>1, <2>2, Compose, Zenon DEF Well, Mknod
<1> QED BY <1>6, <1>7, <1>8, <1>9, <1>10, <1>11, <1>12, <1>13, Zenon

(* Those that enter a file or a directory in the tables of open ones. *)
LEMMA OpenHandlers == Well(Create) /\ Well(Open) /\ Well(Opendir)
<1> DEFINE I == {"inode_map"}
           F == {"inode_map", "opened_files"}
           D == {"inode_map", "opened_dirs"}
<1>1. /\ Triple({}, Read("inode_map"), I) /\ Triple({}, Write("inode_map"), I) /\ Triple(I, Drop("inode_map"), {})
      /\ Triple(I, Work, I) /\ Triple({}, InjectWith("inode_map"), {})
      /\ Triple(I, InjectInto, I) /\ Triple(I, GetFileAttr, I)
  BY LockNames, InjectWithTriple
<1>2. /\ Triple(I, Write("opened_files"), F) /\ Triple(F, Drop("opened_files"), I)
      /\ Triple(I, Write("opened_dirs"), D) /\ Triple(D, Drop("opened_dirs"), I)
  BY OpenTableTriple
<1> HIDE DEF I, F, D
<1>3. /\ Triple({}, InjectWith("inode_map") \o Write("inode_map") \o Work, I)
      /\ Triple({}, InjectWith("inode_map") \o Read("inode_map") \o Work, I)
  BY <1>1, Compose, Zenon
<1>4. /\ Triple({}, InjectWith("inode_map") \o Read("inode_map") \o Work \o Write("opened_files"), F)
      /\ Triple({}, InjectWith("inode_map") \o Read("inode_map") \o Work \o Write("opened_dirs"), D)
  BY <1>2, <1>3, Compose, Zenon
<1>5. /\ Triple({}, InjectWith("inode_map") \o Read("inode_map") \o Work
                      \o Write("opened_files") \o Drop("opened_files"), I)
      /\ Triple({}, InjectWith("inode_map") \o Read("inode_map") \o Work
                      \o Write("opened_dirs") \o Drop("opened_dirs"), I)
  BY <1>2, <1>4, Compose, Zenon
<1>6. Well(Open)
  BY <1>1, <1>5, Compose, Zenon DEF Well, Open
<1>7. Well(Opendir)
  BY <1>1, <1>5, Compose, Zenon DEF Well, Opendir
<1>8. Triple({}, InjectWith("inode_map") \o Write("inode_map") \o Work \o GetFileAttr \o Write("opened_files"), F)
  BY <1>1, <1>2, <1>3, Compose, Zenon
<1>9. Triple({}, InjectWith("inode_map") \o Write("inode_map") \o Work \o GetFileAttr
                   \o Write("opened_files") \o Drop("opened_files"), I)
  BY <1>2, <1>8, Compose, Zenon
<1>10. Well(Create)
  BY <1>1, <1>9, Compose, Zenon DEF Well, Create
<1> QED BY <1>6, <1>7, <1>10, Zenon

(* Those on open files and directories, and update. *)
LEMMA HandleHandlers ==
  /\ Well(ReadFile) /\ Well(WriteFile) /\ Well(Flush) /\ Well(Release)
  /\ Well(Readdir) /\ Well(Releasedir) /\ Well(Update)
<1> DEFINE F == {"opened_files"}
<1>1. /\ Triple({}, Read("opened_files"), F) /\ Triple({}, Write("opened_files"), F)
      /\ Triple(F, Drop("opened_files"), {}) /\ Triple(F, Work, F)
      /\ Triple({}, InjectWith("opened_files"), {}) /\ Triple(F, InjectInto, F)
  BY LockNames, InjectWithTriple
<1> HIDE DEF F
<1>2. Triple({}, InjectWith("opened_files") \o Read("opened_files") \o Work, F)
  BY <1>1, Compose, Zenon
<1>3. Well(ReadFile) /\ Well(Flush)
  BY <1>1, <1>2, Compose, Zenon DEF Well, ReadFile, Flush
<1>4. Triple({}, InjectWith("opened_files") \o InjectWriteData \o Read("opened_files"), F)
  BY <1>1, InjectWriteDataTriple, Compose, Zenon
<1>5. Triple({}, InjectWith("opened_files") \o InjectWriteData \o Read("opened_files") \o Work \o InjectInto, F)
  BY <1>1, <1>4, Compose, Zenon
<1>6. Well(WriteFile)
  BY <1>1, <1>5, Compose, Zenon DEF Well, WriteFile
<1>7. Well(Release)
  BY <1>1, Compose, Zenon DEF Well, Release
<1>8. /\ Triple({}, Write("opened_dirs"), {"opened_dirs"}) /\ Triple({"opened_dirs"}, Drop("opened_dirs"), {})
      /\ Triple({}, InjectWith("opened_dirs"), {})
      /\ Triple({}, Write("injector"), {"injector"}) /\ Triple({"injector"}, Drop("injector"), {})
  BY LockNames, InjectWithTriple
<1>9. Well(Readdir) /\ Well(Releasedir) /\ Well(Update)
  BY <1>8, Compose, Zenon DEF Well, Readdir, Releasedir, Update
<1> QED BY <1>3, <1>6, <1>7, <1>9, Zenon

(* All of them. *)
LEMMA Programs == \A k \in DOMAIN Program : Well(Program[k])
BY TableHandlers, OpenHandlers, HandleHandlers DEF Program

-----------------------------------------------------------------------------
(* A task on its way through its handler. *)

(* What is left of a sequence from its j-th element on. *)
LEMMA RestProperties ==
  ASSUME NEW S, NEW s \in Seq(S), NEW j \in 1..(Len(s) + 1)
  PROVE  /\ SubSeq(s, j, Len(s)) \in Seq(S) /\ Len(SubSeq(s, j, Len(s))) = (Len(s) - j) + 1
         /\ Len(s) \in Nat
         /\ \A i \in 1..((Len(s) - j) + 1) : SubSeq(s, j, Len(s))[i] = s[(i + j) - 1]
OBVIOUS

(* The tail is what is left from the second element on. *)
LEMMA TailIsRest ==
  ASSUME NEW S, NEW s \in Seq(S), s # <<>>
  PROVE  /\ Tail(s) = SubSeq(s, 2, Len(s)) /\ Head(s) = s[1] /\ s[1] \in S
         /\ Len(s) \in Nat /\ Len(s) >= 1 /\ 1 \in 1..Len(s) /\ 2 \in 1..(Len(s) + 1)
OBVIOUS

(* What is left of a part of a handler still keeps to the order. *)
LEMMA RestTriple ==
  ASSUME NEW s, NEW a, Annotates(a, s), NEW j \in 1..(Len(s) + 1)
  PROVE  Triple(a[j], SubSeq(s, j, Len(s)), a[Len(s) + 1])
<1> DEFINE m == Len(s)
           n == (m - j) + 1
           r == SubSeq(s, j, m)
           b == [i \in 1..(n + 1) |-> a[(i + j) - 1]]
<1>1. s \in Seq(HandlerStep) /\ a \in [1..(m + 1) -> SUBSET Locks] /\ \A i \in 1..m : Rule(s, a, i)
  BY Zenon DEF Annotates
<1>2. /\ r \in Seq(HandlerStep) /\ Len(r) = n /\ m \in Nat /\ j \in 1..(m + 1)
      /\ \A i \in 1..n : r[i] = s[(i + j) - 1]
  BY <1>1, RestProperties, Zenon
<1> HIDE DEF m, r
<1>3. n \in Nat /\ \A i \in 1..(n + 1) : b[i] = a[(i + j) - 1] /\ b[i] \in SUBSET Locks
  BY <1>1, <1>2
<1>4. b \in [1..(n + 1) -> SUBSET Locks]
  BY <1>3
<1>5. b[1] = a[j] /\ b[n + 1] = a[m + 1]
  <2>1. 1 \in 1..(n + 1) /\ n + 1 \in 1..(n + 1) /\ (1 + j) - 1 = j /\ ((n + 1) + j) - 1 = m + 1
    BY <1>2, <1>3
  <2> HIDE DEF n, b
  <2>2. b[1] = a[(1 + j) - 1] /\ b[n + 1] = a[((n + 1) + j) - 1]
    BY <1>3, <2>1, Zenon
  <2> QED BY <2>1, <2>2
<1> HIDE DEF b
<1>6. m \in Nat /\ j \in Int /\ 1 <= j /\ j <= m + 1 /\ n \in Nat /\ n = (m - j) + 1
  BY <1>2, <1>3
<1> HIDE DEF n
<1>7. ASSUME NEW i \in 1..n PROVE Rule(r, b, i)
  <2> DEFINE k == (i + j) - 1
  <2>1. k \in 1..m /\ i \in 1..(n + 1) /\ i + 1 \in 1..(n + 1) /\ ((i + 1) + j) - 1 = k + 1
    BY ONLY <1>6, <1>7
  <2>2. r[i] = s[k] /\ b[i] = a[k]
    BY <1>2, <1>3, <2>1, Zenon
  <2>3. b[i + 1] = a[k + 1]
    <3>1. b[i + 1] = a[((i + 1) + j) - 1]
      BY <1>3, <2>1, Zenon
    <3> QED BY <2>1, <3>1
  <2>4. Rule(s, a, k) /\ s[k] \in HandlerStep
    BY <1>1, <2>1 DEF m
  <2>5. ASSUME s[k].op = "inject" PROVE i + s[k].skip <= Len(r) /\ b[i + s[k].skip + 1] = b[i]
    <3> DEFINE d == s[k].skip
    <3>1. d \in Nat
      BY <2>4, <2>5 DEF HandlerStep
    <3>2. k + d <= m /\ a[k + d + 1] = a[k]
      BY <2>4, <2>5, Zenon DEF Rule, m
    <3> HIDE DEF d
    <3>3. i + d <= n /\ i + d + 1 \in 1..(n + 1) /\ ((i + d + 1) + j) - 1 = k + d + 1
      BY ONLY <1>6, <1>7, <3>1, <3>2
    <3>4. b[i + d + 1] = a[((i + d + 1) + j) - 1]
      BY <1>3, <3>3, Zenon
    <3>5. b[i + d + 1] = b[i]
      BY <2>2, <3>2, <3>3, <3>4
    <3> QED BY <1>2, <3>3, <3>5, Zenon DEF d
  <2> HIDE DEF k
  <2> QED BY <2>2, <2>3, <2>4, <2>5 DEF Rule
<1>8. Annotates(b, r)
  BY <1>2, <1>4, <1>7, Zenon DEF Annotates
<1>9. Triple(a[j], r, a[m + 1])
  BY <1>2, <1>5, <1>8, Zenon DEF Triple
<1> QED BY <1>9, Zenon DEF r, m

(* What the next step of a task does to the locks it holds. *)
LEMMA NextStep ==
  ASSUME NEW A, NEW s, NEW B, Triple(A, s, B), s # <<>>
  PROVE  /\ s \in Seq(HandlerStep) /\ Head(s) \in HandlerStep /\ A \in SUBSET Locks
         /\ Head(s).op = "acquire" => /\ Triple(A \cup {Head(s).lock}, Tail(s), B)
                                      /\ \A l \in A : Rank[l] < Rank[Head(s).lock]
         /\ Head(s).op = "drop" => Triple(A \ {Head(s).lock}, Tail(s), B)
         /\ Head(s).op = "work" => Triple(A, Tail(s), B)
         /\ Head(s).op = "inject" => /\ Triple(A, Tail(s), B)
                                     /\ Head(s).skip + 2 \in 1..(Len(s) + 1)
                                     /\ Triple(A, SubSeq(s, Head(s).skip + 2, Len(s)), B)
<1>1. PICK a : Annotates(a, s) /\ a[1] = A /\ a[Len(s) + 1] = B
  BY Zenon DEF Triple
<1>2. s \in Seq(HandlerStep) /\ a \in [1..(Len(s) + 1) -> SUBSET Locks] /\ \A i \in 1..Len(s) : Rule(s, a, i)
  BY <1>1, Zenon DEF Annotates
<1>3. /\ Tail(s) = SubSeq(s, 2, Len(s)) /\ Head(s) = s[1] /\ s[1] \in HandlerStep
      /\ Len(s) \in Nat /\ 1 \in 1..Len(s) /\ 2 \in 1..(Len(s) + 1)
  BY <1>2, TailIsRest, Zenon
<1>4. Triple(a[2], Tail(s), B) /\ A \in SUBSET Locks
  <2>1. 1 \in 1..(Len(s) + 1)
    BY <1>3
  <2>2. a[1] \in SUBSET Locks
    BY <1>2, <2>1, Zenon
  <2> QED BY <1>1, <1>3, <2>2, RestTriple, Zenon
<1>5. Rule(s, a, 1)
  BY <1>2, <1>3, Zenon
<1>6. 1 + 1 = 2
  OBVIOUS
<1>7. ASSUME s[1].op = "inject"
      PROVE  s[1].skip + 2 \in 1..(Len(s) + 1) /\ Triple(A, SubSeq(s, s[1].skip + 2, Len(s)), B)
  <2>1. s[1].skip \in Nat
    BY <1>3, <1>7 DEF HandlerStep
  <2>2. 1 + s[1].skip <= Len(s) /\ a[1 + s[1].skip + 1] = a[1]
    BY <1>5, <1>7, Zenon DEF Rule
  <2>3. s[1].skip + 2 \in 1..(Len(s) + 1) /\ s[1].skip + 2 = 1 + s[1].skip + 1
    BY <1>3, <2>1, <2>2
  <2>4. a[s[1].skip + 2] = A
    BY <1>1, <2>2, <2>3
  <2> QED BY <1>1, <2>3, <2>4, RestTriple, Zenon
<1>8. /\ s[1].op = "acquire" => a[2] = A \cup {s[1].lock} /\ \A l \in A : Rank[l] < Rank[s[1].lock]
      /\ s[1].op = "drop" => a[2] = A \ {s[1].lock}
      /\ s[1].op \in {"work", "inject"} => a[2] = A
  BY <1>1, <1>5, <1>6 DEF Rule
<1> QED BY <1>2, <1>3, <1>4, <1>7, <1>8, Zenon

(* Sequences that agree element by element are equal. *)
LEMMA SeqEqual ==
  ASSUME NEW S, NEW s \in Seq(S), NEW t \in Seq(S), Len(s) = Len(t), \A i \in 1..Len(s) : s[i] = t[i]
  PROVE  s = t
OBVIOUS

(* A rest of a rest is a rest. *)
LEMMA RestOfRest ==
  ASSUME NEW p \in Seq(HandlerStep), NEW s, IsRest(s, p), NEW j \in 1..(Len(s) + 1)
  PROVE  IsRest(SubSeq(s, j, Len(s)), p)
<1>1. PICK i \in 1..(Len(p) + 1) : s = SubSeq(p, i, Len(p))
  BY Zenon DEF IsRest
<1>2. s \in Seq(HandlerStep) /\ Len(s) = (Len(p) - i) + 1 /\ Len(p) \in Nat
  BY <1>1, RestProperties, Zenon
<1> DEFINE k == (i + j) - 1
           r == SubSeq(s, j, Len(s))
           q == SubSeq(p, k, Len(p))
<1>3. k \in 1..(Len(p) + 1) /\ (Len(s) - j) + 1 = (Len(p) - k) + 1
  BY <1>2
<1>4. r \in Seq(HandlerStep) /\ q \in Seq(HandlerStep) /\ Len(r) = (Len(s) - j) + 1 /\ Len(q) = (Len(p) - k) + 1
  BY <1>2, <1>3, RestProperties, Zenon
<1>5. ASSUME NEW x \in 1..Len(r) PROVE r[x] = q[x]
  <2>1. x \in 1..((Len(s) - j) + 1) /\ x \in 1..((Len(p) - k) + 1)
    BY <1>3, <1>4, <1>5
  <2>2. r[x] = s[(x + j) - 1] /\ q[x] = p[(x + k) - 1]
    BY <1>2, <1>3, <2>1, RestProperties, Zenon
  <2>3. (x + j) - 1 \in 1..((Len(p) - i) + 1) /\ (((x + j) - 1) + i) - 1 = (x + k) - 1
    BY <1>2, <2>1
  <2>4. s[(x + j) - 1] = p[(((x + j) - 1) + i) - 1]
    BY <1>1, <2>3, RestProperties, Zenon
  <2> QED BY <2>2, <2>3, <2>4
<1> HIDE DEF k, r, q
<1>6. r = q
  <2>1. Len(r) = Len(q)
    BY <1>3, <1>4, Zenon
  <2> QED BY <1>4, <1>5, <2>1, SeqEqual, Zenon
<1> QED BY <1>3, <1>6, Zenon DEF IsRest, r, q

-----------------------------------------------------------------------------
(* The permits of a lock. *)

(* Permits are finitely many, and fewer when every task has fewer. *)
LEMMA PermitsFinite ==
  ASSUME NEW h, NEW S, S = {p \in Task \X (1..MaxReads) : p[2] <= h[p[1]]}
  PROVE  IsFiniteSet(S) /\ Cardinality(S) \in Nat
<1>1. IsFiniteSet(Task) /\ 1 \in Int /\ MaxReads \in Int
  BY RequestsAssumption
<1>2. IsFiniteSet(1..MaxReads)
  BY <1>1, FS_Interval, Zenon
<1>3. IsFiniteSet(Task \X (1..MaxReads))
  BY <1>1, <1>2, FS_Product, Zenon
<1>4. S \subseteq Task \X (1..MaxReads)
  BY Zenon
<1> QED BY <1>3, <1>4, FS_Subset, FS_CardinalityType, Zenon

(* Giving permits back. *)
LEMMA PermitsBack ==
  ASSUME NEW l \in Locks, held \in [Locks -> [Task -> 0..MaxReads]], held' \in [Locks -> [Task -> 0..MaxReads]],
         \A t \in Task : held'[l][t] <= held[l][t]
  PROVE  Cardinality(Permits(l)') <= Cardinality(Permits(l)) /\ Cardinality(Permits(l)) \in Nat
         /\ Cardinality(Permits(l)') \in Nat
<1>1. Permits(l)' \subseteq Permits(l)
  <2> SUFFICES ASSUME NEW p \in Permits(l)' PROVE p \in Permits(l)
    BY Zenon
  <2>1. p \in Task \X (1..MaxReads) /\ p[2] <= held'[l][p[1]]
    BY DEF Permits
  <2>2. p[1] \in Task /\ p[2] \in 1..MaxReads
    BY <2>1
  <2>3. held'[l][p[1]] \in 0..MaxReads /\ held[l][p[1]] \in 0..MaxReads /\ held'[l][p[1]] <= held[l][p[1]]
    BY <2>2
  <2>4. p[2] <= held[l][p[1]]
    BY RequestsAssumption, <2>1, <2>2, <2>3
  <2> QED BY <2>1, <2>4, Zenon DEF Permits
<1>2. IsFiniteSet(Permits(l)) /\ Cardinality(Permits(l)) \in Nat
  BY PermitsFinite, Zenon DEF Permits
<1> QED BY <1>1, <1>2, FS_Subset, FS_CardinalityType, Zenon

(* Giving n of them to a task that has none. *)
LEMMA PermitsGiven ==
  ASSUME NEW l \in Locks, NEW t \in Task, NEW n \in 1..MaxReads,
         held \in [Locks -> [Task -> 0..MaxReads]], held[l][t] = 0,
         held' = [held EXCEPT ![l][t] = n]
  PROVE  Cardinality(Permits(l)') = Cardinality(Permits(l)) + n /\ Cardinality(Permits(l)) \in Nat
<1> DEFINE N == {t} \X (1..n)
<1>1. held'[l] = [held[l] EXCEPT ![t] = n]
  BY Zenon
<1>2. \A u \in Task : held'[l][u] = IF u = t THEN n ELSE held[l][u]
  BY <1>1, Zenon
<1>3. \A p : p \in Permits(l)' <=> p \in Permits(l) \cup N
  <2> SUFFICES ASSUME NEW p PROVE p \in Permits(l)' <=> p \in Permits(l) \cup N
    BY Zenon
  <2>1. CASE p \notin Task \X (1..MaxReads)
    <3>1. N \subseteq Task \X (1..MaxReads)
      BY RequestsAssumption
    <3> QED BY <2>1, <3>1, Zenon DEF Permits
  <2>2. CASE p \in Task \X (1..MaxReads)
    <3>1. p[1] \in Task /\ p[2] \in 1..MaxReads /\ p = <<p[1], p[2]>>
      BY <2>2
    <3>2. CASE p[1] = t
      <4>1. p \in Permits(l)' <=> p[2] <= n
        BY <1>2, <2>2, <3>1, <3>2, Zenon DEF Permits
      <4>2. p \notin Permits(l)
        <5>1. ~(p[2] <= 0)
          BY <3>1, RequestsAssumption
        <5> QED BY <3>2, <5>1, Zenon DEF Permits
      <4>3. p \in N <=> p[2] \in 1..n
        BY <3>1, <3>2
      <4>4. p[2] \in 1..n <=> p[2] <= n
        BY <3>1, RequestsAssumption
      <4> QED BY <4>1, <4>2, <4>3, <4>4, Zenon
    <3>3. CASE p[1] # t
      <4>1. p \notin N
        BY <3>3
      <4>2. p \in Permits(l)' <=> p \in Permits(l)
        BY <1>2, <2>2, <3>1, <3>3, Zenon DEF Permits
      <4> QED BY <4>1, <4>2, Zenon
    <3> QED BY <3>2, <3>3, Zenon
  <2> QED BY <2>1, <2>2, Zenon
<1>4. Permits(l)' = Permits(l) \cup N
  BY <1>3, Zenon
<1>5. Permits(l) \cap N = {}
  <2> SUFFICES ASSUME NEW p \in Permits(l), p \in N PROVE FALSE
    BY Zenon
  <2>1. p[1] = t /\ p[2] \in 1..n
    OBVIOUS
  <2>2. p[2] <= held[l][t]
    BY <2>1, Zenon DEF Permits
  <2> QED BY <2>1, <2>2, RequestsAssumption
<1>6. IsFiniteSet(Permits(l)) /\ Cardinality(Permits(l)) \in Nat
  BY PermitsFinite, Zenon DEF Permits
<1>7. IsFiniteSet(N) /\ Cardinality(N) = n
  <2>1. IsFiniteSet({t}) /\ Cardinality({t}) = 1
    BY FS_Singleton, Zenon
  <2>2. IsFiniteSet(1..n) /\ Cardinality(1..n) = n
    <3>1. 1 \in Int /\ n \in Int /\ ~(1 > n) /\ (n - 1) + 1 = n
      BY RequestsAssumption
    <3> QED BY <3>1, FS_Interval
  <2>3. IsFiniteSet(N) /\ Cardinality(N) = Cardinality({t}) * Cardinality(1..n)
    BY <2>1, <2>2, FS_Product, Zenon
  <2>4. 1 * n = n
    BY RequestsAssumption
  <2> QED BY <2>1, <2>2, <2>3, <2>4, Zenon
<1> HIDE DEF N
<1>8. Cardinality(Permits(l) \cup N) = Cardinality(Permits(l)) + n - Cardinality({})
  BY <1>5, <1>6, <1>7, FS_Union
<1>9. Cardinality({}) = 0
  BY FS_EmptySet, Zenon
<1>10. n \in Int
  BY RequestsAssumption
<1> QED BY <1>4, <1>6, <1>8, <1>9, <1>10

(* When no task has any. *)
LEMMA AllFree ==
  ASSUME NEW l \in Locks, \A t \in Task : held[l][t] = 0
  PROVE  Free(l) = MaxReads
<1>1. Permits(l) = {}
  <2> SUFFICES ASSUME NEW p \in Permits(l) PROVE FALSE
    BY Zenon
  <2>1. p \in Task \X (1..MaxReads) /\ p[2] <= held[l][p[1]]
    BY Zenon DEF Permits
  <2>2. p[1] \in Task /\ p[2] \in 1..MaxReads
    BY <2>1
  <2> QED BY <2>1, <2>2, RequestsAssumption
<1>2. Cardinality({}) = 0
  BY FS_EmptySet, Zenon
<1> QED BY <1>1, <1>2, RequestsAssumption DEF Free

-----------------------------------------------------------------------------
(* The inductive invariant. *)

Holds(t) == {l \in Locks : held[l][t] > 0}

Types ==
  /\ todo \in [Task -> Seq(HandlerStep)]
  /\ held \in [Locks -> [Task -> 0..MaxReads]]
  /\ queue \in [Locks -> Seq(Task)]

(* What a task has still to do keeps to the order of the locks and ends with none of them. *)
Ordered ==
  \A t \in Task : Triple(Holds(t), todo[t], {}) /\ \E k \in DOMAIN Program : IsRest(todo[t], Program[k])

Waits(d, t, l) == d[t] # <<>> /\ Head(d[t]).op = "acquire" /\ Head(d[t]).lock = l

(* A queue holds tasks that wait for its lock, each once. *)
Queues ==
  \A l \in Locks :
    /\ \A i \in DOMAIN queue[l] : Waits(todo, queue[l][i], l)
    /\ \A i, j \in DOMAIN queue[l] : queue[l][i] = queue[l][j] => i = j

WithinLimit == \A l \in Locks : Cardinality(Permits(l)) <= MaxReads

IInv == Types /\ Ordered /\ Queues /\ WithinLimit

(* An empty rest belongs to every handler. *)
LEMMA EmptyRest ==
  \E k \in DOMAIN Program : IsRest(<<>>, Program[k])
<1>1. Program["lookup"] \in Seq(HandlerStep) /\ "lookup" \in DOMAIN Program
  <2>1. "lookup" \in DOMAIN Program
    BY DEF Program
  <2> QED BY <2>1, Programs, Zenon DEF Well, Triple, Annotates
<1>2. ASSUME NEW p \in Seq(HandlerStep) PROVE IsRest(<<>>, p)
  <2>1. Len(p) + 1 \in 1..(Len(p) + 1) /\ SubSeq(p, Len(p) + 1, Len(p)) = <<>>
    OBVIOUS
  <2> QED BY <2>1, Zenon DEF IsRest
<1> QED BY <1>1, <1>2, Zenon

(* A request that is over. *)
LEMMA Over == Triple({}, <<>>, {})
<1> DEFINE a == [i \in 1..1 |-> {}]
<1>1. <<>> \in Seq(HandlerStep) /\ Len(<<>>) = 0 /\ 0 + 1 = 1 /\ 1..0 = {} /\ 1 \in 1..1
  OBVIOUS
<1>2. a \in [1..1 -> SUBSET Locks] /\ a[1] = {}
  BY <1>1, Zenon
<1>3. Annotates(a, <<>>)
  BY <1>1, <1>2 DEF Annotates
<1> QED BY <1>1, <1>2, <1>3 DEF Triple

(* The program of a request. *)
LEMMA Whole ==
  ASSUME NEW k \in DOMAIN Program
  PROVE  /\ Program[k] \in Seq(HandlerStep) /\ Triple({}, Program[k], {})
         /\ IsRest(Program[k], Program[k])
<1>1. Program[k] \in Seq(HandlerStep) /\ Triple({}, Program[k], {})
  BY Programs, Zenon DEF Well, Triple, Annotates
<1>2. ASSUME NEW p \in Seq(HandlerStep) PROVE IsRest(p, p)
  <2>1. 1 \in 1..(Len(p) + 1) /\ SubSeq(p, 1, Len(p)) = p
    OBVIOUS
  <2> QED BY <2>1, Zenon DEF IsRest
<1> QED BY <1>1, <1>2, Zenon

(* At the start nothing is held. *)
LEMMA InitInv == Init => IInv
<1> SUFFICES ASSUME Init PROVE IInv
  OBVIOUS
<1>1. Types
  BY RequestsAssumption DEF Init, Types
<1>2. Ordered
  <2> SUFFICES ASSUME NEW t \in Task
               PROVE  Triple(Holds(t), todo[t], {}) /\ \E k \in DOMAIN Program : IsRest(todo[t], Program[k])
    BY Zenon DEF Ordered
  <2>1. todo[t] = <<>> /\ Holds(t) = {}
    BY DEF Init, Holds
  <2> QED BY <2>1, Over, EmptyRest, Zenon
<1>3. Queues
  BY DEF Init, Queues
<1>4. WithinLimit
  <2> SUFFICES ASSUME NEW l \in Locks PROVE Cardinality(Permits(l)) <= MaxReads
    BY Zenon DEF WithinLimit
  <2>1. \A t \in Task : held[l][t] = 0
    BY Zenon DEF Init
  <2>2. Free(l) = MaxReads
    BY <2>1, AllFree, Zenon
  <2>3. Cardinality(Permits(l)) \in Nat
    BY PermitsFinite, Zenon DEF Permits
  <2> QED BY <2>2, <2>3, RequestsAssumption DEF Free
<1> QED BY <1>1, <1>2, <1>3, <1>4, Zenon DEF IInv

(* A step of one task: what the others have to do and hold is as before. *)
LEMMA OneTask ==
  ASSUME IInv, NEW t \in Task, NEW r, todo' = [todo EXCEPT ![t] = r],
         Triple(Holds(t)', r, {}), \E k \in DOMAIN Program : IsRest(r, Program[k]),
         \A u \in Task \ {t} : Holds(u)' = Holds(u)
  PROVE  todo' \in [Task -> Seq(HandlerStep)] /\ Ordered' /\ \A u \in Task \ {t} : todo'[u] = todo[u]
<1>1. r \in Seq(HandlerStep)
  BY Zenon DEF Triple, Annotates
<1>2. todo \in [Task -> Seq(HandlerStep)]
  BY Zenon DEF IInv, Types
<1>3. todo' \in [Task -> Seq(HandlerStep)] /\ todo'[t] = r /\ \A u \in Task \ {t} : todo'[u] = todo[u]
  BY <1>1, <1>2
<1>4. ASSUME NEW u \in Task
      PROVE  Triple(Holds(u)', todo'[u], {}) /\ \E k \in DOMAIN Program : IsRest(todo'[u], Program[k])
  <2>1. CASE u = t
    BY <1>3, <2>1, Zenon
  <2>2. CASE u # t
    BY <1>3, <2>2, Zenon DEF IInv, Ordered
  <2> QED BY <2>1, <2>2, Zenon
<1> QED BY <1>3, <1>4, Zenon DEF Ordered

(* If the task is in no queue and no queue has changed, those are as before too. *)
LEMMA QueuesStay ==
  ASSUME IInv, NEW t \in Task, ~Queued(t), \A u \in Task \ {t} : todo'[u] = todo[u], UNCHANGED queue
  PROVE  queue' \in [Locks -> Seq(Task)] /\ Queues'
<1>1. queue \in [Locks -> Seq(Task)] /\ Queues
  BY Zenon DEF IInv, Types
<1>2. ASSUME NEW l \in Locks, NEW i \in DOMAIN queue[l] PROVE Waits(todo', queue[l][i], l)
  <2>1. queue[l][i] \in Task
    BY <1>1
  <2>2. queue[l][i] # t
    BY Zenon DEF Queued
  <2>3. Waits(todo, queue[l][i], l)
    BY <1>1, Zenon DEF Queues
  <2>4. todo'[queue[l][i]] = todo[queue[l][i]]
    BY <2>1, <2>2, Zenon
  <2> QED BY <2>3, <2>4, Zenon DEF Waits
<1> QED BY <1>1, <1>2 DEF Queues

(* A task whose next step is not to take a lock is in no queue. *)
LEMMA NotQueued ==
  ASSUME IInv, NEW t \in Task, todo[t] # <<>> => Op(t) # "acquire"
  PROVE  ~Queued(t)
<1> SUFFICES ASSUME NEW l \in Locks, NEW i \in DOMAIN queue[l], queue[l][i] = t PROVE FALSE
  BY Zenon DEF Queued
<1>1. Waits(todo, t, l)
  BY Zenon DEF IInv, Queues
<1> QED BY <1>1, Zenon DEF Waits, Op

(* A task does not hold the lock it asks for, nor one that comes after it. *)
LEMMA Asks ==
  ASSUME IInv, NEW t \in Task, NEW l, Waits(todo, t, l)
  PROVE  /\ l \in Locks /\ Head(todo[t]).permits \in 1..MaxReads /\ held[l][t] = 0
         /\ \A m \in Holds(t) : Rank[m] < Rank[l]
         /\ Triple(Holds(t) \cup {l}, Tail(todo[t]), {})
<1>1. Triple(Holds(t), todo[t], {}) /\ todo[t] # <<>> /\ Head(todo[t]).op = "acquire" /\ Head(todo[t]).lock = l
  BY Zenon DEF IInv, Ordered, Waits, Op
<1>2. /\ Head(todo[t]) \in HandlerStep
      /\ Triple(Holds(t) \cup {Head(todo[t]).lock}, Tail(todo[t]), {})
      /\ \A m \in Holds(t) : Rank[m] < Rank[Head(todo[t]).lock]
  BY <1>1, NextStep, Zenon
<1>3. l \in Locks /\ Head(todo[t]).permits \in 1..MaxReads
  BY <1>1, <1>2 DEF HandlerStep
<1>4. held[l][t] \in 0..MaxReads
  BY <1>3, Zenon DEF IInv, Types
<1>5. ~(Rank[l] < Rank[l])
  BY <1>3, LockNames
<1>6. held[l][t] = 0
  <2>1. l \notin Holds(t)
    BY <1>1, <1>2, <1>5, Zenon
  <2> QED BY <1>3, <1>4, <2>1, RequestsAssumption DEF Holds
<1> QED BY <1>1, <1>2, <1>3, <1>6, Zenon

(* What is left after the next step is left of the same program. *)
LEMMA RestStays ==
  ASSUME IInv, NEW t \in Task, todo[t] # <<>>
  PROVE  /\ \E k \in DOMAIN Program : IsRest(Tail(todo[t]), Program[k])
         /\ \A j \in 1..(Len(todo[t]) + 1) :
              \E k \in DOMAIN Program : IsRest(SubSeq(todo[t], j, Len(todo[t])), Program[k])
<1>1. PICK k \in DOMAIN Program : IsRest(todo[t], Program[k])
  BY Zenon DEF IInv, Ordered
<1>2. Program[k] \in Seq(HandlerStep) /\ todo[t] \in Seq(HandlerStep)
  BY Whole, Zenon DEF IInv, Types
<1>3. Tail(todo[t]) = SubSeq(todo[t], 2, Len(todo[t])) /\ 2 \in 1..(Len(todo[t]) + 1)
  BY <1>2, TailIsRest, Zenon
<1>4. \A j \in 1..(Len(todo[t]) + 1) : IsRest(SubSeq(todo[t], j, Len(todo[t])), Program[k])
  BY <1>1, <1>2, RestOfRest, Zenon
<1> QED BY <1>3, <1>4, Zenon

(* The locks a task holds once it is given, or gives back, permits of l. *)
LEMMA HeldChange ==
  ASSUME IInv, NEW t \in Task, NEW l \in Locks, NEW n \in 0..MaxReads, held' = [held EXCEPT ![l][t] = n]
  PROVE  /\ held' \in [Locks -> [Task -> 0..MaxReads]]
         /\ \A m \in Locks : m # l => Permits(m)' = Permits(m)
         /\ \A u \in Task \ {t} : Holds(u)' = Holds(u)
         /\ n > 0 => Holds(t)' = Holds(t) \cup {l}
         /\ n = 0 => Holds(t)' = Holds(t) \ {l} /\ \A u \in Task : held'[l][u] <= held[l][u]
<1>1. held \in [Locks -> [Task -> 0..MaxReads]]
  BY Zenon DEF IInv, Types
<1>2. \A m \in Locks, u \in Task : held'[m][u] = IF m = l /\ u = t THEN n ELSE held[m][u]
  BY <1>1
<1>3. held' \in [Locks -> [Task -> 0..MaxReads]] /\ \A m \in Locks : m # l => held'[m] = held[m]
  BY <1>1
<1>4. \A m \in Locks : m # l => Permits(m)' = Permits(m)
  BY <1>3, Zenon DEF Permits
<1>5. \A u \in Task \ {t} : Holds(u)' = Holds(u)
  <2> SUFFICES ASSUME NEW u \in Task \ {t} PROVE {m \in Locks : held'[m][u] > 0} = {m \in Locks : held[m][u] > 0}
    BY Zenon DEF Holds
  <2>1. \A m \in Locks : held'[m][u] = held[m][u]
    BY <1>2
  <2> QED BY <2>1, Zenon
<1>6. ASSUME n > 0 PROVE Holds(t)' = Holds(t) \cup {l}
  BY <1>2, <1>6 DEF Holds
<1>7. ASSUME n = 0 PROVE Holds(t)' = Holds(t) \ {l}
  <2>1. ~(n > 0)
    BY <1>7
  <2> QED BY <1>2, <2>1 DEF Holds
<1>8. ASSUME n = 0, NEW u \in Task PROVE held'[l][u] <= held[l][u]
  <2>1. held[l][u] \in 0..MaxReads
    BY <1>1
  <2> QED BY <1>2, <1>8, <2>1, RequestsAssumption
<1> QED BY <1>3, <1>4, <1>5, <1>6, <1>7, <1>8, Zenon

(* Permits that fit into what is free. *)
LEMMA TakenWithin ==
  ASSUME IInv, NEW t \in Task, NEW l \in Locks, Waits(todo, t, l), Head(todo[t]).permits <= Free(l),
         held' = [held EXCEPT ![l][t] = Head(todo[t]).permits]
  PROVE  WithinLimit' /\ Holds(t)' = Holds(t) \cup {l}
         /\ held' \in [Locks -> [Task -> 0..MaxReads]] /\ \A u \in Task \ {t} : Holds(u)' = Holds(u)
<1> DEFINE n == Head(todo[t]).permits
<1>1. n \in 1..MaxReads /\ held[l][t] = 0 /\ held \in [Locks -> [Task -> 0..MaxReads]]
  BY Asks, Zenon DEF IInv, Types
<1>2. n \in 0..MaxReads /\ n > 0
  BY <1>1, RequestsAssumption
<1> HIDE DEF n
<1>3. /\ held' \in [Locks -> [Task -> 0..MaxReads]]
      /\ \A m \in Locks : m # l => Permits(m)' = Permits(m)
      /\ \A u \in Task \ {t} : Holds(u)' = Holds(u)
      /\ Holds(t)' = Holds(t) \cup {l}
  BY <1>2, HeldChange, Zenon DEF n
<1>4. Cardinality(Permits(l)') = Cardinality(Permits(l)) + n /\ Cardinality(Permits(l)) \in Nat
  BY <1>1, PermitsGiven, Zenon DEF n
<1>5. n <= MaxReads - Cardinality(Permits(l))
  BY Zenon DEF n, Free
<1>6. Cardinality(Permits(l)') <= MaxReads
  BY <1>2, <1>4, <1>5, RequestsAssumption
<1>7. WithinLimit'
  BY <1>3, <1>6, Zenon DEF IInv, WithinLimit
<1> QED BY <1>3, <1>7, Zenon

(* Spawn *)
LEMMA SpawnStep ==
  ASSUME IInv, NEW t \in Task, Spawn(t)
  PROVE  IInv'
<1>1. PICK k \in Kinds[t] : todo' = [todo EXCEPT ![t] = Program[k]]
  BY Zenon DEF Spawn
<1>2. todo[t] = <<>> /\ UNCHANGED <<held, queue>>
  BY Zenon DEF Spawn
<1>3. k \in DOMAIN Program
  BY RequestsAssumption, Zenon
<1>4. Holds(t) = {}
  BY <1>2, EmptyTriple, Zenon DEF IInv, Ordered
<1>5. \A u \in Task : Holds(u)' = Holds(u)
  BY <1>2, Zenon DEF Holds
<1>6. /\ todo' \in [Task -> Seq(HandlerStep)] /\ Ordered' /\ \A u \in Task \ {t} : todo'[u] = todo[u]
  <2>1. Triple(Holds(t)', Program[k], {}) /\ \E x \in DOMAIN Program : IsRest(Program[k], Program[x])
    BY <1>3, <1>4, <1>5, Whole, Zenon
  <2> QED BY <1>1, <1>5, <2>1, OneTask, Zenon
<1>7. queue' \in [Locks -> Seq(Task)] /\ Queues'
  BY <1>2, <1>6, NotQueued, QueuesStay, Zenon
<1>8. held' \in [Locks -> [Task -> 0..MaxReads]] /\ WithinLimit'
  BY <1>2, Zenon DEF IInv, Types, WithinLimit, Permits
<1> QED BY <1>6, <1>7, <1>8, Zenon DEF IInv, Types

(* Take: the lock is free, or the task joins the queue. *)
LEMMA TakeStep ==
  ASSUME IInv, NEW t \in Task, Take(t)
  PROVE  IInv'
<1> DEFINE l == Head(todo[t]).lock
           n == Head(todo[t]).permits
<1>1. Waits(todo, t, l) /\ ~Queued(t) /\ todo[t] # <<>>
  BY Zenon DEF Take, Waits, Op
<1>2. l \in Locks /\ Triple(Holds(t) \cup {l}, Tail(todo[t]), {})
  BY <1>1, Asks, Zenon
<1>3. CASE n <= Free(l) /\ Next1(t) /\ held' = [held EXCEPT ![l][t] = n] /\ UNCHANGED queue
  <2>1. /\ WithinLimit' /\ Holds(t)' = Holds(t) \cup {l}
        /\ held' \in [Locks -> [Task -> 0..MaxReads]] /\ \A u \in Task \ {t} : Holds(u)' = Holds(u)
    BY <1>1, <1>2, <1>3, TakenWithin, Zenon
  <2>2. /\ todo' \in [Task -> Seq(HandlerStep)] /\ Ordered' /\ \A u \in Task \ {t} : todo'[u] = todo[u]
    <3>1. todo' = [todo EXCEPT ![t] = Tail(todo[t])]
      BY <1>3, Zenon DEF Next1
    <3>2. Triple(Holds(t)', Tail(todo[t]), {}) /\ \E x \in DOMAIN Program : IsRest(Tail(todo[t]), Program[x])
      BY <1>1, <1>2, <2>1, RestStays, Zenon
    <3> QED BY <2>1, <3>1, <3>2, OneTask, Zenon
  <2>3. queue' \in [Locks -> Seq(Task)] /\ Queues'
    BY <1>1, <1>3, <2>2, QueuesStay, Zenon
  <2> QED BY <2>1, <2>2, <2>3, Zenon DEF IInv, Types
<1>4. CASE queue' = [queue EXCEPT ![l] = Append(queue[l], t)] /\ UNCHANGED <<todo, held>>
  <2>1. queue \in [Locks -> Seq(Task)] /\ Queues
    BY Zenon DEF IInv, Types
  <2> DEFINE q == queue[l]
  <2>2. q \in Seq(Task) /\ Len(q) \in Nat /\ DOMAIN q = 1..Len(q)
    BY <1>2, <2>1
  <2>3. \A i \in DOMAIN q : q[i] # t
    BY <1>1, <1>2, Zenon DEF Queued
  <2> HIDE DEF l, q
  <2>4. /\ Append(q, t) \in Seq(Task) /\ DOMAIN Append(q, t) = 1..(Len(q) + 1)
        /\ \A i \in 1..Len(q) : Append(q, t)[i] = q[i]
        /\ Append(q, t)[Len(q) + 1] = t
    BY <2>2
  <2>5. \A m \in Locks : queue'[m] = IF m = l THEN Append(q, t) ELSE queue[m]
    BY <1>2, <1>4, <2>1, Zenon DEF q, l
  <2>6. queue' \in [Locks -> Seq(Task)]
    BY <1>2, <1>4, <2>1, <2>4, Zenon DEF q, l
  <2>7. Queues'
    <3>1. \A m \in Locks : \A i \in DOMAIN queue[m] : Waits(todo', queue[m][i], m)
      BY <1>4, <2>1, Zenon DEF Queues
    <3>2. Waits(todo', t, l)
      BY <1>1, <1>4, Zenon DEF l
    <3>3. \A i \in 1..(Len(q) + 1) : i \in DOMAIN q \/ i = Len(q) + 1
      BY <2>2
    <3>4. ASSUME NEW i \in 1..(Len(q) + 1) PROVE Waits(todo', Append(q, t)[i], l)
      <4>1. CASE i \in DOMAIN q
        BY <1>2, <2>2, <2>4, <3>1, <4>1, Zenon DEF q, l
      <4>2. CASE i = Len(q) + 1
        BY <2>4, <3>2, <4>2, Zenon
      <4> QED BY <3>3, <4>1, <4>2, Zenon
    <3>5. ASSUME NEW i \in 1..(Len(q) + 1), NEW j \in 1..(Len(q) + 1), Append(q, t)[i] = Append(q, t)[j]
          PROVE  i = j
      <4>1. CASE i \in DOMAIN q /\ j \in DOMAIN q
        <5>1. q[i] = q[j]
          BY <2>2, <2>4, <3>5, <4>1, Zenon
        <5> QED BY <1>2, <2>1, <4>1, <5>1, Zenon DEF Queues, q, l
      <4>2. CASE ~(i \in DOMAIN q /\ j \in DOMAIN q)
        BY <2>2, <2>3, <2>4, <3>3, <3>5, <4>2, Zenon
      <4> QED BY <4>1, <4>2, Zenon
    <3>6. ASSUME NEW m \in Locks
          PROVE  /\ \A i \in DOMAIN queue'[m] : Waits(todo', queue'[m][i], m)
                 /\ \A i, j \in DOMAIN queue'[m] : queue'[m][i] = queue'[m][j] => i = j
      <4>1. CASE m = l
        <5>1. queue'[m] = Append(q, t) /\ DOMAIN queue'[m] = 1..(Len(q) + 1)
          BY <1>2, <2>4, <2>5, <4>1, Zenon
        <5> QED BY <3>4, <3>5, <4>1, <5>1
      <4>2. CASE m # l
        BY <2>1, <2>5, <3>1, <4>2, Zenon DEF Queues
      <4> QED BY <4>1, <4>2, Zenon
    <3> QED BY <3>6, Zenon DEF Queues
  <2>8. todo' \in [Task -> Seq(HandlerStep)] /\ held' \in [Locks -> [Task -> 0..MaxReads]]
    BY <1>4, Zenon DEF IInv, Types
  <2>9. Ordered' /\ WithinLimit'
    BY <1>4, Zenon DEF IInv, Ordered, WithinLimit, Holds, Permits
  <2> QED BY <2>6, <2>7, <2>8, <2>9, Zenon DEF IInv, Types
<1> QED BY <1>3, <1>4, Zenon DEF Take

(* Grant: the first in the queue is given the permits it waits for. *)
LEMMA GrantStep ==
  ASSUME IInv, NEW l \in Locks, Grant(l)
  PROVE  IInv'
<1>1. queue[l] \in Seq(Task) /\ queue[l] # <<>> /\ queue \in [Locks -> Seq(Task)] /\ Queues
  BY Zenon DEF IInv, Types, Grant
<1> PICK q \in Seq(Task) : q = queue[l]
  BY <1>1, Zenon
<1>2. /\ Head(q) = q[1] /\ q[1] \in Task /\ Len(q) \in Nat /\ DOMAIN q = 1..Len(q) /\ 1 \in DOMAIN q
      /\ Tail(q) \in Seq(Task) /\ DOMAIN Tail(q) = 1..(Len(q) - 1)
      /\ \A i \in 1..(Len(q) - 1) : Tail(q)[i] = q[i + 1] /\ i + 1 \in DOMAIN q
  BY <1>1
<1> PICK t \in Task : t = q[1]
  BY <1>2, Zenon
<1>3. Waits(todo, t, l)
  BY <1>1, <1>2, Zenon DEF Queues
<1>4. /\ Head(todo[t]).permits <= Free(l) /\ held' = [held EXCEPT ![l][t] = Head(todo[t]).permits]
      /\ todo' = [todo EXCEPT ![t] = Tail(todo[t])] /\ queue' = [queue EXCEPT ![l] = Tail(q)]
  BY <1>2, Zenon DEF Grant, Next1
<1>5. Triple(Holds(t) \cup {l}, Tail(todo[t]), {}) /\ todo[t] # <<>>
  BY <1>2, <1>3, Asks, Zenon DEF Waits
<1>6. /\ WithinLimit' /\ Holds(t)' = Holds(t) \cup {l}
      /\ held' \in [Locks -> [Task -> 0..MaxReads]] /\ \A u \in Task \ {t} : Holds(u)' = Holds(u)
  BY <1>2, <1>3, <1>4, TakenWithin, Zenon
<1>7. /\ todo' \in [Task -> Seq(HandlerStep)] /\ Ordered' /\ \A u \in Task \ {t} : todo'[u] = todo[u]
  <2>1. Triple(Holds(t)', Tail(todo[t]), {}) /\ \E x \in DOMAIN Program : IsRest(Tail(todo[t]), Program[x])
    BY <1>2, <1>5, <1>6, RestStays, Zenon
  <2> QED BY <1>2, <1>4, <1>6, <2>1, OneTask, Zenon
<1>8. \A m \in Locks : queue'[m] = IF m = l THEN Tail(q) ELSE queue[m]
  BY <1>1, <1>4, Zenon
<1>9. queue' \in [Locks -> Seq(Task)]
  BY <1>1, <1>2, <1>4, Zenon
<1>10. ASSUME NEW m \in Locks, NEW i \in DOMAIN queue[m], queue[m][i] # t PROVE Waits(todo', queue[m][i], m)
  <2>1. Waits(todo, queue[m][i], m) /\ queue[m][i] \in Task
    <3>1. queue[m] \in Seq(Task)
      BY <1>1, Zenon
    <3>2. queue[m][i] \in Task
      BY <3>1
    <3> QED BY <1>1, <3>2, Zenon DEF Queues
  <2>2. todo'[queue[m][i]] = todo[queue[m][i]]
    BY <1>7, <1>10, <2>1, Zenon
  <2> QED BY <2>1, <2>2, Zenon DEF Waits
<1>11. Queues'
  <2> SUFFICES ASSUME NEW m \in Locks
               PROVE  /\ \A i \in DOMAIN queue'[m] : Waits(todo', queue'[m][i], m)
                      /\ \A i, j \in DOMAIN queue'[m] : queue'[m][i] = queue'[m][j] => i = j
    BY Zenon DEF Queues
  <2>1. CASE m # l
    <3>1. queue'[m] = queue[m]
      BY <1>8, <2>1, Zenon
    <3>2. \A i \in DOMAIN queue[m] : queue[m][i] # t
      <4> SUFFICES ASSUME NEW i \in DOMAIN queue[m], queue[m][i] = t PROVE FALSE
        BY Zenon
      <4>0. Waits(todo, queue[m][i], m)
        BY <1>1, Zenon DEF Queues
      <4>1. Waits(todo, t, m)
        BY <4>0
      <4> QED BY <1>3, <2>1, <4>1, Zenon DEF Waits
    <3> QED BY <1>1, <1>10, <3>1, <3>2, Zenon DEF Queues
  <2>2. CASE m = l
    <3>1. queue'[m] = Tail(q) /\ DOMAIN queue'[m] = 1..(Len(q) - 1)
      BY <1>2, <1>8, <2>2, Zenon
    <3>2. \A i, j \in DOMAIN q : q[i] = q[j] => i = j
      BY <1>1, Zenon DEF Queues
    <3>3. ASSUME NEW i \in 1..(Len(q) - 1) PROVE Waits(todo', Tail(q)[i], l)
      <4>1. Tail(q)[i] = q[i + 1] /\ i + 1 \in DOMAIN q
        BY <1>2, Zenon
      <4>2. i + 1 # 1
        BY <1>2
      <4>3. q[i + 1] # t
        BY <1>2, <3>2, <4>1, <4>2, Zenon
      <4> QED BY <1>10, <4>1, <4>3, Zenon
    <3>4. ASSUME NEW i \in 1..(Len(q) - 1), NEW j \in 1..(Len(q) - 1), Tail(q)[i] = Tail(q)[j] PROVE i = j
      <4>1. Tail(q)[i] = q[i + 1] /\ i + 1 \in DOMAIN q /\ Tail(q)[j] = q[j + 1] /\ j + 1 \in DOMAIN q
        BY <1>2, Zenon
      <4>2. i + 1 = j + 1
        BY <3>2, <3>4, <4>1, Zenon
      <4> QED BY <1>2, <4>2
    <3>5. \A i \in DOMAIN queue'[m] : Waits(todo', queue'[m][i], m)
      BY <2>2, <3>1, <3>3
    <3>6. \A i, j \in DOMAIN queue'[m] : queue'[m][i] = queue'[m][j] => i = j
      BY <3>1, <3>4, Zenon
    <3> QED BY <3>5, <3>6, Zenon
  <2> QED BY <2>1, <2>2, Zenon
<1> QED BY <1>6, <1>7, <1>9, <1>11, Zenon DEF IInv, Types

(* DropGuard *)
LEMMA DropGuardStep ==
  ASSUME IInv, NEW t \in Task, DropGuard(t)
  PROVE  IInv'
<1>1. /\ todo[t] # <<>> /\ Head(todo[t]).op = "drop" /\ held' = [held EXCEPT ![Head(todo[t]).lock][t] = 0]
      /\ todo' = [todo EXCEPT ![t] = Tail(todo[t])] /\ UNCHANGED queue
  BY Zenon DEF DropGuard, Next1, Op
<1>2. Triple(Holds(t), todo[t], {})
  BY Zenon DEF IInv, Ordered
<1>3. Triple(Holds(t) \ {Head(todo[t]).lock}, Tail(todo[t]), {}) /\ Head(todo[t]) \in HandlerStep
  BY <1>1, <1>2, NextStep, Zenon
<1>4. Head(todo[t]).lock \in Locks
  BY <1>1, <1>3 DEF HandlerStep
<1> PICK l \in Locks : l = Head(todo[t]).lock
  BY <1>4, Zenon
<1>5. 0 \in 0..MaxReads /\ 0 = 0
  BY RequestsAssumption
<1>6. /\ held' \in [Locks -> [Task -> 0..MaxReads]]
      /\ \A m \in Locks : m # l => Permits(m)' = Permits(m)
      /\ \A u \in Task \ {t} : Holds(u)' = Holds(u)
      /\ Holds(t)' = Holds(t) \ {l} /\ \A u \in Task : held'[l][u] <= held[l][u]
  BY <1>1, <1>4, <1>5, HeldChange, Zenon
<1>7. WithinLimit'
  <2>1. /\ Cardinality(Permits(l)') <= Cardinality(Permits(l)) /\ Cardinality(Permits(l)) \in Nat
        /\ Cardinality(Permits(l)') \in Nat
    BY <1>6, PermitsBack, Zenon DEF IInv, Types
  <2>2. Cardinality(Permits(l)) <= MaxReads
    BY <1>4, Zenon DEF IInv, WithinLimit
  <2>3. Cardinality(Permits(l)') <= MaxReads
    BY <2>1, <2>2, RequestsAssumption
  <2> QED BY <1>6, <2>3, Zenon DEF IInv, WithinLimit
<1>8. /\ todo' \in [Task -> Seq(HandlerStep)] /\ Ordered' /\ \A u \in Task \ {t} : todo'[u] = todo[u]
  <2>1. Triple(Holds(t)', Tail(todo[t]), {}) /\ \E x \in DOMAIN Program : IsRest(Tail(todo[t]), Program[x])
    BY <1>1, <1>3, <1>6, RestStays, Zenon
  <2> QED BY <1>1, <1>6, <2>1, OneTask, Zenon
<1>9. queue' \in [Locks -> Seq(Task)] /\ Queues'
  <2>1. ~Queued(t)
    <3>1. Op(t) # "acquire"
      BY <1>1 DEF Op
    <3> QED BY <3>1, NotQueued, Zenon
  <2> QED BY <1>1, <1>8, <2>1, QueuesStay, Zenon
<1> QED BY <1>6, <1>7, <1>8, <1>9, Zenon DEF IInv, Types

(* Awaited: the request goes on, or ends and gives back what it held. *)
LEMMA AwaitedStep ==
  ASSUME IInv, NEW t \in Task, Awaited(t)
  PROVE  IInv'
<1>1. todo[t] # <<>> /\ Head(todo[t]).op = "work" /\ UNCHANGED queue
  BY Zenon DEF Awaited, Op
<1>2. ~Queued(t)
  <2>1. Op(t) # "acquire"
    BY <1>1 DEF Op
  <2> QED BY <2>1, NotQueued, Zenon
<1>3. CASE Next1(t) /\ UNCHANGED held
  <2>1. \A u \in Task : Holds(u)' = Holds(u)
    BY <1>3, Zenon DEF Holds
  <2>2. Triple(Holds(t), Tail(todo[t]), {})
    <3>1. Triple(Holds(t), todo[t], {})
      BY Zenon DEF IInv, Ordered
    <3> QED BY <1>1, <3>1, NextStep, Zenon
  <2>3. /\ todo' \in [Task -> Seq(HandlerStep)] /\ Ordered' /\ \A u \in Task \ {t} : todo'[u] = todo[u]
    <3>1. todo' = [todo EXCEPT ![t] = Tail(todo[t])]
      BY <1>3, Zenon DEF Next1
    <3>2. Triple(Holds(t)', Tail(todo[t]), {}) /\ \E x \in DOMAIN Program : IsRest(Tail(todo[t]), Program[x])
      BY <1>1, <2>1, <2>2, RestStays, Zenon
    <3> QED BY <2>1, <3>1, <3>2, OneTask, Zenon
  <2>4. queue' \in [Locks -> Seq(Task)] /\ Queues'
    BY <1>1, <1>2, <2>3, QueuesStay, Zenon
  <2>5. held' \in [Locks -> [Task -> 0..MaxReads]] /\ WithinLimit'
    BY <1>3, Zenon DEF IInv, Types, WithinLimit, Permits
  <2> QED BY <2>3, <2>4, <2>5, Zenon DEF IInv, Types
<1>4. CASE todo' = [todo EXCEPT ![t] = <<>>] /\ held' = [l \in Locks |-> [held[l] EXCEPT ![t] = 0]]
  <2>1. held \in [Locks -> [Task -> 0..MaxReads]] /\ 0 \in 0..MaxReads
    BY RequestsAssumption DEF IInv, Types
  <2>2. held' \in [Locks -> [Task -> 0..MaxReads]]
    BY <1>4, <2>1
  <2>3. \A l \in Locks, u \in Task : held'[l][u] = IF u = t THEN 0 ELSE held[l][u]
    BY <1>4, <2>1
  <2>4. Holds(t)' = {}
    <3>1. \A l \in Locks : ~(held'[l][t] > 0)
      BY <2>3
    <3> QED BY <3>1, Zenon DEF Holds
  <2>5. \A u \in Task \ {t} : Holds(u)' = Holds(u)
    <3> SUFFICES ASSUME NEW u \in Task \ {t} PROVE {m \in Locks : held'[m][u] > 0} = {m \in Locks : held[m][u] > 0}
      BY Zenon DEF Holds
    <3>1. \A m \in Locks : held'[m][u] = held[m][u]
      BY <2>3
    <3> QED BY <3>1, Zenon
  <2>6. WithinLimit'
    <3> SUFFICES ASSUME NEW l \in Locks PROVE Cardinality(Permits(l)') <= MaxReads
      BY Zenon DEF WithinLimit
    <3>1. \A u \in Task : held'[l][u] <= held[l][u]
      <4> SUFFICES ASSUME NEW u \in Task PROVE held'[l][u] <= held[l][u]
        BY Zenon
      <4>1. held[l][u] \in 0..MaxReads
        BY <2>1
      <4> QED BY <2>3, <4>1, RequestsAssumption
    <3>2. /\ Cardinality(Permits(l)') <= Cardinality(Permits(l)) /\ Cardinality(Permits(l)) \in Nat
          /\ Cardinality(Permits(l)') \in Nat
      BY <2>1, <2>2, <3>1, PermitsBack, Zenon
    <3>3. Cardinality(Permits(l)) <= MaxReads
      BY Zenon DEF IInv, WithinLimit
    <3> QED BY <3>2, <3>3, RequestsAssumption
  <2>7. /\ todo' \in [Task -> Seq(HandlerStep)] /\ Ordered' /\ \A u \in Task \ {t} : todo'[u] = todo[u]
    <3>1. Triple(Holds(t)', <<>>, {})
      BY <2>4, Over, Zenon
    <3> QED BY <1>4, <2>5, <3>1, EmptyRest, OneTask, Zenon
  <2>8. queue' \in [Locks -> Seq(Task)] /\ Queues'
    BY <1>1, <1>2, <2>7, QueuesStay, Zenon
  <2> QED BY <2>2, <2>6, <2>7, <2>8, Zenon DEF IInv, Types
<1> QED BY <1>3, <1>4, Zenon DEF Awaited

(* CheckEnabled: with the injector asked or without. *)
LEMMA CheckEnabledStep ==
  ASSUME IInv, NEW t \in Task, CheckEnabled(t)
  PROVE  IInv'
<1>1. todo[t] # <<>> /\ Head(todo[t]).op = "inject" /\ UNCHANGED <<held, queue>>
  BY Zenon DEF CheckEnabled, Op
<1>2. ~Queued(t)
  <2>1. Op(t) # "acquire"
    BY <1>1 DEF Op
  <2> QED BY <2>1, NotQueued, Zenon
<1>3. Triple(Holds(t), todo[t], {})
  BY Zenon DEF IInv, Ordered
<1>4. /\ Triple(Holds(t), Tail(todo[t]), {})
      /\ Head(todo[t]).skip + 2 \in 1..(Len(todo[t]) + 1)
      /\ Triple(Holds(t), SubSeq(todo[t], Head(todo[t]).skip + 2, Len(todo[t])), {})
  BY <1>1, <1>3, NextStep, Zenon
<1>5. PICK r : /\ todo' = [todo EXCEPT ![t] = r] /\ Triple(Holds(t), r, {})
               /\ \E k \in DOMAIN Program : IsRest(r, Program[k])
  <2>1. CASE Next1(t)
    BY <1>1, <1>4, <2>1, RestStays, Zenon DEF Next1
  <2>2. CASE todo' = [todo EXCEPT ![t] = SubSeq(todo[t], Head(todo[t]).skip + 2, Len(todo[t]))]
    BY <1>1, <1>4, <2>2, RestStays, Zenon
  <2> QED BY <2>1, <2>2, Zenon DEF CheckEnabled
<1>6. \A u \in Task : Holds(u)' = Holds(u)
  BY <1>1, Zenon DEF Holds
<1>7. /\ todo' \in [Task -> Seq(HandlerStep)] /\ Ordered' /\ \A u \in Task \ {t} : todo'[u] = todo[u]
  BY <1>5, <1>6, OneTask, Zenon
<1>8. queue' \in [Locks -> Seq(Task)] /\ Queues'
  BY <1>1, <1>2, <1>7, QueuesStay, Zenon
<1>9. held' \in [Locks -> [Task -> 0..MaxReads]] /\ WithinLimit'
  BY <1>1, Zenon DEF IInv, Types, WithinLimit, Permits
<1> QED BY <1>7, <1>8, <1>9, Zenon DEF IInv, Types

(* Every step keeps the invariant. *)
LEMMA StepInv == IInv /\ [Next]_vars => IInv'
<1> SUFFICES ASSUME IInv, [Next]_vars PROVE IInv'
  BY Zenon
<1>1. CASE UNCHANGED vars
  <2>1. Types' /\ WithinLimit'
    BY <1>1, Zenon DEF IInv, vars, Types, WithinLimit, Permits
  <2>2. Ordered'
    BY <1>1, Zenon DEF IInv, vars, Ordered, Holds
  <2>3. Queues'
    BY <1>1, Zenon DEF IInv, vars, Queues
  <2> QED BY <2>1, <2>2, <2>3, Zenon DEF IInv
<1>2. CASE Next
  BY <1>2, SpawnStep, TakeStep, GrantStep, DropGuardStep, AwaitedStep, CheckEnabledStep, Zenon DEF Next, Step
<1> QED BY <1>1, <1>2, Zenon

(* Whatever requests come and however they fail, each task stays within    *)
(* its handler and each lock within its permits; a request that has ended  *)
(* holds nothing.                                                          *)
THEOREM TypeCorrect == Spec => []TypeOK
<1>1. IInv => TypeOK
  <2> SUFFICES ASSUME IInv PROVE TypeOK
    BY Zenon
  <2>1. DOMAIN todo = Task /\ DOMAIN queue = Locks /\ held \in [Locks -> [Task -> 0..MaxReads]]
    BY Zenon DEF IInv, Types
  <2>2. \A t \in Task : \E k \in DOMAIN Program : IsRest(todo[t], Program[k])
    BY Zenon DEF IInv, Ordered
  <2>3. ASSUME NEW l \in Locks PROVE Free(l) \in 0..MaxReads
    <3>1. Cardinality(Permits(l)) \in Nat /\ Cardinality(Permits(l)) <= MaxReads
      BY PermitsFinite, Zenon DEF IInv, WithinLimit, Permits
    <3> QED BY <3>1, RequestsAssumption DEF Free
  <2>4. ASSUME NEW l \in Locks, NEW i \in DOMAIN queue[l]
        PROVE  /\ queue[l][i] \in Task /\ todo[queue[l][i]] # <<>> /\ Op(queue[l][i]) = "acquire"
               /\ Head(todo[queue[l][i]]).lock = l
    <3>1. queue[l] \in Seq(Task)
      BY Zenon DEF IInv, Types
    <3>2. queue[l][i] \in Task
      BY <3>1
    <3> QED BY <3>2, Zenon DEF IInv, Queues, Waits, Op
  <2>5. ASSUME NEW t \in Task, todo[t] = <<>>, NEW l \in Locks PROVE held[l][t] = 0
    <3>1. Holds(t) = {}
      BY <2>5, EmptyTriple, Zenon DEF IInv, Ordered
    <3>2. held[l][t] \in 0..MaxReads
      BY <2>1, Zenon
    <3> QED BY <3>1, <3>2, RequestsAssumption DEF Holds
  <2> QED BY <2>1, <2>2, <2>3, <2>4, <2>5, Zenon DEF TypeOK
<1> QED BY <1>1, InitInv, StepInv, PTL DEF Spec

(* No request takes the locks against their order, or one it holds. *)
THEOREM LocksInOrder == Spec => []LockOrder
<1>1. IInv => LockOrder
  <2> SUFFICES ASSUME IInv, NEW t \in Task, todo[t] # <<>>, Op(t) = "acquire", NEW l \in Locks, held[l][t] > 0
               PROVE  Rank[l] < Rank[Head(todo[t]).lock]
    BY Zenon DEF LockOrder
  <2>1. Waits(todo, t, Head(todo[t]).lock)
    BY Zenon DEF Waits, Op
  <2>2. l \in Holds(t)
    BY Zenon DEF Holds
  <2> QED BY <2>1, <2>2, Asks, Zenon
<1> QED BY <1>1, InitInv, StepInv, PTL DEF Spec

(* For any number of requests: if every one of them waits, the lock of the *)
(* highest rank that somebody waits for is held by nobody, so that the     *)
(* first in its queue can have it.                                         *)
THEOREM NeverAllWaiting == Spec => []NotAllWaiting
<1>1. IInv => NotAllWaiting
  <2> SUFFICES ASSUME IInv, NEW t0 \in Task, todo[t0] # <<>>, \A t \in Task : todo[t] # <<>> => Queued(t)
               PROVE  \E l \in Locks : queue[l] # <<>> /\ Head(todo[Head(queue[l])]).permits <= Free(l)
    BY Zenon DEF NotAllWaiting
  <2>1. \A l \in Locks : queue[l] \in Seq(Task)
    BY Zenon DEF IInv, Types
  <2>2. PICK l \in Locks : queue[l] # <<>> /\ \A m \in Locks : queue[m] # <<>> => ~(Rank[l] < Rank[m])
    <3>1. \E l \in Locks : queue[l] # <<>>
      <4>1. PICK l \in Locks : \E i \in DOMAIN queue[l] : queue[l][i] = t0
        BY Zenon DEF Queued
      <4>2. queue[l] # <<>>
        BY <2>1, <4>1
      <4> QED BY <4>2, Zenon
    <3>2. \A l \in Locks : queue[l] # <<>> => Rank[l] \in {1, 2, 3}
      BY LockNames
    <3> QED BY <3>1, LockNames
  <2>3. ASSUME NEW t \in Task PROVE held[l][t] = 0
    <3>1. held[l][t] \in 0..MaxReads
      BY Zenon DEF IInv, Types
    <3>2. CASE todo[t] = <<>>
      <4>1. Holds(t) = {}
        BY <3>2, EmptyTriple, Zenon DEF IInv, Ordered
      <4> QED BY <3>1, <4>1, RequestsAssumption DEF Holds
    <3>3. CASE todo[t] # <<>>
      <4>0. PICK m \in Locks : \E i \in DOMAIN queue[m] : queue[m][i] = t
        BY <3>3, Zenon DEF Queued
      <4>1. PICK i \in DOMAIN queue[m] : queue[m][i] = t
        BY <4>0, Zenon
      <4>2. queue[m] # <<>>
        BY <2>1, <4>1
      <4>3. Waits(todo, queue[m][i], m)
        BY <4>1, Zenon DEF IInv, Queues
      <4>4. \A n \in Holds(t) : Rank[n] < Rank[m]
        BY <4>1, <4>3, Asks, Zenon
      <4>5. l \notin Holds(t)
        BY <2>2, <4>2, <4>4, Zenon
      <4> QED BY <3>1, <4>5, RequestsAssumption DEF Holds
    <3> QED BY <3>2, <3>3, Zenon
  <2>4. Free(l) = MaxReads
    BY <2>3, AllFree, Zenon
  <2>5. Head(queue[l]) = queue[l][1] /\ 1 \in DOMAIN queue[l] /\ queue[l][1] \in Task
    BY <2>1, <2>2
  <2>6. Waits(todo, queue[l][1], l)
    BY <2>5, Zenon DEF IInv, Queues
  <2>7. Head(todo[queue[l][1]]).permits \in 1..MaxReads
    BY <2>5, <2>6, Asks, Zenon
  <2>8. Head(todo[queue[l][1]]).permits <= MaxReads
    BY <2>7, RequestsAssumption
  <2> QED BY <2>2, <2>4, <2>5, <2>8
<1> QED BY <1>1, InitInv, StepInv, PTL DEF Spec
=============================================================================
