--------------------------- MODULE ReaddirProofs ---------------------------
(***************************************************************************)
(* Proofs about Readdir, for every directory, every size of a reply and    *)
(* any number of changes.  What a listing has lost, or is going to repeat, *)
(* is counted by the places of the directory on either side of the offset: *)
(* an entry added or removed moves at most one place across it.            *)
(***************************************************************************)
EXTENDS Readdir, TLAPS, FiniteSetTheorems

Passed(d, o, S) == {i \in DOMAIN d : i <= o /\ d[i] \in S}

Coming(d, o, S) == {i \in DOMAIN d : i > o /\ d[i] \in S}

(* The inductive invariant.  Each entry that was there all the time, lies  *)
(* before the offset and was not returned has cost a removal; each one     *)
(* that was returned and lies after the offset has cost an addition.       *)
IInv ==
  /\ TypeOK
  /\ Cardinality(Passed(dir, offset, stayed \ got)) <= removed
  /\ repeated + Cardinality(Coming(dir, offset, got)) <= added
  /\ phase = "end" => offset >= Len(dir)

-----------------------------------------------------------------------------
(* Sets *)

(* A set each of whose elements is the value of f at an element of S. *)
LEMMA Onto ==
  ASSUME NEW S, NEW T, NEW f, IsFiniteSet(S), \A y \in T : \E x \in S : f[x] = y
  PROVE  IsFiniteSet(T) /\ Cardinality(T) <= Cardinality(S)
<1> DEFINE R == {x \in S : f[x] \in T}
           g == [x \in R |-> f[x]]
<1>1. \A y \in T : \E x \in R : g[x] = y
  BY Zenon
<1>2. g \in Surjection(R, T)
  BY <1>1, Zenon DEF Surjection
<1>3. R \in SUBSET S
  BY Zenon
<1>4. IsFiniteSet(R) /\ Cardinality(R) <= Cardinality(S)
  BY <1>3, FS_Subset, Zenon
<1>5. IsFiniteSet(T) /\ Cardinality(T) <= Cardinality(R)
  BY <1>2, <1>4, FS_Surjection, Zenon
<1>6. Cardinality(R) \in Nat /\ Cardinality(S) \in Nat /\ Cardinality(T) \in Nat
  BY <1>4, <1>5, FS_CardinalityType, Zenon
<1> QED BY <1>4, <1>5, <1>6

(* The same of all elements but one. *)
LEMMA OntoButOne ==
  ASSUME NEW S, NEW T, NEW f, NEW z, IsFiniteSet(S), \A y \in T \ {z} : \E x \in S : f[x] = y
  PROVE  IsFiniteSet(T) /\ Cardinality(T) <= Cardinality(S) + 1
<1>1. IsFiniteSet(T \ {z}) /\ Cardinality(T \ {z}) <= Cardinality(S)
  BY Onto, Zenon
<1>2. /\ IsFiniteSet((T \ {z}) \cup {z})
      /\ Cardinality((T \ {z}) \cup {z}) = IF z \in T \ {z} THEN Cardinality(T \ {z}) ELSE Cardinality(T \ {z}) + 1
  BY <1>1, FS_AddElement, Zenon
<1>3. T \in SUBSET ((T \ {z}) \cup {z})
  BY Zenon
<1>4. IsFiniteSet(T) /\ Cardinality(T) <= Cardinality((T \ {z}) \cup {z})
  BY <1>2, <1>3, FS_Subset, Zenon
<1>5. Cardinality(T) \in Nat /\ Cardinality(S) \in Nat /\ Cardinality(T \ {z}) \in Nat
  BY <1>1, <1>4, FS_CardinalityType, Zenon
<1> QED BY <1>1, <1>2, <1>4, <1>5

-----------------------------------------------------------------------------
(* Sequences *)

(* The directory r after the entry e is added to s at place k. *)
Put(r, s, k, e) == r = SubSeq(s, 1, k - 1) \o <<e>> \o SubSeq(s, k, Len(s))

(* t is s with e put at place k. *)
Inserted(t, s, k, e) ==
  /\ Len(t) = Len(s) + 1
  /\ \A i \in 1..Len(t) : t[i] = IF i < k THEN s[i] ELSE IF i = k THEN e ELSE s[i - 1]

(* t is s without its place k. *)
Removed(t, s, k) ==
  /\ Len(t) = Len(s) - 1
  /\ \A i \in 1..Len(t) : t[i] = IF i < k THEN s[i] ELSE s[i + 1]

(* A sequence, as the steps below use it. *)
LEMMA SeqFacts ==
  ASSUME NEW S, NEW s \in Seq(S)
  PROVE  Len(s) \in Nat /\ DOMAIN s = 1..Len(s) /\ \A i \in 1..Len(s) : s[i] \in S
OBVIOUS

(* A stretch of a sequence. *)
LEMMA SubSeqFacts ==
  ASSUME NEW S, NEW s \in Seq(S), NEW m \in 1..(Len(s) + 1), NEW n \in 0..Len(s), m <= n + 1
  PROVE  /\ SubSeq(s, m, n) \in Seq(S) /\ Len(SubSeq(s, m, n)) = n - m + 1
         /\ \A i \in 1..(n - m + 1) : SubSeq(s, m, n)[i] = s[m + i - 1]
OBVIOUS

(* A concatenation. *)
LEMMA ConcatFacts ==
  ASSUME NEW S, NEW s \in Seq(S), NEW t \in Seq(S)
  PROVE  /\ s \o t \in Seq(S) /\ Len(s \o t) = Len(s) + Len(t)
         /\ \A i \in 1..(Len(s) + Len(t)) : (s \o t)[i] = IF i <= Len(s) THEN s[i] ELSE t[i - Len(s)]
OBVIOUS

(* An entry is added. *)
LEMMA InsertFacts ==
  ASSUME NEW S, NEW s \in Seq(S), NEW k \in 1..(Len(s) + 1), NEW e \in S,
         NEW r, Put(r, s, k, e)
  PROVE  r \in Seq(S) /\ Inserted(r, s, k, e)
<1> DEFINE a == SubSeq(s, 1, k - 1)
           b == <<e>>
           c == SubSeq(s, k, Len(s))
<1>0. Len(s) \in Nat
  OBVIOUS
<1>1. a \in Seq(S) /\ Len(a) = k - 1 /\ \A i \in 1..(k - 1) : a[i] = s[i]
  BY <1>0, SubSeqFacts
<1>2. c \in Seq(S) /\ Len(c) = Len(s) - k + 1 /\ \A i \in 1..(Len(s) - k + 1) : c[i] = s[k + i - 1]
  BY <1>0, SubSeqFacts
<1>3. b \in Seq(S) /\ Len(b) = 1 /\ b[1] = e
  OBVIOUS
<1>4. r = (a \o b) \o c
  BY Zenon DEF Put
<1> HIDE DEF a, b, c
<1>5. /\ a \o b \in Seq(S) /\ Len(a \o b) = k
      /\ \A i \in 1..k : (a \o b)[i] = IF i < k THEN s[i] ELSE e
  <2>1. /\ a \o b \in Seq(S) /\ Len(a \o b) = Len(a) + Len(b)
        /\ \A i \in 1..(Len(a) + Len(b)) : (a \o b)[i] = IF i <= Len(a) THEN a[i] ELSE b[i - Len(a)]
    BY <1>1, <1>3, ConcatFacts, Zenon
  <2> QED BY <1>0, <1>1, <1>3, <2>1
<1> DEFINE d == a \o b
<1> HIDE DEF d
<1>6. d \in Seq(S) /\ Len(d) = k /\ \A i \in 1..k : d[i] = IF i < k THEN s[i] ELSE e
  BY <1>5, Zenon DEF d
<1>7. /\ d \o c \in Seq(S) /\ Len(d \o c) = Len(d) + Len(c)
      /\ \A i \in 1..(Len(d) + Len(c)) : (d \o c)[i] = IF i <= Len(d) THEN d[i] ELSE c[i - Len(d)]
  BY <1>2, <1>6, ConcatFacts, Zenon
<1> DEFINE t == d \o c
<1> HIDE DEF t
<1>8. Inserted(t, s, k, e)
  <2>1. Len(t) = Len(s) + 1
    BY <1>0, <1>2, <1>6, <1>7 DEF t
  <2>2. ASSUME NEW i \in 1..(Len(s) + 1) PROVE t[i] = IF i < k THEN s[i] ELSE IF i = k THEN e ELSE s[i - 1]
    <3>1. t[i] = IF i <= k THEN d[i] ELSE c[i - k]
      BY <1>0, <1>2, <1>6, <1>7 DEF t
    <3>2. CASE i <= k
      BY <1>0, <1>6, <3>1, <3>2
    <3>3. CASE ~(i <= k)
      <4>1. i - k \in 1..(Len(s) - k + 1) /\ k + (i - k) - 1 = i - 1
        BY <1>0, <3>3
      <4>2. c[i - k] = s[i - 1]
        BY <1>2, <4>1
      <4> QED BY <3>1, <3>3, <4>2
    <3> QED BY <3>2, <3>3
  <2> QED BY <2>1, <2>2 DEF Inserted
<1> QED BY <1>4, <1>7, <1>8, Zenon DEF t, d

(* An entry is removed. *)
LEMMA RemoveFacts ==
  ASSUME NEW S, NEW s \in Seq(S), NEW k \in 1..Len(s),
         NEW r, r = SubSeq(s, 1, k - 1) \o SubSeq(s, k + 1, Len(s))
  PROVE  r \in Seq(S) /\ Removed(r, s, k)
<1> DEFINE a == SubSeq(s, 1, k - 1)
           c == SubSeq(s, k + 1, Len(s))
<1>0. Len(s) \in Nat
  OBVIOUS
<1>1. a \in Seq(S) /\ Len(a) = k - 1 /\ \A i \in 1..(k - 1) : a[i] = s[i]
  BY <1>0, SubSeqFacts
<1>2. c \in Seq(S) /\ Len(c) = Len(s) - k /\ \A i \in 1..(Len(s) - k) : c[i] = s[k + i]
  BY <1>0, SubSeqFacts
<1>3. r = a \o c
  BY Zenon
<1> HIDE DEF a, c
<1>4. /\ a \o c \in Seq(S) /\ Len(a \o c) = Len(a) + Len(c)
      /\ \A i \in 1..(Len(a) + Len(c)) : (a \o c)[i] = IF i <= Len(a) THEN a[i] ELSE c[i - Len(a)]
  BY <1>1, <1>2, ConcatFacts, Zenon
<1> DEFINE t == a \o c
<1> HIDE DEF t
<1>5. Removed(t, s, k)
  <2>1. Len(t) = Len(s) - 1
    BY <1>0, <1>1, <1>2, <1>4 DEF t
  <2>2. ASSUME NEW i \in 1..(Len(s) - 1) PROVE t[i] = IF i < k THEN s[i] ELSE s[i + 1]
    <3>0. i \in 1..(Len(a) + Len(c))
      BY <1>0, <1>1, <1>2
    <3>1. t[i] = IF i <= k - 1 THEN a[i] ELSE c[i - (k - 1)]
      BY <1>1, <1>4, <3>0 DEF t
    <3>2. CASE i <= k - 1
      BY <1>0, <1>1, <3>1, <3>2
    <3>3. CASE ~(i <= k - 1)
      <4>1. i - (k - 1) \in 1..(Len(s) - k) /\ k + (i - (k - 1)) = i + 1 /\ ~(i < k)
        BY <1>0, <3>3
      <4>2. c[i - (k - 1)] = s[i + 1]
        BY <1>2, <4>1
      <4> QED BY <3>1, <3>3, <4>1, <4>2
    <3> QED BY <3>2, <3>3
  <2> QED BY <2>1, <2>2 DEF Removed
<1> QED BY <1>3, <1>4, <1>5, Zenon DEF t

-----------------------------------------------------------------------------
(* Places on either side of the offset *)

(* They are finitely many. *)
LEMMA PlacesFinite ==
  ASSUME NEW S, NEW d \in Seq(S), NEW o, NEW R
  PROVE  /\ IsFiniteSet(Passed(d, o, R)) /\ Cardinality(Passed(d, o, R)) \in Nat
         /\ IsFiniteSet(Coming(d, o, R)) /\ Cardinality(Coming(d, o, R)) \in Nat
<1>1. IsFiniteSet(1..Len(d))
  <2>1. Len(d) \in Int /\ 1 \in Int
    OBVIOUS
  <2> QED BY <2>1, FS_Interval, Zenon
<1>2. Passed(d, o, R) \in SUBSET (1..Len(d)) /\ Coming(d, o, R) \in SUBSET (1..Len(d))
  BY SeqFacts, Zenon DEF Passed, Coming
<1>3. IsFiniteSet(Passed(d, o, R)) /\ IsFiniteSet(Coming(d, o, R))
  BY <1>1, <1>2, FS_Subset, Zenon
<1> QED BY <1>3, FS_CardinalityType, Zenon

(* An entry that was not there moves no other one to before the offset. *)
LEMMA InsertPassed ==
  ASSUME NEW S, NEW d \in Seq(S), NEW t \in Seq(S), NEW k \in 1..(Len(d) + 1), NEW e \in S,
         NEW o \in Nat, NEW R, Inserted(t, d, k, e), e \notin R
  PROVE  Cardinality(Passed(t, o, R)) <= Cardinality(Passed(d, o, R))
<1> DEFINE f == [i \in Nat |-> IF i < k THEN i ELSE i + 1]
<1>0. Len(d) \in Nat /\ DOMAIN d = 1..Len(d) /\ DOMAIN t = 1..(Len(d) + 1)
  BY SeqFacts DEF Inserted
<1>1. ASSUME NEW y \in Passed(t, o, R) PROVE \E x \in Passed(d, o, R) : f[x] = y
  <2>1. y \in 1..(Len(d) + 1) /\ y <= o /\ t[y] \in R
    BY <1>0 DEF Passed
  <2>2. t[y] = IF y < k THEN d[y] ELSE IF y = k THEN e ELSE d[y - 1]
    BY <1>0, <2>1 DEF Inserted
  <2>3. CASE y < k
    <3>1. t[y] = d[y] /\ y \in 1..Len(d)
      BY <1>0, <2>1, <2>2, <2>3
    <3>2. y \in Passed(d, o, R)
      BY <1>0, <2>1, <3>1 DEF Passed
    <3>3. f[y] = y
      BY <2>1, <2>3
    <3> QED BY <3>2, <3>3, Zenon
  <2>4. CASE ~(y < k)
    <3>1. y > k
      BY <2>1, <2>2, <2>4
    <3>2. t[y] = d[y - 1] /\ y - 1 \in 1..Len(d)
      BY <1>0, <2>1, <2>2, <3>1
    <3>3. y - 1 \in Passed(d, o, R)
      BY <1>0, <2>1, <3>1, <3>2 DEF Passed
    <3>4. f[y - 1] = y
      BY <2>1, <3>1
    <3> QED BY <3>3, <3>4, Zenon
  <2> QED BY <2>3, <2>4, Zenon
<1> HIDE DEF f
<1>2. IsFiniteSet(Passed(d, o, R))
  BY PlacesFinite, Zenon
<1> QED BY <1>1, <1>2, Onto, Zenon

(* It moves one at most to after the offset, or comes there itself. *)
LEMMA InsertComing ==
  ASSUME NEW S, NEW d \in Seq(S), NEW t \in Seq(S), NEW k \in 1..(Len(d) + 1), NEW e \in S,
         NEW o \in Nat, NEW R, Inserted(t, d, k, e)
  PROVE  Cardinality(Coming(t, o, R)) <= Cardinality(Coming(d, o, R)) + 1
<1> DEFINE f == [i \in Nat |-> IF i < k THEN i ELSE i + 1]
           z == IF k <= o THEN o + 1 ELSE k
<1>0. Len(d) \in Nat /\ DOMAIN d = 1..Len(d) /\ DOMAIN t = 1..(Len(d) + 1)
  BY SeqFacts DEF Inserted
<1>1. ASSUME NEW y \in Coming(t, o, R) \ {z} PROVE \E x \in Coming(d, o, R) : f[x] = y
  <2>1. y \in 1..(Len(d) + 1) /\ y > o /\ t[y] \in R /\ y # z
    BY <1>0 DEF Coming
  <2>2. t[y] = IF y < k THEN d[y] ELSE IF y = k THEN e ELSE d[y - 1]
    BY <1>0, <2>1 DEF Inserted
  <2>3. CASE y < k
    <3>1. t[y] = d[y] /\ y \in 1..Len(d)
      BY <1>0, <2>1, <2>2, <2>3
    <3>2. y \in Coming(d, o, R)
      BY <1>0, <2>1, <3>1 DEF Coming
    <3>3. f[y] = y
      BY <2>1, <2>3
    <3> QED BY <3>2, <3>3, Zenon
  <2>4. CASE ~(y < k)
    <3>1. y > k /\ y - 1 > o
      BY <2>1, <2>4
    <3>2. t[y] = d[y - 1] /\ y - 1 \in 1..Len(d)
      BY <1>0, <2>1, <2>2, <3>1
    <3>3. y - 1 \in Coming(d, o, R)
      BY <1>0, <2>1, <3>1, <3>2 DEF Coming
    <3>4. f[y - 1] = y
      BY <2>1, <3>1
    <3> QED BY <3>3, <3>4, Zenon
  <2> QED BY <2>3, <2>4, Zenon
<1> HIDE DEF f, z
<1>2. IsFiniteSet(Coming(d, o, R))
  BY PlacesFinite, Zenon
<1> QED BY <1>1, <1>2, OntoButOne, Zenon

(* A removal moves one entry at most to before the offset. *)
LEMMA RemovePassed ==
  ASSUME NEW S, NEW d \in Seq(S), NEW t \in Seq(S), NEW k \in 1..Len(d),
         NEW o \in Nat, NEW R, Removed(t, d, k)
  PROVE  Cardinality(Passed(t, o, R)) <= Cardinality(Passed(d, o, R)) + 1
<1> DEFINE f == [i \in Nat |-> IF i < k THEN i ELSE i - 1]
<1>0. Len(d) \in Nat /\ DOMAIN d = 1..Len(d) /\ DOMAIN t = 1..(Len(d) - 1)
  BY SeqFacts DEF Removed
<1>1. ASSUME NEW y \in Passed(t, o, R) \ {o} PROVE \E x \in Passed(d, o, R) : f[x] = y
  <2>1. y \in 1..(Len(d) - 1) /\ y < o /\ t[y] \in R
    BY <1>0 DEF Passed
  <2>2. t[y] = IF y < k THEN d[y] ELSE d[y + 1]
    BY <1>0, <2>1 DEF Removed
  <2>3. CASE y < k
    <3>1. y \in Passed(d, o, R) /\ f[y] = y
      BY <1>0, <2>1, <2>2, <2>3 DEF Passed
    <3> QED BY <3>1, Zenon
  <2>4. CASE ~(y < k)
    <3>1. y + 1 \in Passed(d, o, R) /\ f[y + 1] = y
      BY <1>0, <2>1, <2>2, <2>4 DEF Passed
    <3> QED BY <3>1, Zenon
  <2> QED BY <2>3, <2>4, Zenon
<1> HIDE DEF f
<1>2. IsFiniteSet(Passed(d, o, R))
  BY PlacesFinite, Zenon
<1> QED BY <1>1, <1>2, OntoButOne, Zenon

(* And none to after it. *)
LEMMA RemoveComing ==
  ASSUME NEW S, NEW d \in Seq(S), NEW t \in Seq(S), NEW k \in 1..Len(d),
         NEW o \in Nat, NEW R, Removed(t, d, k)
  PROVE  Cardinality(Coming(t, o, R)) <= Cardinality(Coming(d, o, R))
<1> DEFINE f == [i \in Nat |-> IF i < k THEN i ELSE i - 1]
<1>0. Len(d) \in Nat /\ DOMAIN d = 1..Len(d) /\ DOMAIN t = 1..(Len(d) - 1)
  BY SeqFacts DEF Removed
<1>1. ASSUME NEW y \in Coming(t, o, R) PROVE \E x \in Coming(d, o, R) : f[x] = y
  <2>1. y \in 1..(Len(d) - 1) /\ y > o /\ t[y] \in R
    BY <1>0 DEF Coming
  <2>2. t[y] = IF y < k THEN d[y] ELSE d[y + 1]
    BY <1>0, <2>1 DEF Removed
  <2>3. CASE y < k
    <3>1. y \in Coming(d, o, R) /\ f[y] = y
      BY <1>0, <2>1, <2>2, <2>3 DEF Coming
    <3> QED BY <3>1, Zenon
  <2>4. CASE ~(y < k)
    <3>1. y + 1 \in Coming(d, o, R) /\ f[y + 1] = y
      BY <1>0, <2>1, <2>2, <2>4 DEF Coming
    <3> QED BY <3>1, Zenon
  <2> QED BY <2>3, <2>4, Zenon
<1> HIDE DEF f
<1>2. IsFiniteSet(Coming(d, o, R))
  BY PlacesFinite, Zenon
<1> QED BY <1>1, <1>2, Onto, Zenon

(* The entries after place o, up to place q. *)
Stretch(P, d, o, q) == P = {d[i] : i \in (o + 1)..q}

(* A reply moves the offset from o to q: the entries between that were     *)
(* returned before are not after the offset any more.                      *)
LEMMA ReplyComing ==
  ASSUME NEW S, NEW d \in Seq(S), IsInjective(d), NEW o \in Nat, NEW q \in o..Len(d), NEW G, NEW P,
         Stretch(P, d, o, q)
  PROVE  /\ Cardinality(P \cap G) \in Nat
         /\ Cardinality(P \cap G) + Cardinality(Coming(d, q, G \cup P)) <= Cardinality(Coming(d, o, G))
<1> DEFINE A == Coming(d, q, G \cup P)
           B == {i \in (o + 1)..q : d[i] \in G}
           C == Coming(d, o, G)
<1>0. Len(d) \in Nat /\ DOMAIN d = 1..Len(d)
  BY SeqFacts
<1>1. ASSUME NEW i \in A PROVE i \in C /\ i \notin B
  <2>1. i \in 1..Len(d) /\ i > q /\ d[i] \in G \cup P
    BY <1>0 DEF Coming
  <2>2. d[i] \notin P
    <3>1. ASSUME NEW j \in (o + 1)..q PROVE d[i] # d[j]
      <4>1. j \in 1..Len(d) /\ i # j
        BY <1>0, <2>1
      <4> QED BY <1>0, <2>1, <4>1, Zenon DEF IsInjective
    <3> QED BY <3>1, Zenon DEF Stretch
  <2>3. i > o /\ i \notin (o + 1)..q
    BY <1>0, <2>1
  <2> QED BY <1>0, <2>1, <2>2, <2>3, Zenon DEF Coming
<1>2. ASSUME NEW i \in B PROVE i \in C
  <2>1. i \in 1..Len(d) /\ i > o
    BY <1>0
  <2> QED BY <1>0, <2>1, Zenon DEF Coming
<1>3. \A y \in P \cap G : \E x \in B : d[x] = y
  BY Zenon DEF Stretch
<1>4. A \cup B \in SUBSET C /\ A \cap B = {}
  BY <1>1, <1>2, Zenon
<1>5. IsFiniteSet(A) /\ IsFiniteSet(C) /\ Cardinality(A) \in Nat /\ Cardinality(C) \in Nat
  BY PlacesFinite, Zenon
<1>6. B \in SUBSET C
  BY <1>2, Zenon
<1> HIDE DEF A, B, C
<1>7. IsFiniteSet(B) /\ Cardinality(B) \in Nat
  BY <1>5, <1>6, FS_Subset, FS_CardinalityType, Zenon
<1>8. IsFiniteSet(P \cap G) /\ Cardinality(P \cap G) <= Cardinality(B)
  BY <1>3, <1>7, Onto, Zenon
<1>9. Cardinality(P \cap G) \in Nat
  BY <1>8, FS_CardinalityType, Zenon
<1>10. /\ IsFiniteSet(A \cup B)
       /\ Cardinality(A \cup B) = Cardinality(A) + Cardinality(B) - Cardinality({})
  BY <1>4, <1>5, <1>7, FS_Union
<1>11. Cardinality({}) = 0
  BY FS_EmptySet, Zenon
<1>12. Cardinality(A \cup B) <= Cardinality(C)
  BY <1>4, <1>5, FS_Subset, Zenon
<1>13. Cardinality(A) + Cardinality(B) <= Cardinality(C)
  BY <1>5, <1>7, <1>10, <1>11, <1>12
<1>14. Cardinality(P \cap G) + Cardinality(A) <= Cardinality(C)
  BY <1>5, <1>7, <1>8, <1>9, <1>13
<1> QED BY <1>9, <1>14, Zenon DEF A, C

(* A reply leaves nothing out: what lies before the new offset and was not *)
(* returned lay before the old one.                                        *)
LEMMA ReplyPassed ==
  ASSUME NEW S, NEW d \in Seq(S), NEW o \in Nat, NEW q \in o..Len(d), NEW R, NEW G, NEW P,
         Stretch(P, d, o, q)
  PROVE  Cardinality(Passed(d, q, R \ (G \cup P))) <= Cardinality(Passed(d, o, R \ G))
<1>0. Len(d) \in Nat /\ DOMAIN d = 1..Len(d)
  BY SeqFacts
<1>1. ASSUME NEW i \in Passed(d, q, R \ (G \cup P)) PROVE i \in Passed(d, o, R \ G)
  <2>1. i \in 1..Len(d) /\ i <= q /\ d[i] \in R \ (G \cup P)
    BY <1>0 DEF Passed
  <2>2. i \notin (o + 1)..q
    BY <2>1, Zenon DEF Stretch
  <2>3. i <= o
    BY <2>1, <2>2
  <2> QED BY <1>0, <2>1, <2>3, Zenon DEF Passed
<1>2. IsFiniteSet(Passed(d, o, R \ G))
  BY PlacesFinite, Zenon
<1>3. Passed(d, q, R \ (G \cup P)) \in SUBSET Passed(d, o, R \ G)
  BY <1>1, Zenon
<1> QED BY <1>2, <1>3, FS_Subset, Zenon

(* What is read from offset o of the directory d when there is room for n. *)
ReadFrom(reply, d, o, n) ==
  LET rest == SubSeq(d, o + 1, Len(d))
  IN reply = SubSeq(rest, 1, IF n < Len(rest) THEN n ELSE Len(rest))

ReadResult(reply, d, o, n) ==
  /\ Len(reply) = IF n < Len(d) - o THEN n ELSE Len(d) - o
  /\ DOMAIN reply = 1..Len(reply) /\ \A i \in 1..Len(reply) : reply[i] = d[o + i]
  /\ Stretch(Range(reply), d, o, o + Len(reply))

(* What a reply holds: the entries after the offset, one at least. *)
LEMMA ReplyFacts ==
  ASSUME NEW S, NEW d \in Seq(S), NEW o \in Nat, o < Len(d), NEW n \in Nat \ {0},
         NEW reply, ReadFrom(reply, d, o, n)
  PROVE  ReadResult(reply, d, o, n)
<1> DEFINE rest == SubSeq(d, o + 1, Len(d))
           m == IF n < Len(d) - o THEN n ELSE Len(d) - o
<1>0. Len(d) \in Nat
  OBVIOUS
<1>1. /\ rest \in Seq(S) /\ Len(rest) = Len(d) - o
      /\ \A i \in 1..(Len(d) - o) : rest[i] = d[o + i]
  BY <1>0, SubSeqFacts
<1>2. reply = SubSeq(rest, 1, IF n < Len(rest) THEN n ELSE Len(rest))
  BY Zenon DEF ReadFrom
<1> HIDE DEF rest
<1>3. reply = SubSeq(rest, 1, m)
  BY <1>1, <1>2, Zenon
<1>6. m \in 1..(Len(d) - o) /\ m \in Nat
  BY <1>0
<1> HIDE DEF m
<1>4. reply \in Seq(S) /\ Len(reply) = m /\ \A i \in 1..m : reply[i] = rest[i]
  <2>1. 1 \in 1..(Len(rest) + 1) /\ m \in 0..Len(rest) /\ 1 <= m + 1 /\ m - 1 + 1 = m
    BY <1>0, <1>1, <1>6
  <2>2. /\ SubSeq(rest, 1, m) \in Seq(S) /\ Len(SubSeq(rest, 1, m)) = m - 1 + 1
        /\ \A i \in 1..(m - 1 + 1) : SubSeq(rest, 1, m)[i] = rest[1 + i - 1]
    BY <1>1, <2>1, SubSeqFacts
  <2>3. \A i \in 1..m : 1 + i - 1 = i
    BY <1>6
  <2> QED BY <1>3, <2>1, <2>2, <2>3
<1>5. DOMAIN reply = 1..m
  BY <1>4, SeqFacts, Zenon
<1>7. \A i \in 1..m : reply[i] = d[o + i]
  BY <1>0, <1>1, <1>4, <1>6
<1>8. Range(reply) = {d[i] : i \in (o + 1)..(o + m)}
  <2>1. ASSUME NEW x \in Range(reply) PROVE x \in {d[i] : i \in (o + 1)..(o + m)}
    <3>1. PICK i \in 1..m : x = reply[i]
      BY <1>5, Zenon DEF Range
    <3>2. o + i \in (o + 1)..(o + m)
      BY <1>6
    <3>3. x = d[o + i]
      BY <1>7, <3>1, Zenon
    <3> QED BY <3>2, <3>3, Zenon
  <2>2. ASSUME NEW x \in {d[i] : i \in (o + 1)..(o + m)} PROVE x \in Range(reply)
    <3>1. PICK i \in (o + 1)..(o + m) : x = d[i]
      BY Zenon
    <3>2. i - o \in 1..m /\ o + (i - o) = i
      BY <1>6
    <3>3. x = reply[i - o]
      BY <1>7, <3>1, <3>2
    <3> QED BY <1>5, <3>2, <3>3, Zenon DEF Range
  <2> QED BY <2>1, <2>2, Zenon
<1> QED BY <1>4, <1>5, <1>7, <1>8, Zenon DEF m, Stretch, ReadResult

-----------------------------------------------------------------------------
(* The invariant *)

(* A directory holds no more entries than there may be. *)
LEMMA LenBounded ==
  ASSUME NEW d \in Seq(Entries), IsInjective(d)
  PROVE  Len(d) \in Nat /\ Cardinality(Entries) \in Nat /\ Len(d) <= Cardinality(Entries)
<1>1. Len(d) \in Nat /\ d \in [1..Len(d) -> Entries]
  OBVIOUS
<1>2. d \in Injection(1..Len(d), Entries)
  BY <1>1, Zenon DEF Injection
<1>3. IsFiniteSet(Entries)
  BY ReaddirAssumption, Zenon
<1>4. Cardinality(1..Len(d)) <= Cardinality(Entries)
  BY <1>2, <1>3, FS_Injection, Zenon
<1>5. Cardinality(Entries) \in Nat
  BY <1>3, FS_CardinalityType, Zenon
<1>6. Cardinality(1..Len(d)) = IF 1 > Len(d) THEN 0 ELSE Len(d) - 1 + 1
  <2>1. 1 \in Int /\ Len(d) \in Int
    BY <1>1
  <2> QED BY <2>1, FS_Interval, Zenon
<1> QED BY <1>1, <1>4, <1>5, <1>6

(* The listing begins with the invariant. *)
LEMMA InitHolds ==
  Init => IInv
<1> SUFFICES ASSUME Init PROVE IInv
  OBVIOUS
<1>1. PICK S \in SUBSET Entries : dir \in Bijection(1..Cardinality(S), S) /\ stayed = S
  BY Zenon DEF Init
<1>2. Cardinality(S) \in Nat
  BY ReaddirAssumption, FS_Subset, FS_CardinalityType, Zenon
<1>3. /\ dir \in [1..Cardinality(S) -> S] /\ IsInjective(dir)
      /\ \A x \in S : \E i \in 1..Cardinality(S) : dir[i] = x
  BY <1>1, Zenon DEF Bijection, Injection, Surjection
<1>4. dir \in Seq(Entries)
  BY <1>2, <1>3
<1>5. stayed \subseteq Range(dir)
  BY <1>1, <1>3, Zenon DEF Range
<1>6. TypeOK
  <2>1. Cardinality(Entries) \in Nat
    BY ReaddirAssumption, FS_CardinalityType, Zenon
  <2> QED BY <1>3, <1>4, <1>5, <2>1, ReaddirAssumption DEF TypeOK, Init
<1>7. Passed(dir, offset, stayed \ got) = {} /\ Coming(dir, offset, got) = {}
  BY <1>2, <1>3 DEF Passed, Coming, Init
<1>8. Cardinality({}) = 0
  BY FS_EmptySet, Zenon
<1> QED BY <1>6, <1>7, <1>8 DEF IInv, Init

(* Of the invariant's parts, what the steps start from. *)
LEMMA Parts ==
  ASSUME IInv
  PROVE  /\ dir \in Seq(Entries) /\ IsInjective(dir) /\ Len(dir) \in Nat /\ DOMAIN dir = 1..Len(dir)
         /\ offset \in Nat /\ repeated \in Nat /\ added \in Nat /\ removed \in Nat
         /\ Cardinality(Passed(dir, offset, stayed \ got)) \in Nat
         /\ Cardinality(Coming(dir, offset, got)) \in Nat
<1>1. dir \in Seq(Entries) /\ IsInjective(dir)
  BY DEF IInv, TypeOK
<1>2. offset \in Nat /\ repeated \in Nat /\ added \in Nat /\ removed \in Nat
  <2>1. Cardinality(Entries) \in Nat
    BY ReaddirAssumption, FS_CardinalityType, Zenon
  <2> QED BY <2>1, ReaddirAssumption DEF IInv, TypeOK
<1> QED BY <1>1, <1>2, SeqFacts, PlacesFinite, Zenon

(* An entry is added while the listing goes on. *)
LEMMA AddStep ==
  ASSUME IInv, AddEntry
  PROVE  IInv'
<1>1. PICK e \in Entries \ Range(dir), k \in 1..(Len(dir) + 1) : Put(dir', dir, k, e)
  BY Zenon DEF AddEntry, Put
<1>2. /\ dir \in Seq(Entries) /\ IsInjective(dir) /\ Len(dir) \in Nat /\ DOMAIN dir = 1..Len(dir)
      /\ offset \in Nat /\ repeated \in Nat /\ added \in Nat /\ removed \in Nat
      /\ Cardinality(Passed(dir, offset, stayed \ got)) \in Nat
      /\ Cardinality(Coming(dir, offset, got)) \in Nat
  BY Parts, Zenon
<1>3. dir' \in Seq(Entries) /\ Inserted(dir', dir, k, e)
  <2>1. e \in Entries
    BY <1>1, Zenon
  <2> QED BY <1>1, <1>2, <2>1, InsertFacts, Zenon
<1>4. DOMAIN dir' = 1..(Len(dir) + 1)
  BY <1>2, <1>3 DEF Inserted
<1>5. \A i \in 1..Len(dir) : dir[i] # e
  BY <1>1, <1>2, Zenon DEF Range
<1>6. \A i \in 1..(Len(dir) + 1) : dir'[i] = IF i < k THEN dir[i] ELSE IF i = k THEN e ELSE dir[i - 1]
  BY <1>2, <1>3 DEF Inserted
<1>7. IsInjective(dir')
  <2>1. \A i, j \in 1..Len(dir) : dir[i] = dir[j] => i = j
    BY <1>2, Zenon DEF IsInjective
  <2>2. ASSUME NEW i \in 1..(Len(dir) + 1), NEW j \in 1..(Len(dir) + 1), i < j PROVE dir'[i] # dir'[j]
    <3>1. /\ dir'[i] = IF i < k THEN dir[i] ELSE IF i = k THEN e ELSE dir[i - 1]
          /\ dir'[j] = IF j < k THEN dir[j] ELSE IF j = k THEN e ELSE dir[j - 1]
      BY <1>6, Zenon
    <3>2. CASE j < k
      BY <1>2, <2>1, <2>2, <3>1, <3>2
    <3>3. CASE j = k
      BY <1>2, <1>5, <2>2, <3>1, <3>3
    <3>4. CASE j > k /\ i = k
      BY <1>2, <1>5, <2>2, <3>1, <3>4
    <3>5. CASE j > k /\ i < k
      BY <1>2, <2>1, <2>2, <3>1, <3>5
    <3>6. CASE j > k /\ i > k
      BY <1>2, <2>1, <2>2, <3>1, <3>6
    <3> QED BY <2>2, <3>2, <3>3, <3>4, <3>5, <3>6
  <2>3. \A i, j \in 1..(Len(dir) + 1) : i = j \/ i < j \/ j < i
    BY <1>2
  <2> QED BY <1>4, <2>2, <2>3, Zenon DEF IsInjective
<1>8. stayed \subseteq Range(dir)
  BY DEF IInv, TypeOK
<1>9. stayed' \subseteq Range(dir')
  <2>1. ASSUME NEW x \in stayed PROVE x \in Range(dir')
    <3>1. PICK i \in 1..Len(dir) : x = dir[i]
      BY <1>2, <1>8, Zenon DEF Range
    <3>2. \E j \in 1..(Len(dir) + 1) : dir'[j] = x
      <4>1. CASE i < k
        BY <1>2, <1>6, <3>1, <4>1
      <4>2. CASE ~(i < k)
        <5>1. i + 1 \in 1..(Len(dir) + 1) /\ ~(i + 1 < k) /\ i + 1 # k /\ (i + 1) - 1 = i
          BY <1>2, <4>2
        <5>2. dir'[i + 1] = dir[i]
          BY <1>6, <5>1
        <5> QED BY <3>1, <5>1, <5>2, Zenon
      <4> QED BY <4>1, <4>2
    <3> QED BY <1>4, <3>2, Zenon DEF Range
  <2> QED BY <2>1, Zenon DEF AddEntry
<1>10. Cardinality(Passed(dir', offset, stayed \ got)) <= Cardinality(Passed(dir, offset, stayed \ got))
  <2>1. e \notin stayed \ got
    BY <1>1, <1>8, Zenon
  <2> QED BY <1>1, <1>2, <1>3, <2>1, InsertPassed, Zenon
<1>11. Cardinality(Coming(dir', offset, got)) <= Cardinality(Coming(dir, offset, got)) + 1
  BY <1>1, <1>2, <1>3, InsertComing, Zenon
<1>12. Cardinality(Passed(dir', offset, stayed \ got)) \in Nat /\ Cardinality(Coming(dir', offset, got)) \in Nat
  BY <1>3, PlacesFinite, Zenon
<1>13. UNCHANGED <<offset, got, repeated, phase, stayed, removed>> /\ added' = added + 1
  BY Zenon DEF AddEntry
<1>14. phase' # "end" /\ added' + removed' <= MaxChanges
  BY <1>2, <1>13, ReaddirAssumption DEF AddEntry
<1>15. TypeOK'
  BY <1>2, <1>3, <1>7, <1>9, <1>13, <1>14 DEF IInv, TypeOK
<1>16. Cardinality(Passed(dir', offset', stayed' \ got')) <= removed'
  BY <1>2, <1>10, <1>12, <1>13 DEF IInv
<1>17. repeated' + Cardinality(Coming(dir', offset', got')) <= added'
  <2>1. repeated + Cardinality(Coming(dir, offset, got)) <= added
    BY Zenon DEF IInv
  <2> QED BY <1>2, <1>11, <1>12, <1>13, <2>1
<1> QED BY <1>14, <1>15, <1>16, <1>17 DEF IInv

(* An entry is removed. *)
LEMMA RemoveStep ==
  ASSUME IInv, RemoveEntry
  PROVE  IInv'
<1>1. PICK k \in DOMAIN dir :
        dir' = SubSeq(dir, 1, k - 1) \o SubSeq(dir, k + 1, Len(dir)) /\ stayed' = stayed \ {dir[k]}
  BY Zenon DEF RemoveEntry
<1>2. /\ dir \in Seq(Entries) /\ IsInjective(dir) /\ Len(dir) \in Nat /\ DOMAIN dir = 1..Len(dir)
      /\ offset \in Nat /\ repeated \in Nat /\ added \in Nat /\ removed \in Nat
      /\ Cardinality(Passed(dir, offset, stayed \ got)) \in Nat
      /\ Cardinality(Coming(dir, offset, got)) \in Nat
  BY Parts, Zenon
<1>3. k \in 1..Len(dir) /\ dir' \in Seq(Entries) /\ Removed(dir', dir, k)
  BY <1>1, <1>2, RemoveFacts, Zenon
<1>4. DOMAIN dir' = 1..(Len(dir) - 1)
  BY <1>2, <1>3 DEF Removed
<1>5. \A i \in 1..(Len(dir) - 1) : dir'[i] = IF i < k THEN dir[i] ELSE dir[i + 1]
  BY <1>2, <1>3 DEF Removed
<1>6. \A i, j \in 1..Len(dir) : dir[i] = dir[j] => i = j
  BY <1>2, Zenon DEF IsInjective
<1>7. IsInjective(dir')
  <2>1. ASSUME NEW i \in 1..(Len(dir) - 1), NEW j \in 1..(Len(dir) - 1), i < j PROVE dir'[i] # dir'[j]
    <3>1. /\ dir'[i] = IF i < k THEN dir[i] ELSE dir[i + 1]
          /\ dir'[j] = IF j < k THEN dir[j] ELSE dir[j + 1]
      BY <1>5, Zenon
    <3>2. CASE j < k
      BY <1>2, <1>6, <2>1, <3>1, <3>2
    <3>3. CASE ~(j < k) /\ i < k
      BY <1>2, <1>6, <2>1, <3>1, <3>3
    <3>4. CASE ~(j < k) /\ ~(i < k)
      BY <1>2, <1>6, <2>1, <3>1, <3>4
    <3> QED BY <3>2, <3>3, <3>4
  <2>2. \A i, j \in 1..(Len(dir) - 1) : i = j \/ i < j \/ j < i
    BY <1>2
  <2> QED BY <1>4, <2>1, <2>2, Zenon DEF IsInjective
<1>8. stayed \subseteq Range(dir)
  BY DEF IInv, TypeOK
<1>9. stayed' \subseteq Range(dir')
  <2>1. ASSUME NEW x \in stayed, x # dir[k] PROVE x \in Range(dir')
    <3>1. PICK i \in 1..Len(dir) : x = dir[i]
      BY <1>2, <1>8, Zenon DEF Range
    <3>2. i # k
      BY <2>1, <3>1
    <3>3. \E j \in 1..(Len(dir) - 1) : dir'[j] = x
      <4>1. CASE i < k
        BY <1>2, <1>3, <1>5, <3>1, <4>1
      <4>2. CASE ~(i < k)
        <5>1. i - 1 \in 1..(Len(dir) - 1) /\ ~(i - 1 < k) /\ (i - 1) + 1 = i
          BY <1>2, <1>3, <3>2, <4>2
        <5>2. dir'[i - 1] = dir[i]
          BY <1>5, <5>1
        <5> QED BY <3>1, <5>1, <5>2, Zenon
      <4> QED BY <4>1, <4>2
    <3> QED BY <1>4, <3>3, Zenon DEF Range
  <2> QED BY <1>1, <2>1, Zenon
<1>10. Cardinality(Passed(dir', offset, stayed' \ got)) <= Cardinality(Passed(dir, offset, stayed \ got)) + 1
  <2>1. Passed(dir', offset, stayed' \ got) \in SUBSET Passed(dir', offset, stayed \ got)
    BY <1>1, Zenon DEF Passed
  <2>2. /\ IsFiniteSet(Passed(dir', offset, stayed \ got))
        /\ Cardinality(Passed(dir', offset, stayed \ got)) \in Nat
        /\ Cardinality(Passed(dir', offset, stayed' \ got)) \in Nat
    BY <1>3, PlacesFinite, Zenon
  <2>3. Cardinality(Passed(dir', offset, stayed' \ got)) <= Cardinality(Passed(dir', offset, stayed \ got))
    BY <2>1, <2>2, FS_Subset, Zenon
  <2>4. Cardinality(Passed(dir', offset, stayed \ got)) <= Cardinality(Passed(dir, offset, stayed \ got)) + 1
    BY <1>2, <1>3, RemovePassed, Zenon
  <2> QED BY <1>2, <2>2, <2>3, <2>4
<1>11. Cardinality(Coming(dir', offset, got)) <= Cardinality(Coming(dir, offset, got))
  BY <1>2, <1>3, RemoveComing, Zenon
<1>12. Cardinality(Passed(dir', offset, stayed' \ got)) \in Nat /\ Cardinality(Coming(dir', offset, got)) \in Nat
  BY <1>3, PlacesFinite, Zenon
<1>13. UNCHANGED <<offset, got, repeated, phase, added>> /\ removed' = removed + 1
  BY Zenon DEF RemoveEntry
<1>14. phase' # "end" /\ added' + removed' <= MaxChanges
  BY <1>2, <1>13, ReaddirAssumption DEF RemoveEntry
<1>15. TypeOK'
  BY <1>2, <1>3, <1>7, <1>9, <1>13, <1>14 DEF IInv, TypeOK
<1>16. Cardinality(Passed(dir', offset', stayed' \ got')) <= removed'
  BY <1>2, <1>10, <1>12, <1>13 DEF IInv
<1>17. repeated' + Cardinality(Coming(dir', offset', got')) <= added'
  <2>1. repeated + Cardinality(Coming(dir, offset, got)) <= added
    BY Zenon DEF IInv
  <2> QED BY <1>2, <1>11, <1>12, <1>13, <2>1
<1> QED BY <1>14, <1>15, <1>16, <1>17 DEF IInv

(* A request is answered. *)
LEMMA ReplyStep ==
  ASSUME IInv, ReaddirReply
  PROVE  IInv'
<1>1. /\ dir \in Seq(Entries) /\ IsInjective(dir) /\ Len(dir) \in Nat /\ DOMAIN dir = 1..Len(dir)
      /\ offset \in Nat /\ repeated \in Nat /\ added \in Nat /\ removed \in Nat
      /\ Cardinality(Passed(dir, offset, stayed \ got)) \in Nat
      /\ Cardinality(Coming(dir, offset, got)) \in Nat
  BY Parts, Zenon
<1>2. UNCHANGED <<dir, stayed, added, removed>> /\ phase = "reading"
  BY Zenon DEF ReaddirReply
<1>3. CASE offset >= Len(dir)
  <2>1. phase' = "end" /\ UNCHANGED <<offset, got, repeated>>
    BY <1>3, Zenon DEF ReaddirReply
  <2> QED BY <1>2, <1>3, <2>1 DEF IInv, TypeOK
<1>4. CASE ~(offset >= Len(dir))
  <2> DEFINE rest == SubSeq(dir, offset + 1, Len(dir))
             upto(n) == SubSeq(rest, 1, IF n < Len(rest) THEN n ELSE Len(rest))
  <2>1. PICK n \in 1..MaxReply :
          IF Bad(upto(n + 1))
          THEN phase' = "error" /\ UNCHANGED <<offset, got, repeated>>
          ELSE /\ got' = got \cup Range(upto(n))
               /\ repeated' = Capped(repeated + Cardinality(Range(upto(n)) \cap got))
               /\ offset' = NextOffset(offset + Len(upto(n)) - 1)
               /\ UNCHANGED phase
    BY <1>4, Zenon DEF ReaddirReply
  <2>2. CASE Bad(upto(n + 1))
    BY <1>2, <2>1, <2>2 DEF IInv, TypeOK
  <2>3. CASE ~Bad(upto(n + 1))
    <3>1. PICK reply, read, room : reply = upto(n) /\ room = n + 1 /\ read = upto(room)
      BY Zenon
    <3>2. n \in Nat \ {0} /\ room \in Nat \ {0} /\ n < room /\ offset < Len(dir)
      BY <1>1, <1>4, <3>1, ReaddirAssumption
    <3>3. ReadResult(reply, dir, offset, n)
      <4>1. ReadFrom(reply, dir, offset, n)
        BY <3>1, Zenon DEF ReadFrom
      <4> QED BY <1>1, <3>2, <4>1, ReplyFacts, Zenon
    <3>4. ReadResult(read, dir, offset, room)
      <4>1. ReadFrom(read, dir, offset, room)
        BY <3>1, Zenon DEF ReadFrom
      <4> QED BY <1>1, <3>2, <4>1, ReplyFacts, Zenon
    <3>5. /\ got' = got \cup Range(reply)
          /\ repeated' = Capped(repeated + Cardinality(Range(reply) \cap got))
          /\ offset' = NextOffset(offset + Len(reply) - 1)
          /\ UNCHANGED phase /\ ~Bad(read)
      BY <2>1, <2>3, <3>1, Zenon
    <3> HIDE DEF rest, upto
    <3>6. /\ Len(reply) \in Nat \ {0} /\ Len(read) \in Nat /\ Len(reply) <= Len(read)
          /\ offset + Len(reply) \in offset..Len(dir)
      <4>1. Len(reply) = IF n < Len(dir) - offset THEN n ELSE Len(dir) - offset
        BY <3>3, Zenon DEF ReadResult
      <4>2. Len(read) = IF room < Len(dir) - offset THEN room ELSE Len(dir) - offset
        BY <3>4, Zenon DEF ReadResult
      <4>3. PICK l, a, b : l = Len(dir) /\ a = Len(reply) /\ b = Len(read)
        BY Zenon
      <4>4. l \in Nat /\ offset \in Nat /\ offset < l
        BY <1>1, <3>2, <4>3, Zenon
      <4>5. a = (IF n < l - offset THEN n ELSE l - offset) /\ b = IF room < l - offset THEN room ELSE l - offset
        BY <4>1, <4>2, <4>3, Zenon
      <4>6. a \in Nat \ {0} /\ b \in Nat /\ a <= b /\ offset + a \in offset..l
        BY ONLY <3>2, <4>4, <4>5
      <4> QED BY <4>3, <4>6, Zenon
    <3>7. Range(reply) \subseteq Entries \ Unknown
      <4>1. \A i \in 1..Len(reply) : i \in 1..Len(read) /\ offset + i \in 1..Len(dir)
        BY <1>1, <3>6
      <4>2. \A i \in 1..Len(reply) : reply[i] = read[i] /\ read[i] \notin Unknown
        BY <3>3, <3>4, <3>5, <4>1, Zenon DEF Bad, ReadResult
      <4>3. \A i \in 1..Len(reply) : reply[i] \in Entries
        BY <1>1, <3>3, <4>1, SeqFacts, Zenon DEF ReadResult
      <4> QED BY <3>3, <4>2, <4>3, Zenon DEF Range, ReadResult
    <3>8. PICK P, q : /\ P = Range(reply) /\ q = offset + Len(reply) /\ q \in offset..Len(dir) /\ q \in Nat
                      /\ offset' = q /\ Stretch(P, dir, offset, q)
      <4>1. NextOffset(offset + Len(reply) - 1) = offset + Len(reply) /\ offset + Len(reply) \in Nat
        BY <1>1, <3>6 DEF NextOffset
      <4> QED BY <3>3, <3>5, <3>6, <4>1, Zenon DEF ReadResult
    <3>9. /\ Cardinality(P \cap got) \in Nat
          /\ Cardinality(P \cap got) + Cardinality(Coming(dir, q, got \cup P))
               <= Cardinality(Coming(dir, offset, got))
      BY <1>1, <3>8, ReplyComing, Zenon
    <3>10. Cardinality(Passed(dir, q, stayed \ (got \cup P))) <= Cardinality(Passed(dir, offset, stayed \ got))
      BY <1>1, <3>8, ReplyPassed, Zenon
    <3>11. /\ Cardinality(Coming(dir, q, got \cup P)) \in Nat
           /\ Cardinality(Passed(dir, q, stayed \ (got \cup P))) \in Nat
      BY <1>1, PlacesFinite, Zenon
    <3>12. repeated' \in 0..(MaxChanges + 1) /\ repeated' <= repeated + Cardinality(P \cap got)
      BY <1>1, <3>5, <3>8, <3>9, ReaddirAssumption DEF Capped
    <3>13. Len(dir) <= Cardinality(Entries) /\ Cardinality(Entries) \in Nat
      BY <1>1, LenBounded, Zenon
    <3>14. offset' \in 0..Cardinality(Entries)
      BY <1>1, <3>8, <3>13
    <3>15. got' = got \cup P /\ got' \subseteq Entries \ Unknown
      BY <3>5, <3>7, <3>8, Zenon DEF IInv, TypeOK
    <3>16. TypeOK'
      BY <1>2, <3>5, <3>12, <3>14, <3>15 DEF IInv, TypeOK
    <3>17. Cardinality(Passed(dir', offset', stayed' \ got')) <= removed'
      <4>1. Cardinality(Passed(dir', offset', stayed' \ got')) = Cardinality(Passed(dir, q, stayed \ (got \cup P)))
        BY <1>2, <3>8, <3>15, Zenon
      <4> QED BY <1>1, <1>2, <3>10, <3>11, <4>1 DEF IInv
    <3>18. repeated' + Cardinality(Coming(dir', offset', got')) <= added'
      <4>1. Cardinality(Coming(dir', offset', got')) = Cardinality(Coming(dir, q, got \cup P))
        BY <1>2, <3>8, <3>15, Zenon
      <4>2. repeated' \in Nat
        BY <3>12, ReaddirAssumption
      <4>3. repeated + Cardinality(Coming(dir, offset, got)) <= added /\ added' = added
        BY <1>2 DEF IInv
      <4> QED BY <1>1, <3>9, <3>11, <3>12, <4>1, <4>2, <4>3
    <3>19. phase' # "end"
      BY <1>2, <3>5
    <3> QED BY <3>16, <3>17, <3>18, <3>19 DEF IInv
  <2> QED BY <2>2, <2>3, Zenon
<1> QED BY <1>3, <1>4

(* No step loses the invariant. *)
LEMMA NextHolds ==
  IInv /\ [Next]_vars => IInv'
<1> SUFFICES ASSUME IInv, [Next]_vars PROVE IInv'
  OBVIOUS
<1>1. CASE ReaddirReply
  BY <1>1, ReplyStep, Zenon
<1>2. CASE ReaddirFails
  BY <1>2 DEF ReaddirFails, IInv, TypeOK
<1>3. CASE AddEntry
  BY <1>3, AddStep, Zenon
<1>4. CASE RemoveEntry
  BY <1>4, RemoveStep, Zenon
<1>5. CASE UNCHANGED vars
  BY <1>5 DEF vars, IInv, TypeOK
<1> QED BY <1>1, <1>2, <1>3, <1>4, <1>5, Zenon DEF Next

(* The invariant, in every state of a listing. *)
LEMMA Invariance ==
  Spec => []IInv
BY InitHolds, NextHolds, PTL DEF Spec

(* Types: the offset readdir hands out stays within what a directory can   *)
(* hold, and no entry of unknown type is returned.                         *)
THEOREM TypeCorrect ==
  Spec => []TypeOK
<1>1. IInv => TypeOK
  BY DEF IInv
<1> QED BY <1>1, Invariance, PTL

(* When readdir answers that the directory is at its end, each removal has *)
(* hidden at most one entry that was there all the time.                   *)
THEOREM MissesAreBounded ==
  Spec => []MissedBounded
<1>1. ASSUME IInv, phase = "end" PROVE Cardinality(stayed \ got) <= removed
  <2>1. /\ dir \in Seq(Entries) /\ Len(dir) \in Nat /\ DOMAIN dir = 1..Len(dir)
        /\ offset \in Nat /\ removed \in Nat
        /\ Cardinality(Passed(dir, offset, stayed \ got)) \in Nat
    BY <1>1, Parts, Zenon
  <2>2. stayed \subseteq Range(dir) /\ offset >= Len(dir)
    BY <1>1 DEF IInv, TypeOK
  <2>3. \A i \in 1..Len(dir) : i <= offset
    BY <2>1, <2>2
  <2>4. \A x \in stayed \ got : \E i \in Passed(dir, offset, stayed \ got) : dir[i] = x
    BY <2>1, <2>2, <2>3, Zenon DEF Passed, Range
  <2>5. IsFiniteSet(Passed(dir, offset, stayed \ got))
    BY <2>1, PlacesFinite, Zenon
  <2>6. IsFiniteSet(stayed \ got) /\ Cardinality(stayed \ got) <= Cardinality(Passed(dir, offset, stayed \ got))
    BY <2>4, <2>5, Onto, Zenon
  <2>7. Cardinality(stayed \ got) \in Nat
    BY <2>6, FS_CardinalityType, Zenon
  <2> QED BY <1>1, <2>1, <2>6, <2>7 DEF IInv
<1>2. IInv => MissedBounded
  BY <1>1, Zenon DEF MissedBounded
<1> QED BY <1>2, Invariance, PTL

(* Each addition has made readdir return at most one entry twice. *)
THEOREM RepeatsAreBounded ==
  Spec => []RepeatedBounded
<1>1. IInv => RepeatedBounded
  BY Parts DEF IInv, RepeatedBounded
<1> QED BY <1>1, Invariance, PTL
=============================================================================
