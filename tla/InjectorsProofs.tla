-------------------------- MODULE InjectorsProofs --------------------------
(***************************************************************************)
(* Proofs about Injectors, for every set of requests, every list of        *)
(* configurations and every width of the integers.                         *)
(***************************************************************************)
EXTENDS Injectors, TLAPS, FiniteSetTheorems

-----------------------------------------------------------------------------
(* Sums of weights *)

(* A set of numbers has a least element, the only one Least can be. *)
LEMMA LeastProperties ==
  ASSUME NEW S \in SUBSET Nat, S # {}
  PROVE  Least(S) \in S /\ \A m \in S : Least(S) <= m
<1>1. PICK x \in S : \A y \in S : ~(<<y, x>> \in OpToRel(<, Nat))
  BY NatLessThanWellFounded, WFMin, Zenon
<1>2. ASSUME NEW y \in S PROVE x <= y
  <2>1. x \in Nat /\ y \in Nat
    BY Zenon
  <2>2. ~(<<y, x>> \in {ss \in Nat \X Nat : ss[1] < ss[2]})
    BY <1>1, Zenon DEF OpToRel
  <2>3. ~(y < x)
    BY <2>1, <2>2
  <2> QED BY <2>1, <2>3
<1>3. \E n \in S : \A m \in S : n <= m
  BY <1>2, Zenon
<1> QED BY <1>3, Zenon DEF Least

(* Up to n the sums exist. *)
Adds(g, w, n) == g \in [0..n -> Int] /\ g[0] = 0 /\ \A i \in 1..n : g[i] = g[i - 1] + w[i]

(* They do for all weights: there is no least n for which they do not. *)
LEMMA SumsExist ==
  ASSUME NEW w \in Seq(Int)
  PROVE  \E g : Adds(g, w, Len(w))
<1> DEFINE Bad == {n \in 0..Len(w) : ~\E g : Adds(g, w, n)}
<1>1. ASSUME Bad # {} PROVE FALSE
  <2>1. Bad \in SUBSET Nat
    OBVIOUS
  <2>2. PICK n : n = Least(Bad)
    BY Zenon
  <2>3. n \in Bad /\ \A m \in Bad : n <= m
    BY <1>1, <2>1, <2>2, LeastProperties, Zenon
  <2>4. CASE n = 0
    <3>1. Adds([i \in 0..0 |-> 0], w, 0)
      BY DEF Adds
    <3> QED BY <2>3, <2>4, <3>1
  <2>5. CASE n # 0
    <3>1. n \in 1..Len(w) /\ n - 1 \in 0..Len(w) /\ n - 1 \notin Bad /\ Len(w) \in Nat
      BY <2>3, <2>5
    <3>2. PICK g : Adds(g, w, n - 1)
      BY <3>1, Zenon
    <3> DEFINE h == [i \in 0..n |-> IF i = n THEN g[n - 1] + w[n] ELSE g[i]]
    <3>3. w[n] \in Int
      BY <3>1
    <3>4. Adds(h, w, n)
      <4>1. g \in [0..(n - 1) -> Int] /\ g[0] = 0 /\ \A i \in 1..(n - 1) : g[i] = g[i - 1] + w[i]
        BY <3>2 DEF Adds
      <4>2. h \in [0..n -> Int]
        BY <3>1, <3>3, <4>1
      <4>3. h[0] = 0
        BY <3>1, <4>1
      <4>4. ASSUME NEW i \in 1..n PROVE h[i] = h[i - 1] + w[i]
        BY <3>1, <4>1
      <4> QED BY <4>2, <4>3, <4>4, Zenon DEF Adds
    <3> QED BY <2>3, <3>4, Zenon
  <2> QED BY <2>4, <2>5, Zenon
<1>2. Len(w) \in 0..Len(w)
  OBVIOUS
<1> QED BY <1>1, <1>2, Zenon

(* The recursive definition of the sums has a solution, which adds. *)
LEMMA SumsAdd ==
  ASSUME NEW w \in Seq(Int)
  PROVE  Adds(Sums(w), w, Len(w))
<1> DEFINE N == Len(w)
           Solves(S) == S = [n \in 0..N |-> IF n = 0 THEN 0 ELSE S[n - 1] + w[n]]
<1>0. N \in Nat
  OBVIOUS
<1>1. PICK g : Adds(g, w, N)
  BY SumsExist, Zenon
<1>2. Solves(g)
  BY <1>0, <1>1 DEF Adds
<1>3. Sums(w) = CHOOSE S : Solves(S)
  BY DEF Sums
<1>4. Solves(Sums(w))
  BY <1>2, <1>3, Zenon
<1> DEFINE P == Sums(w)
           Bad == {n \in 0..N : P[n] # g[n]}
<1> HIDE DEF N
<1>5. /\ P[0] = 0 /\ \A i \in 1..N : P[i] = P[i - 1] + w[i]
      /\ P = [n \in 0..N |-> P[n]]
  <2> HIDE DEF P
  <2>1. P = [n \in 0..N |-> IF n = 0 THEN 0 ELSE P[n - 1] + w[n]]
    BY <1>4, Zenon DEF P
  <2>2. P[0] = 0 /\ P = [n \in 0..N |-> P[n]]
    BY <1>0, <2>1
  <2>3. ASSUME NEW i \in 1..N PROVE P[i] = P[i - 1] + w[i]
    <3>1. i \in 0..N /\ i # 0
      BY <1>0
    <3> QED BY <2>1, <3>1, Zenon
  <2> QED BY <2>2, <2>3, Zenon
<1>6. ASSUME Bad # {} PROVE FALSE
  <2> HIDE DEF P
  <2>1. Bad \in SUBSET Nat
    BY <1>0
  <2>2. PICK n : n = Least(Bad)
    BY Zenon
  <2>3. n \in Bad /\ \A m \in Bad : n <= m
    BY <1>6, <2>1, <2>2, LeastProperties, Zenon
  <2>4. n # 0
    BY <1>1, <1>5, <2>3 DEF Adds
  <2>5. n \in 1..N /\ n - 1 \in 0..N /\ ~(n <= n - 1)
    BY <1>0, <2>3, <2>4
  <2>6. P[n - 1] = g[n - 1]
    BY <2>3, <2>5, Zenon
  <2>7. P[n] = P[n - 1] + w[n] /\ g[n] = g[n - 1] + w[n]
    BY <1>1, <1>5, <2>5, Zenon DEF Adds
  <2> QED BY <2>3, <2>6, <2>7, Zenon
<1>7. P = g
  BY <1>1, <1>5, <1>6 DEF Adds
<1> QED BY <1>1, <1>7, Zenon DEF N

(* Weights that are not negative add up. *)
LEMMA SumsGrow ==
  ASSUME NEW w \in Seq(Int), \A i \in DOMAIN w : w[i] >= 0
  PROVE  \A j \in 0..Len(w) : \A i \in 0..j : 0 <= Sums(w)[i] /\ Sums(w)[i] <= Sums(w)[j]
<1> DEFINE N == Len(w)
           P == Sums(w)
           Bad == {j \in 0..N : ~\A i \in 0..j : 0 <= P[i] /\ P[i] <= P[j]}
<1>1. N \in Nat /\ \A i \in 1..N : w[i] \in Int /\ w[i] >= 0
  OBVIOUS
<1>2. P \in [0..N -> Int] /\ P[0] = 0 /\ \A i \in 1..N : P[i] = P[i - 1] + w[i]
  BY SumsAdd, Zenon DEF Adds
<1> HIDE DEF N, P
<1>3. ASSUME Bad # {} PROVE FALSE
  <2>1. Bad \in SUBSET Nat
    BY <1>1
  <2>2. PICK n : n = Least(Bad)
    BY Zenon
  <2>3. n \in Bad /\ \A m \in Bad : n <= m
    BY <1>3, <2>1, <2>2, LeastProperties, Zenon
  <2>4. n # 0
    BY <1>2, <2>3
  <2>5. n \in 1..N /\ n - 1 \in 0..N /\ ~(n <= n - 1)
    BY <1>1, <2>3, <2>4
  <2>6. \A i \in 0..(n - 1) : 0 <= P[i] /\ P[i] <= P[n - 1]
    BY <2>3, <2>5, Zenon
  <2>7. P[n] = P[n - 1] + w[n] /\ w[n] \in Int /\ w[n] >= 0
    BY <1>1, <1>2, <2>5, Zenon
  <2>8. ASSUME NEW i \in 0..n PROVE 0 <= P[i] /\ P[i] <= P[n]
    <3>1. P[n - 1] \in Int /\ n - 1 \in 0..(n - 1)
      BY <1>2, <2>5
    <3>2. 0 <= P[n - 1]
      BY <2>6, <3>1, Zenon
    <3>3. CASE i = n
      BY <2>7, <3>1, <3>2, <3>3
    <3>4. CASE i # n
      <4>1. i \in 0..(n - 1) /\ i \in 0..N
        BY <1>1, <2>5, <3>4
      <4>2. P[i] \in Int
        BY <1>2, <4>1
      <4>3. 0 <= P[i] /\ P[i] <= P[n - 1]
        BY <2>6, <4>1, Zenon
      <4> QED BY <2>7, <3>1, <4>2, <4>3
    <3> QED BY <3>3, <3>4, Zenon
  <2> QED BY <2>3, <2>8, Zenon
<1> QED BY <1>3, Zenon DEF N, P

(* An i32 that does not overflow. *)
LEMMA NoWrap ==
  ASSUME NEW n \in Int, -Limit <= n, n < Limit
  PROVE  Wrap(n) = n
<1> DEFINE L == Limit
<1>1. L \in Nat /\ L > 0
  BY InjectorsAssumption DEF Limit
<1> HIDE DEF L
<1>2. n + L \in Int /\ 0 <= n + L /\ n + L < 2 * L
  BY <1>1 DEF L
<1>3. (n + L) % (2 * L) = n + L
  BY <1>1, <1>2
<1> QED BY <1>1, <1>3 DEF Wrap, L

(* The error inject returns, if any, is one of the list. *)
LEMMA PickProperties ==
  ASSUME NEW w \in Seq(Int), NEW a \in Int
  PROVE  Pick(w, a) \in {0} \cup DOMAIN w
<1> DEFINE Hit == {j \in DOMAIN w : Wrap(a - Sums(w)[j]) < 0}
<1>1. Hit \in SUBSET Nat
  OBVIOUS
<1>2. Hit # {} => Least(Hit) \in Hit
  BY <1>1, LeastProperties, Zenon
<1> QED BY <1>2, Zenon DEF Pick

(* A chain of inequalities. *)
LEMMA Between ==
  \A a, low, high, sum, limit \in Int :
    0 <= low /\ low <= a /\ a < high /\ high <= sum /\ sum < limit => 0 <= a /\ a < sum /\ a < limit
OBVIOUS

(* Of the attempts, those from one sum to the next hit error j. *)
LEMMA PickExact ==
  ASSUME NEW w \in Seq(Int), \A i \in DOMAIN w : w[i] >= 0, Sum(w) < Limit, NEW j \in DOMAIN w
  PROVE  {a \in Attempts(w) : Pick(w, a) = j} = Sums(w)[j - 1]..(Sums(w)[j] - 1)
<1> DEFINE N == Len(w)
           P == Sums(w)
           Hit(a) == {k \in DOMAIN w : Wrap(a - P[k]) < 0}
<1>1. N \in Nat /\ DOMAIN w = 1..N /\ j \in 1..N
  OBVIOUS
<1>2. P \in [0..N -> Int] /\ P[0] = 0
  BY SumsAdd, Zenon DEF Adds
<1>3. \A n \in 0..N : \A i \in 0..n : 0 <= P[i] /\ P[i] <= P[n]
  BY SumsGrow, Zenon
<1>4. Sum(w) = P[N] /\ Limit \in Int /\ P[N] < Limit
  BY InjectorsAssumption DEF Sum, Limit
<1> HIDE DEF N, P
<1>5. \A i \in 0..N : P[i] \in Int /\ 0 <= P[i] /\ P[i] <= P[N]
  BY <1>1, <1>2, <1>3
<1>6. Attempts(w) = IF P[N] > 0 THEN 0..(P[N] - 1) ELSE {0}
  <2>1. WeightSum(w) = P[N]
    <3>1. P[N] \in Int /\ -Limit <= P[N]
      BY <1>1, <1>4, <1>5
    <3> QED BY <1>4, <3>1, NoWrap, Zenon DEF WeightSum
  <2>2. CASE P[N] > 0
    BY <2>1, <2>2 DEF Attempts
  <2>3. CASE ~(P[N] > 0)
    <3>1. P[N] = 0
      BY <1>1, <1>5, <2>3
    <3> QED BY <2>1, <3>1 DEF Attempts
  <2> QED BY <2>2, <2>3, Zenon
<1>7. ASSUME NEW a \in Int, 0 <= a, a < Limit PROVE Hit(a) = {k \in 1..N : a < P[k]}
  <2>1. ASSUME NEW k \in 1..N PROVE Wrap(a - P[k]) = a - P[k] /\ P[k] \in Int
    <3>1. k \in 0..N
      BY <1>1
    <3>2. P[k] \in Int /\ 0 <= P[k] /\ P[k] < Limit
      BY <1>1, <1>4, <1>5, <3>1
    <3>3. a - P[k] \in Int /\ -Limit <= a - P[k] /\ a - P[k] < Limit
      BY <1>4, <1>7, <3>2
    <3> QED BY <3>2, <3>3, NoWrap, Zenon
  <2>2. \A k \in 1..N : Wrap(a - P[k]) < 0 <=> a < P[k]
    BY <1>7, <2>1
  <2> QED BY <1>1, <2>2, Zenon
<1>8. ASSUME NEW a \in Attempts(w), Pick(w, a) = j PROVE a \in P[j - 1]..(P[j] - 1)
  <2>1. a \in Int /\ 0 <= a /\ a < Limit
    BY <1>1, <1>4, <1>5, <1>6, InjectorsAssumption DEF Limit
  <2>2. Hit(a) = {k \in 1..N : a < P[k]} /\ Hit(a) \in SUBSET Nat
    BY <1>1, <1>7, <2>1
  <2>3. Hit(a) # {} /\ j = Least(Hit(a))
    BY <1>1, <1>8 DEF Pick, P
  <2>4. j \in Hit(a) /\ \A k \in Hit(a) : j <= k
    BY <2>2, <2>3, LeastProperties, Zenon
  <2>5. a < P[j]
    BY <2>2, <2>4, Zenon
  <2>6. P[j - 1] <= a
    <3>1. CASE j = 1
      BY <1>2, <2>1, <3>1
    <3>2. CASE j # 1
      <4>1. j - 1 \in 1..N /\ ~(j <= j - 1) /\ j - 1 \in 0..N
        BY <1>1, <3>2
      <4>2. j - 1 \notin Hit(a)
        BY <2>4, <4>1, Zenon
      <4>3. ~(a < P[j - 1])
        BY <2>2, <4>1, <4>2, Zenon
      <4> QED BY <1>5, <2>1, <4>1, <4>3
    <3> QED BY <3>1, <3>2, Zenon
  <2>7. P[j - 1] \in Int /\ P[j] \in Int
    BY <1>1, <1>5
  <2> QED BY <2>1, <2>5, <2>6, <2>7
<1>9. ASSUME NEW a \in P[j - 1]..(P[j] - 1) PROVE a \in Attempts(w) /\ Pick(w, a) = j
  <2>1. j \in 0..N /\ j - 1 \in 0..N
    BY <1>1
  <2>2. a \in Int /\ P[j - 1] <= a /\ a < P[j] /\ 0 <= a /\ a < P[N] /\ a < Limit
    <3>1. /\ P[j] \in Int /\ P[j] <= P[N] /\ P[j - 1] \in Int /\ 0 <= P[j - 1]
          /\ P[N] < Limit /\ Limit \in Int
      BY <1>4, <1>5, <2>1, Zenon
    <3>2. P[N] \in Int
      BY <1>1, <1>5
    <3>3. a \in Int /\ P[j - 1] <= a /\ a < P[j]
      BY ONLY <1>9, <3>1
    <3> QED BY <3>1, <3>2, <3>3, Between, Zenon
  <2>3. a \in Attempts(w)
    BY <1>1, <1>5, <1>6, <2>2
  <2>4. Hit(a) = {k \in 1..N : a < P[k]} /\ Hit(a) \in SUBSET Nat
    BY <1>1, <1>7, <2>2
  <2>5. j \in Hit(a)
    BY <1>1, <2>2, <2>4, Zenon
  <2>6. Least(Hit(a)) \in Hit(a) /\ Least(Hit(a)) <= j
    BY <2>4, <2>5, LeastProperties, Zenon
  <2>7. ASSUME NEW k \in Hit(a), k <= j PROVE k = j
    <3>1. k \in 1..N /\ a < P[k]
      BY <2>4, <2>7, Zenon
    <3>2. CASE k # j
      <4>1. k \in 0..(j - 1) /\ k \in 0..N
        BY <1>1, <2>7, <3>1, <3>2
      <4>2. P[k] <= P[j - 1]
        BY <1>3, <2>1, <4>1, Zenon
      <4>3. P[k] \in Int /\ P[j - 1] \in Int
        BY <1>5, <2>1, <4>1, Zenon
      <4> QED BY <2>2, <3>1, <4>2, <4>3
    <3> QED BY <3>2
  <2>8. Pick(w, a) = Least(Hit(a))
    BY <2>5 DEF Pick, P
  <2> QED BY <2>3, <2>6, <2>7, <2>8, Zenon
<1> QED BY <1>8, <1>9, Zenon DEF P

(* An attempt is an integer, whatever overflowed. *)
LEMMA AttemptsType ==
  ASSUME NEW w \in Seq(Int)
  PROVE  Attempts(w) \subseteq Int
<1>1. Sums(w) \in [0..Len(w) -> Int] /\ Len(w) \in 0..Len(w)
  BY SumsAdd DEF Adds
<1>2. Sum(w) \in Int
  BY <1>1 DEF Sum
<1>3. Limit \in Nat /\ 2 * Limit > 0 /\ 2 * Limit \in Nat
  BY InjectorsAssumption DEF Limit
<1>4. (Sum(w) + Limit) % (2 * Limit) \in Int
  BY <1>2, <1>3
<1>5. WeightSum(w) \in Int
  BY <1>3, <1>4 DEF WeightSum, Wrap
<1> QED BY <1>5 DEF Attempts

-----------------------------------------------------------------------------
(* Mistakes *)

IsStretch(S, c, len, pos) ==
  \E n \in 0..c.max_length :
    S = pos..(pos + n - 1) /\ pos + n <= len /\ (len > 0 /\ c.max_length > 0 => n >= 1)

(* One occurrence lies within the data and is no longer than max_length. *)
LEMMA StretchProperties ==
  ASSUME NEW c, c.max_length \in Nat, NEW len \in Nat, NEW S \in Stretches(c, len)
  PROVE  \E pos \in Nat : IsStretch(S, c, len, pos)
<1> DEFINE L(pos) == Smaller(c.max_length, len - pos)
<1>1. PICK pos \in 0..(IF len = 0 THEN 0 ELSE len - 1) :
        S \in {pos..(pos + n - 1) : n \in IF L(pos) = 0 THEN {0} ELSE 1..L(pos)}
  BY Zenon DEF Stretches
<1>2. PICK n \in IF L(pos) = 0 THEN {0} ELSE 1..L(pos) : S = pos..(pos + n - 1)
  BY <1>1, Zenon
<1>3. pos \in Nat /\ n \in 0..c.max_length /\ pos + n <= len /\ (len > 0 /\ c.max_length > 0 => n >= 1)
  <2> DEFINE m == c.max_length
  <2>1. m \in Nat
    OBVIOUS
  <2> HIDE DEF m
  <2>2. n \in (IF L(pos) = 0 THEN {0} ELSE 1..L(pos)) /\ L(pos) = (IF m < len - pos THEN m ELSE len - pos)
    BY Zenon DEF Smaller, m
  <2>3. pos \in Nat /\ pos <= len /\ (len > 0 => pos < len)
    OBVIOUS
  <2>4. pos \in Nat /\ n \in 0..m /\ pos + n <= len /\ (len > 0 /\ m > 0 => n >= 1)
    BY <2>1, <2>2, <2>3
  <2> QED BY <2>4, Zenon DEF m
<1> QED BY <1>2, <1>3, Zenon DEF IsStretch

Budget(c) == (1..c.max_occurrences) \X (1..c.max_length)

(* What handle overwrites. *)
LEMMA HandleProperties ==
  ASSUME NEW c, c.max_occurrences \in Nat, c.max_length \in Nat, NEW len \in Nat, NEW D \in Handle(c, len)
  PROVE  /\ D \subseteq 0..(len - 1) /\ IsFiniteSet(D) /\ IsFiniteSet(Budget(c))
         /\ Cardinality(D) <= Cardinality(Budget(c))
         /\ len > 0 /\ Budget(c) # {} => D # {}
<1>1. IsFiniteSet(Budget(c)) /\ Cardinality(Budget(c)) \in Nat
  <2>1. IsFiniteSet(1..c.max_occurrences) /\ IsFiniteSet(1..c.max_length)
    <3>1. 1 \in Int /\ c.max_occurrences \in Int /\ c.max_length \in Int
      OBVIOUS
    <3> QED BY <3>1, FS_Interval, Zenon
  <2>2. IsFiniteSet(Budget(c))
    BY <2>1, FS_Product, Zenon DEF Budget
  <2> QED BY <2>2, FS_CardinalityType, Zenon
<1>2. CASE c.max_occurrences = 0
  <2>1. D = {}
    BY <1>2, Zenon DEF Handle
  <2>2. Budget(c) = {}
    BY <1>2 DEF Budget
  <2>3. IsFiniteSet({}) /\ Cardinality({}) = 0
    BY FS_EmptySet, Zenon
  <2> QED BY <1>1, <2>1, <2>2, <2>3
<1>3. CASE c.max_occurrences # 0
  <2>1. PICK R \in SUBSET Stretches(c, len) : Cardinality(R) \in 1..c.max_occurrences /\ D = UNION R
    BY <1>3, Zenon DEF Handle
  <2>2. \A S \in R : \E pos \in Nat : IsStretch(S, c, len, pos)
    BY <2>1, StretchProperties, Zenon
  <2>3. ASSUME NEW S \in R PROVE S \subseteq 0..(len - 1)
    <3>1. PICK pos \in Nat : IsStretch(S, c, len, pos)
      BY <2>2, Zenon
    <3>2. PICK n \in 0..c.max_length : S = pos..(pos + n - 1) /\ pos + n <= len
      BY <3>1, Zenon DEF IsStretch
    <3> QED BY <3>2
  <2>4. D \subseteq 0..(len - 1)
    BY <2>1, <2>3, Zenon
  <2>5. IsFiniteSet(0..(len - 1))
    BY FS_Interval
  <2>6. IsFiniteSet(D)
    BY <2>4, <2>5, FS_Subset, Zenon
  <2>7. IsFiniteSet(R) /\ R # {}
    <3>1. R \in SUBSET (SUBSET (0..(len - 1)))
      BY <2>3, Zenon
    <3>2. IsFiniteSet(R)
      BY <2>5, <3>1, FS_SUBSET, FS_Subset, Zenon
    <3>3. R # {}
      <4>1. R = {} => Cardinality(R) = 0
        BY FS_EmptySet, Zenon
      <4> QED BY <2>1, <4>1
    <3> QED BY <3>2, <3>3, Zenon
  <2>8. Cardinality(D) <= Cardinality(Budget(c))
    <3> DEFINE k == Cardinality(R)
               start(S) == CHOOSE pos \in Nat : IsStretch(S, c, len, pos)
    <3>1. PICK b : b \in Bijection(1..k, R)
      BY <2>7, FS_CardinalityType, Zenon DEF ExistsBijection
    <3>2. \A S \in R : start(S) \in Nat /\ IsStretch(S, c, len, start(S))
      BY <2>2, Zenon
    <3> DEFINE place(p) == start(b[p[1]]) + p[2] - 1
               T == {p \in Budget(c) : place(p) \in D}
               f == [p \in T |-> place(p)]
    <3> HIDE DEF start
    <3>3. \A S \in R : \E i \in 1..k : b[i] = S
      BY <3>1, Zenon DEF Bijection, Surjection
    <3>4. ASSUME NEW d \in D PROVE \E p \in T : f[p] = d
      <4>1. PICK S \in R : d \in S
        BY <2>1, Zenon
      <4>2. PICK i \in 1..k : b[i] = S
        BY <3>3, Zenon
      <4>3. PICK n \in 0..c.max_length : S = start(S)..(start(S) + n - 1)
        BY <3>2, Zenon DEF IsStretch
      <4>4. start(S) \in Nat
        BY <3>2, Zenon
      <4> DEFINE q == d - start(S) + 1
      <4>5. q \in 1..c.max_length /\ d = start(S) + q - 1
        BY <4>1, <4>3, <4>4
      <4>6. i \in 1..c.max_occurrences
        BY <2>1
      <4> HIDE DEF q
      <4>7. <<i, q>> \in Budget(c) /\ place(<<i, q>>) = d
        BY <4>2, <4>5, <4>6 DEF Budget
      <4> QED BY <4>7, Zenon
    <3>5. f \in Surjection(T, D)
      BY <3>4, Zenon DEF Surjection
    <3>6. T \in SUBSET Budget(c)
      BY Zenon
    <3>7. IsFiniteSet(T) /\ Cardinality(T) <= Cardinality(Budget(c))
      BY <1>1, <3>6, FS_Subset, Zenon
    <3>8. Cardinality(D) <= Cardinality(T)
      BY <3>5, <3>7, FS_Surjection, Zenon
    <3>9. Cardinality(D) \in Nat /\ Cardinality(T) \in Nat
      BY <2>6, <3>7, FS_CardinalityType, Zenon
    <3> QED BY <1>1, <3>7, <3>8, <3>9
  <2>9. ASSUME len > 0, Budget(c) # {} PROVE D # {}
    <3>1. PICK S \in R : TRUE
      BY <2>7, Zenon
    <3>2. PICK pos \in Nat : IsStretch(S, c, len, pos)
      BY <2>2, Zenon
    <3>3. PICK n \in 0..c.max_length : S = pos..(pos + n - 1) /\ (len > 0 /\ c.max_length > 0 => n >= 1)
      BY <3>2, Zenon DEF IsStretch
    <3>4. c.max_length > 0
      BY <2>9 DEF Budget
    <3>5. pos \in S
      BY <2>9, <3>3, <3>4
    <3> QED BY <2>1, <3>5, Zenon
  <2> QED BY <1>1, <2>4, <2>6, <2>8, <2>9, Zenon
<1> QED BY <1>2, <1>3, Zenon

-----------------------------------------------------------------------------
(* The points of a handler *)

MistakePoint(p, method) == p = "data" \/ (p = "reply" /\ method = "read")

(* Injectors are asked for errors before the work, for data to be written  *)
(* by write only, and for mistakes once.                                   *)
Route(s, method) ==
  /\ s \in Seq({"inject", "attr", "work", "data", "reply"}) /\ s # <<>>
  /\ \A i, j \in DOMAIN s : i < j /\ s[i] = "work" => s[j] # "inject"
  /\ \A i \in DOMAIN s : s[i] = "data" => method = "write"
  /\ \A i, j \in DOMAIN s : MistakePoint(s[i], method) /\ MistakePoint(s[j], method) => i = j

(* So it is for every method. *)
LEMMA PointsRoute == \A m \in Known : Route(Points(m), m)
<1>1. Route(Points("getattr"), "getattr")
  BY DEF Points, Route, MistakePoint
<1>2. Route(Points("mknod"), "mknod")
  BY DEF Points, MknodPoints, Route, MistakePoint
<1>3. Route(Points("unlink"), "unlink")
  BY DEF Points, Route, MistakePoint
<1>4. Route(Points("open"), "open")
  BY DEF Points, Route, MistakePoint
<1>5. Route(Points("read"), "read")
  BY DEF Points, Route, MistakePoint
<1>6. Route(Points("write"), "write")
  BY DEF Points, Route, MistakePoint
<1>7. Route(Points("flush"), "flush")
  BY DEF Points, Route, MistakePoint
<1>8. Route(Points("release"), "release")
  BY DEF Points, Route, MistakePoint
<1> QED BY <1>1, <1>2, <1>3, <1>4, <1>5, <1>6, <1>7, <1>8, Zenon DEF Known

(* The head of a sequence is its first element. *)
LEMMA HeadFirst == \A S : \A s \in Seq(S) : Len(s) # 0 => s # <<>> /\ Head(s) = s[1]
OBVIOUS

(* What is left of a sequence without its first element. *)
LEMMA TailProperties ==
  ASSUME NEW S, NEW s \in Seq(S), s # <<>>, Len(s) # 1
  PROVE  /\ Tail(s) \in Seq(S) /\ Tail(s) # <<>> /\ Head(Tail(s)) = s[2]
         /\ \A i \in DOMAIN Tail(s) : i \in Nat /\ i + 1 \in DOMAIN s /\ Tail(s)[i] = s[i + 1]
<1>0. Len(s) \in Nat /\ DOMAIN s = 1..Len(s) /\ Len(s) # 0
  OBVIOUS
<1>1. Len(s) \in Nat /\ Len(s) > 1 /\ DOMAIN s = 1..Len(s)
  BY <1>0
<1>2. /\ Tail(s) \in Seq(S) /\ Len(Tail(s)) = Len(s) - 1 /\ DOMAIN Tail(s) = 1..(Len(s) - 1)
      /\ \A i \in 1..(Len(s) - 1) : Tail(s)[i] = s[i + 1]
  OBVIOUS
<1> PICK v : v = Tail(s)
  BY Zenon
<1>3. v # <<>> /\ Head(v) = v[1]
  <2>1. v \in Seq(S) /\ Len(v) # 0
    BY <1>1, <1>2
  <2> QED BY <2>1, HeadFirst, Zenon
<1>4. Head(v) = s[2] /\ \A i \in DOMAIN v : i \in Nat /\ i + 1 \in DOMAIN s /\ v[i] = s[i + 1]
  BY <1>1, <1>2, <1>3
<1> QED BY <1>2, <1>3, <1>4

(* And for what is left of them. *)
LEMMA RouteTail ==
  ASSUME NEW s, NEW m, Route(s, m)
  PROVE  /\ Head(s) = s[1] /\ 1 \in DOMAIN s /\ Head(s) \in {"inject", "attr", "work", "data", "reply"}
         /\ Len(s) # 1 => /\ Route(Tail(s), m) /\ Head(Tail(s)) = s[2]
                          /\ \A i \in DOMAIN Tail(s) : i + 1 \in DOMAIN s /\ Tail(s)[i] = s[i + 1]
<1>1. s \in Seq({"inject", "attr", "work", "data", "reply"}) /\ s # <<>>
  BY Zenon DEF Route
<1>2. Head(s) = s[1] /\ 1 \in DOMAIN s /\ Head(s) \in {"inject", "attr", "work", "data", "reply"}
  BY <1>1
<1>3. ASSUME Len(s) # 1
      PROVE  /\ Tail(s) \in Seq({"inject", "attr", "work", "data", "reply"}) /\ Tail(s) # <<>>
             /\ Head(Tail(s)) = s[2]
             /\ \A i \in DOMAIN Tail(s) : i \in Nat /\ i + 1 \in DOMAIN s /\ Tail(s)[i] = s[i + 1]
  BY <1>1, <1>3, TailProperties, Zenon
<1>4. ASSUME Len(s) # 1 PROVE Route(Tail(s), m)
  <2>1. \A i, j \in DOMAIN Tail(s) : i \in Nat /\ j \in Nat /\ (i < j => i + 1 < j + 1) /\ (i + 1 = j + 1 => i = j)
    BY <1>3, <1>4
  <2>2. /\ \A i, j \in DOMAIN s : i < j /\ s[i] = "work" => s[j] # "inject"
        /\ \A i \in DOMAIN s : s[i] = "data" => m = "write"
        /\ \A i, j \in DOMAIN s : MistakePoint(s[i], m) /\ MistakePoint(s[j], m) => i = j
    BY Zenon DEF Route
  <2>3. \A i \in DOMAIN Tail(s) : i + 1 \in DOMAIN s /\ Tail(s)[i] = s[i + 1]
    BY <1>3, <1>4, Zenon
  <2>4. ASSUME NEW i \in DOMAIN Tail(s), NEW j \in DOMAIN Tail(s), i < j, Tail(s)[i] = "work"
        PROVE  Tail(s)[j] # "inject"
    <3>1. i + 1 \in DOMAIN s /\ j + 1 \in DOMAIN s /\ i + 1 < j + 1 /\ s[i + 1] = "work" /\ Tail(s)[j] = s[j + 1]
      BY <2>1, <2>3, <2>4, Zenon
    <3> QED BY <2>2, <3>1, Zenon
  <2>5. \A i \in DOMAIN Tail(s) : Tail(s)[i] = "data" => m = "write"
    BY <2>2, <2>3, Zenon
  <2>6. \A i, j \in DOMAIN Tail(s) : MistakePoint(Tail(s)[i], m) /\ MistakePoint(Tail(s)[j], m) => i = j
    BY <2>1, <2>2, <2>3, Zenon
  <2> QED BY <1>3, <1>4, <2>4, <2>5, <2>6, Zenon DEF Route
<1> QED BY <1>2, <1>3, <1>4, Zenon

-----------------------------------------------------------------------------
(* The inductive invariant, for a request r under a list and a switch. *)

IsRequest(r) ==
  DOMAIN r = {"pc", "todo", "turn", "method", "path", "len", "fault", "delayed", "overridden", "damaged", "worked",
              "acted", "asked", "under", "lit"}

(* Where it is. *)
Where(r, list, sw) ==
  /\ IsRequest(r) /\ r.pc \in {"next", "guard", "done"} /\ r.method \in Known /\ r.len \in Nat
  /\ r.pc # "done" => Route(r.todo, r.method) /\ (sw = "on" => r.lit)
  /\ r.pc = "guard" => /\ r.under = list /\ r.turn \in 1..(Len(list) + 1)
                       /\ Head(r.todo) # "work" /\ (r.lit \/ Head(r.todo) = "data")
  /\ r.pc # "guard" => r.under = <<>> /\ r.turn = 1

(* Errors *)
Listed(r) ==
  /\ r.fault # 0 => /\ ~r.worked
                    /\ \E i \in r.acted : i.conf.type = "fault" /\ r.fault \in DOMAIN i.conf.weights
  /\ r.pc # "done" /\ r.worked => \A k \in DOMAIN r.todo : r.todo[k] # "inject"

Faults(r) == Listed(r) /\ (r.fault # 0 => r.pc = "done")

(* Before the switch is on. *)
Quiet(r) ==
  ~r.lit => r.fault = 0 /\ ~r.delayed /\ ~r.overridden /\ (r.damaged # {} => r.method = "write")

(* Whom the injectors act on. *)
Asked(r) ==
  /\ \A i \in r.acted : AsksFor(i.conf, r) /\ i.conf.percent > 0
  /\ \A i \in r.asked : AsksFor(i.conf, r) /\ i.conf.percent >= 100 => i \in r.acted

Allowed(acted) == UNION {{i} \X Budget(i.conf) : i \in Mistakes(acted)}

(* The bytes overwritten, of len, and those allowed. *)
Confined(bytes, allowed, len) ==
  /\ bytes \subseteq 0..(len - 1) /\ IsFiniteSet(bytes) /\ IsFiniteSet(allowed)
  /\ Cardinality(bytes) <= Cardinality(allowed)
  /\ len > 0 /\ allowed # {} => bytes # {}

(* Mistakes, and when it may come to further ones. *)
Damage(r) ==
  /\ Confined(r.damaged, Allowed(r.acted), r.len)
  /\ r.pc # "done" => \A i \in Mistakes(r.acted) :
       /\ \A k \in DOMAIN r.todo : k # 1 => ~MistakePoint(r.todo[k], r.method)
       /\ MistakePoint(r.todo[1], r.method) => r.pc = "guard" /\ i.at \in 1..(r.turn - 1)

Fine(r, list, sw) == r = NoRequest \/ (Where(r, list, sw) /\ Faults(r) /\ Quiet(r) /\ Asked(r) /\ Damage(r))

IInv ==
  /\ injectors \in Confs /\ switch \in {"before", "on", "after"} /\ updates \in 0..MaxUpdates
  /\ DOMAIN req = Task /\ \A t \in Task : Fine(req[t], injectors, switch)

(* Nothing but pc, todo, turn and under differ. *)
Kept(r, u) ==
  /\ u.method = r.method /\ u.path = r.path /\ u.len = r.len /\ u.fault = r.fault /\ u.delayed = r.delayed
  /\ u.overridden = r.overridden /\ u.damaged = r.damaged /\ u.worked = r.worked
  /\ u.acted = r.acted /\ u.asked = r.asked /\ u.lit = r.lit

(* The fields of a request that has ended. *)
LEMMA FinishFields ==
  ASSUME NEW r, IsRequest(r)
  PROVE  /\ IsRequest(Finish(r)) /\ Kept(r, Finish(r))
         /\ Finish(r).pc = "done" /\ Finish(r).turn = 1 /\ Finish(r).under = <<>>
BY DEF Finish, IsRequest, Kept

(* The fields of one that goes to its next point, or ends. *)
LEMMA AdvanceFields ==
  ASSUME NEW r, IsRequest(r)
  PROVE  /\ IsRequest(Advance(r)) /\ Kept(r, Advance(r))
         /\ Advance(r).turn = 1 /\ Advance(r).under = <<>>
         /\ Len(r.todo) = 1 => Advance(r).pc = "done"
         /\ Len(r.todo) # 1 => Advance(r).pc = "next" /\ Advance(r).todo = Tail(r.todo)
<1>1. /\ IsRequest(Finish(r)) /\ Kept(r, Finish(r))
      /\ Finish(r).turn = 1 /\ Finish(r).under = <<>> /\ Finish(r).pc = "done"
  BY FinishFields, Zenon
<1>2. CASE Len(r.todo) = 1
  BY <1>1, <1>2, Zenon DEF Advance
<1>3. CASE Len(r.todo) # 1
  <2> DEFINE f == Finish(r)
             u == [f EXCEPT !.pc = "next", !.todo = Tail(r.todo)]
  <2>1. Advance(r) = u
    BY <1>3, Zenon DEF Advance
  <2> HIDE DEF f
  <2>2. IsRequest(u) /\ Kept(f, u) /\ u.turn = f.turn /\ u.under = f.under /\ u.pc = "next" /\ u.todo = Tail(r.todo)
    BY <1>1 DEF IsRequest, Kept, f
  <2> QED BY <1>1, <1>3, <2>1, <2>2 DEF Kept, f
<1> QED BY <1>2, <1>3, Zenon

(* What acts on whom, and the switch, look at fields that are kept. *)
LEMMA KeptSays ==
  ASSUME NEW r, NEW u, Kept(r, u)
  PROVE  (Quiet(r) => Quiet(u)) /\ (Asked(r) => Asked(u))
<1>1. Quiet(r) => Quiet(u)
  BY Zenon DEF Kept, Quiet
<1>2. Asked(r) => Asked(u)
  BY Zenon DEF Kept, Asked, AsksFor
<1> QED BY <1>1, <1>2, Zenon

(* A request that ends. *)
LEMMA FinishFine ==
  ASSUME NEW r, NEW list, NEW sw, Where(r, list, sw), Listed(r), Quiet(r), Asked(r), Damage(r)
  PROVE  Fine(Finish(r), list, sw)
<1> PICK u : u = Finish(r)
  BY Zenon
<1>1. IsRequest(u) /\ Kept(r, u) /\ u.pc = "done" /\ u.turn = 1 /\ u.under = <<>>
  BY FinishFields, Zenon DEF Where
<1>2. Where(u, list, sw)
  BY <1>1, Zenon DEF Where, Kept
<1>3. Faults(u)
  BY <1>1, Zenon DEF Faults, Listed, Kept
<1>4. Quiet(u) /\ Asked(u)
  BY <1>1, KeptSays, Zenon
<1>5. Damage(u)
  BY <1>1, Zenon DEF Damage, Kept
<1> QED BY <1>2, <1>3, <1>4, <1>5, Zenon DEF Fine

(* A request that goes to its next point. *)
LEMMA AdvanceFine ==
  ASSUME NEW r, NEW list, NEW sw, Where(r, list, sw), Faults(r), Quiet(r), Asked(r), Damage(r), r.pc # "done"
  PROVE  Fine(Advance(r), list, sw)
<1> PICK u : u = Advance(r)
  BY Zenon
<1>1. /\ IsRequest(u) /\ Kept(r, u) /\ u.turn = 1 /\ u.under = <<>>
      /\ Len(r.todo) = 1 => u.pc = "done"
      /\ Len(r.todo) # 1 => u.pc = "next" /\ u.todo = Tail(r.todo)
  BY AdvanceFields, Zenon DEF Where
<1>2. Route(r.todo, r.method)
  BY Zenon DEF Where
<1>3. /\ 1 \in DOMAIN r.todo
      /\ Len(r.todo) # 1 => /\ Route(u.todo, r.method) /\ u.todo[1] = r.todo[2] /\ 1 \in DOMAIN u.todo
                            /\ \A i \in DOMAIN u.todo : i + 1 \in DOMAIN r.todo /\ u.todo[i] = r.todo[i + 1]
  <2>1. 1 \in DOMAIN r.todo
    BY <1>2, RouteTail, Zenon
  <2>2. ASSUME Len(r.todo) # 1
        PROVE  /\ Route(u.todo, r.method) /\ Head(u.todo) = r.todo[2]
               /\ \A i \in DOMAIN u.todo : i + 1 \in DOMAIN r.todo /\ u.todo[i] = r.todo[i + 1]
    <3>1. u.todo = Tail(r.todo)
      BY <1>1, <2>2, Zenon
    <3>2. /\ Route(Tail(r.todo), r.method) /\ Head(Tail(r.todo)) = r.todo[2]
          /\ \A i \in DOMAIN Tail(r.todo) : i + 1 \in DOMAIN r.todo /\ Tail(r.todo)[i] = r.todo[i + 1]
      BY <1>2, <2>2, RouteTail, Zenon
    <3> QED BY <3>1, <3>2, Zenon
  <2>3. ASSUME Len(r.todo) # 1 PROVE Head(u.todo) = u.todo[1] /\ 1 \in DOMAIN u.todo
    BY <2>2, <2>3, RouteTail, Zenon
  <2> QED BY <2>1, <2>2, <2>3, Zenon
<1>4. Where(u, list, sw)
  BY <1>1, <1>3, Zenon DEF Where, Kept
<1>5. Faults(u)
  <2>1. r.fault = 0 /\ (r.worked => \A k \in DOMAIN r.todo : r.todo[k] # "inject")
    BY Zenon DEF Faults, Listed
  <2>2. u.fault = r.fault /\ u.worked = r.worked
    BY <1>1, Zenon DEF Kept
  <2>3. ASSUME u.pc # "done", u.worked, NEW k \in DOMAIN u.todo PROVE u.todo[k] # "inject"
    <3>1. Len(r.todo) # 1 /\ r.worked
      BY <1>1, <2>2, <2>3, Zenon
    <3>2. k + 1 \in DOMAIN r.todo /\ u.todo[k] = r.todo[k + 1]
      BY <1>3, <3>1, Zenon
    <3> QED BY <2>1, <3>1, <3>2, Zenon
  <2> QED BY <2>1, <2>2, <2>3, Zenon DEF Faults, Listed
<1>6. Quiet(u) /\ Asked(u)
  BY <1>1, KeptSays, Zenon
<1>7. ASSUME u.pc # "done", NEW i \in Mistakes(u.acted), NEW k \in DOMAIN u.todo
      PROVE  ~MistakePoint(u.todo[k], u.method)
  <2>1. Len(r.todo) # 1 /\ i \in Mistakes(r.acted) /\ u.method = r.method
    BY <1>1, <1>7, Zenon DEF Kept
  <2>2. k + 1 \in DOMAIN r.todo /\ u.todo[k] = r.todo[k + 1]
    BY <1>3, <2>1, Zenon
  <2>3. k + 1 # 1
    <3>1. k \in Nat /\ k >= 1
      BY <1>3, <2>1 DEF Route
    <3> QED BY <3>1
  <2>4. ~MistakePoint(r.todo[k + 1], r.method)
    BY <2>1, <2>2, <2>3, Zenon DEF Damage
  <2> QED BY <2>1, <2>2, <2>4, Zenon
<1>8. ASSUME u.pc # "done" PROVE 1 \in DOMAIN u.todo
  BY <1>1, <1>3, <1>8, Zenon
<1>9. Damage(u)
  <2>1. \A i \in Mistakes(u.acted) : u.pc # "done" =>
          /\ \A k \in DOMAIN u.todo : k # 1 => ~MistakePoint(u.todo[k], u.method)
          /\ MistakePoint(u.todo[1], u.method) => u.pc = "guard" /\ i.at \in 1..(u.turn - 1)
    BY <1>7, <1>8, Zenon
  <2>2. Confined(u.damaged, Allowed(u.acted), u.len)
    BY <1>1, Zenon DEF Damage, Kept
  <2> QED BY <2>1, <2>2, Zenon DEF Damage
<1> QED BY <1>4, <1>5, <1>6, <1>9, Zenon DEF Fine

(* Arrive *)
LEMMA ArriveFine ==
  ASSUME IInv, NEW t \in Task, Arrive(t)
  PROVE  Fine(req'[t], injectors, switch)
<1>1. PICK q \in Requests[t] :
        req' = [req EXCEPT ![t] =
          [pc |-> "next", todo |-> Points(q.method), turn |-> 1, method |-> q.method, path |-> q.path, len |-> q.len,
           fault |-> 0, delayed |-> FALSE, overridden |-> FALSE, damaged |-> {}, worked |-> FALSE,
           acted |-> {}, asked |-> {}, under |-> <<>>, lit |-> switch = "on"]]
  BY Zenon DEF Arrive
<1> PICK r : r = req'[t]
  BY Zenon
<1>2. r = [pc |-> "next", todo |-> Points(q.method), turn |-> 1, method |-> q.method, path |-> q.path, len |-> q.len,
           fault |-> 0, delayed |-> FALSE, overridden |-> FALSE, damaged |-> {}, worked |-> FALSE,
           acted |-> {}, asked |-> {}, under |-> <<>>, lit |-> switch = "on"]
  BY <1>1, Zenon DEF IInv
<1>3. /\ IsRequest(r) /\ r.pc = "next" /\ r.todo = Points(q.method) /\ r.turn = 1
      /\ r.method = q.method /\ r.len = q.len
      /\ r.fault = 0 /\ r.damaged = {} /\ r.acted = {} /\ r.asked = {} /\ r.under = <<>>
  BY <1>2 DEF IsRequest
<1>4. ~r.delayed /\ ~r.overridden /\ ~r.worked /\ (switch = "on" => r.lit)
  <2>1. r.delayed = FALSE
    BY <1>2
  <2>2. r.overridden = FALSE
    BY <1>2
  <2>3. r.worked = FALSE
    BY <1>2
  <2>4. r.lit = (switch = "on")
    BY <1>2
  <2> QED BY <2>1, <2>2, <2>3, <2>4, Zenon
<1>5. q.method \in Known /\ q.len \in Nat
  BY InjectorsAssumption, Zenon
<1>6. Where(r, injectors, switch)
  BY <1>3, <1>4, <1>5, PointsRoute, Zenon DEF Where
<1>7. Faults(r) /\ Quiet(r) /\ Asked(r)
  BY <1>3, <1>4, Zenon DEF Faults, Listed, Quiet, Asked
<1>8. Damage(r)
  <2>1. Mistakes(r.acted) = {}
    BY <1>3, Zenon DEF Mistakes
  <2>2. Allowed(r.acted) = {}
    BY <2>1, Zenon DEF Allowed
  <2>3. IsFiniteSet({}) /\ Cardinality({}) <= Cardinality({})
    BY FS_EmptySet
  <2> QED BY <1>3, <2>1, <2>2, <2>3, Zenon DEF Damage, Confined
<1> QED BY <1>6, <1>7, <1>8, Zenon DEF Fine

Sound(r, list, sw) == Where(r, list, sw) /\ Faults(r) /\ Quiet(r) /\ Asked(r) /\ Damage(r)

(* A request in progress. *)
LEMMA Going ==
  ASSUME IInv, NEW t \in Task, req[t].pc \in {"next", "guard"}
  PROVE  Sound(req[t], injectors, switch)
<1>1. NoRequest.pc = "idle"
  BY DEF NoRequest
<1> QED BY <1>1, Zenon DEF IInv, Fine, Sound

(* Work *)
LEMMA WorkFine ==
  ASSUME IInv, NEW t \in Task, Work(t)
  PROVE  Fine(req'[t], injectors, switch)
<1> PICK r : r = req[t]
  BY Zenon
<1>1. Sound(r, injectors, switch) /\ r.pc = "next" /\ Head(r.todo) = "work"
  BY Going, Zenon DEF Work, Point
<1>2. CASE req' = [req EXCEPT ![t] = Finish(@)]
  <2>1. req'[t] = Finish(r)
    BY <1>2, Zenon DEF IInv
  <2> QED BY <1>1, <2>1, FinishFine, Zenon DEF Sound, Faults
<1>3. CASE req' = [req EXCEPT ![t] = Advance([@ EXCEPT !.worked = TRUE])]
  <2> PICK u : u = [r EXCEPT !.worked = TRUE]
    BY Zenon
  <2>1. req'[t] = Advance(u)
    BY <1>3, Zenon DEF IInv
  <2>2. /\ IsRequest(u) /\ u.pc = r.pc /\ u.todo = r.todo /\ u.turn = r.turn /\ u.under = r.under
        /\ u.method = r.method /\ u.path = r.path /\ u.len = r.len /\ u.fault = r.fault /\ u.delayed = r.delayed
        /\ u.overridden = r.overridden /\ u.damaged = r.damaged
        /\ u.acted = r.acted /\ u.asked = r.asked /\ u.lit = r.lit
    BY <1>1 DEF Sound, Where, IsRequest
  <2>3. Where(u, injectors, switch)
    BY <1>1, <2>2, Zenon DEF Sound, Where
  <2>4. Quiet(u) /\ Asked(u)
    BY <1>1, <2>2, Zenon DEF Sound, Quiet, Asked, AsksFor
  <2>5. Damage(u)
    BY <1>1, <2>2, Zenon DEF Sound, Damage
  <2>6. Faults(u)
    <3>1. Route(u.todo, u.method) /\ u.pc # "done" /\ u.fault = 0
      BY <1>1, <2>2, Zenon DEF Sound, Where, Faults
    <3>2. 1 \in DOMAIN u.todo /\ u.todo[1] = "work"
      <4>1. 1 \in DOMAIN u.todo /\ Head(u.todo) = u.todo[1]
        BY <3>1, RouteTail, Zenon
      <4> QED BY <1>1, <2>2, <4>1, Zenon
    <3>3. ASSUME NEW k \in DOMAIN u.todo PROVE u.todo[k] # "inject"
      <4>1. k = 1 \/ 1 < k
        BY <3>1 DEF Route
      <4>2. 1 < k => u.todo[k] # "inject"
        BY <3>1, <3>2, Zenon DEF Route
      <4> QED BY <3>2, <4>1, <4>2
    <3> QED BY <3>1, <3>3, Zenon DEF Faults, Listed
  <2> QED BY <1>1, <2>1, <2>2, <2>3, <2>4, <2>5, <2>6, AdvanceFine, Zenon
<1> QED BY <1>2, <1>3, Zenon DEF Work

(* EnterPoint: the read guard is taken under the list of the moment. *)
LEMMA EnterPointFine ==
  ASSUME IInv, NEW t \in Task, EnterPoint(t)
  PROVE  Fine(req'[t], injectors, switch)
<1> PICK r : r = req[t]
  BY Zenon
<1>1. Sound(r, injectors, switch) /\ r.pc = "next" /\ Head(r.todo) # "work"
  BY Going, Zenon DEF EnterPoint, Point
<1>2. CASE ~Enters(t)
  <2>1. req'[t] = Advance(r)
    BY <1>2, Zenon DEF EnterPoint, IInv
  <2> QED BY <1>1, <2>1, AdvanceFine, Zenon DEF Sound
<1>3. CASE Enters(t)
  <2> PICK u : u = [r EXCEPT !.pc = "guard", !.under = injectors]
    BY Zenon
  <2>1. req'[t] = u
    BY <1>3, Zenon DEF EnterPoint, IInv
  <2>2. /\ IsRequest(u) /\ Kept(r, u) /\ u.pc = "guard" /\ u.todo = r.todo /\ u.turn = r.turn /\ u.under = injectors
    BY <1>1 DEF Sound, Where, IsRequest, Kept
  <2>3. Route(r.todo, r.method) /\ r.turn = 1 /\ (switch = "on" => r.lit)
    BY <1>1, Zenon DEF Sound, Where
  <2>4. Head(r.todo) = "data" \/ switch = "on"
    BY <1>3, Zenon DEF Enters, Point
  <2>5. 1 \in 1..(Len(injectors) + 1)
    BY InjectorsAssumption DEF IInv
  <2>6. Where(u, injectors, switch)
    BY <1>1, <2>2, <2>3, <2>4, <2>5, Zenon DEF Sound, Where, Kept
  <2>7. Quiet(u) /\ Asked(u)
    BY <1>1, <2>2, KeptSays, Zenon DEF Sound
  <2>8. Faults(u)
    <3>1. r.fault = 0 /\ (r.worked => \A k \in DOMAIN r.todo : r.todo[k] # "inject")
      BY <1>1, Zenon DEF Sound, Faults, Listed
    <3>2. u.fault = 0 /\ (u.worked => \A k \in DOMAIN u.todo : u.todo[k] # "inject")
      <4>1. u.fault = r.fault /\ u.worked = r.worked /\ u.todo = r.todo
        BY <2>2, Zenon DEF Kept
      <4> QED BY <3>1, <4>1, Zenon
    <3> QED BY <3>2, Zenon DEF Faults, Listed
  <2>9. Damage(u)
    <3>1. Confined(u.damaged, Allowed(u.acted), u.len)
      BY <1>1, <2>2, Zenon DEF Sound, Damage, Kept
    <3>2. \A i \in Mistakes(r.acted) :
            /\ \A k \in DOMAIN r.todo : k # 1 => ~MistakePoint(r.todo[k], r.method)
            /\ ~MistakePoint(r.todo[1], r.method)
      BY <1>1, Zenon DEF Sound, Damage
    <3> QED BY <2>2, <3>1, <3>2, Zenon DEF Damage, Kept
  <2> QED BY <2>1, <2>6, <2>7, <2>8, <2>9, Zenon DEF Fine
<1> QED BY <1>2, <1>3, Zenon

(* LeavePoint *)
LEMMA LeavePointFine ==
  ASSUME IInv, NEW t \in Task, LeavePoint(t)
  PROVE  Fine(req'[t], injectors, switch)
<1> PICK r : r = req[t]
  BY Zenon
<1>1. Sound(r, injectors, switch) /\ r.pc = "guard"
  BY Going, Zenon DEF LeavePoint
<1>2. req'[t] = Advance(r)
  BY Zenon DEF LeavePoint, IInv
<1> QED BY <1>1, <1>2, AdvanceFine, Zenon DEF Sound

-----------------------------------------------------------------------------
(* NextInjector *)

(* What an answer of the filter says. *)
LEMMA FilterSays ==
  ASSUME NEW c, IsConf(c), NEW r, r.method \in Known
  PROVE  /\ FALSE \in Filter(c, r.method, r.path) => ~(AsksFor(c, r) /\ c.percent >= 100)
         /\ TRUE \in Filter(c, r.method, r.path) => AsksFor(c, r) /\ c.percent > 0
<1>1. AsksFor(c, r) <=> FilterPath(c.path, r.path) /\ r.method \in FilterMethods(c.methods)
  <2>1. r.method \in FilterMethods(c.methods) <=> (c.methods = {} \/ r.method \in c.methods)
    BY Zenon DEF FilterMethods
  <2> QED BY <2>1, Zenon DEF AsksFor, FilterPath
<1>2. c.percent \in Int
  BY Zenon DEF IsConf
<1>3. ASSUME FALSE \in Filter(c, r.method, r.path), AsksFor(c, r) PROVE c.percent < 100
  BY <1>1, <1>3, Zenon DEF Filter
<1>4. ASSUME TRUE \in Filter(c, r.method, r.path) PROVE AsksFor(c, r) /\ c.percent > 0
  BY <1>1, <1>4, Zenon DEF Filter
<1>5. c.percent < 100 => ~(c.percent >= 100)
  BY <1>2
<1> QED BY <1>3, <1>4, <1>5, Zenon

(* The next injector's turn: nothing but the effects differ. *)
Turned(r, u) ==
  /\ IsRequest(u) /\ u.pc = r.pc /\ u.todo = r.todo /\ u.turn = r.turn + 1 /\ u.under = r.under
  /\ u.method = r.method /\ u.path = r.path /\ u.len = r.len /\ u.worked = r.worked /\ u.lit = r.lit

(* The effects of an injector that is passed by. *)
Unhurt(r, u) ==
  u.fault = r.fault /\ u.delayed = r.delayed /\ u.overridden = r.overridden /\ u.damaged = r.damaged

(* Those of one that acts: each type has its own. *)
Hurt(c, r, u) ==
  /\ c.type # "fault" => u.fault = r.fault
  /\ c.type = "fault" => u.fault \in {0} \cup DOMAIN c.weights
  /\ c.type # "latency" => u.delayed = r.delayed
  /\ c.type # "override" => u.overridden = r.overridden
  /\ c.type # "mistake" => u.damaged = r.damaged
  /\ c.type = "mistake" => \E D \in Handle(c, r.len) : u.damaged = r.damaged \cup D

SameFields(r, u) ==
  /\ IsRequest(u) /\ u.pc = r.pc /\ u.todo = r.todo /\ u.turn = r.turn /\ u.under = r.under
  /\ u.method = r.method /\ u.path = r.path /\ u.len = r.len /\ u.worked = r.worked /\ u.lit = r.lit
  /\ u.acted = r.acted /\ u.asked = r.asked

(* What the four injectors do. *)
LEMMA InjectedFields ==
  ASSUME NEW c, IsConf(c), NEW r, IsRequest(r), NEW u \in Injected(c, r)
  PROVE  SameFields(r, u) /\ Hurt(c, r, u)
<1>1. CASE c.type = "fault"
  <2>1. u \in InjectFault(c, r)
    BY <1>1 DEF Injected
  <2>2. PICK a \in Attempts(c.weights) : u = [r EXCEPT !.fault = Pick(c.weights, a)]
    BY <2>1, Zenon DEF InjectFault
  <2>3. Pick(c.weights, a) \in {0} \cup DOMAIN c.weights
    BY <1>1, AttemptsType, PickProperties, Zenon DEF IsConf
  <2> PICK p : p = Pick(c.weights, a)
    BY Zenon
  <2>4. u = [r EXCEPT !.fault = p]
    BY <2>2, Zenon
  <2>5. SameFields(r, u) /\ u.fault = p /\ u.delayed = r.delayed /\ u.overridden = r.overridden /\ u.damaged = r.damaged
    BY <2>4 DEF IsRequest, SameFields
  <2> QED BY <1>1, <2>3, <2>5 DEF Hurt
<1>2. CASE c.type = "latency"
  <2>1. u = [r EXCEPT !.delayed = TRUE]
    BY <1>2 DEF Injected, InjectLatency
  <2>2. SameFields(r, u) /\ u.fault = r.fault /\ u.overridden = r.overridden /\ u.damaged = r.damaged
    BY <2>1 DEF IsRequest, SameFields
  <2> QED BY <1>2, <2>2 DEF Hurt
<1>3. CASE c.type = "override"
  <2>1. u = [r EXCEPT !.overridden = TRUE]
    BY <1>3 DEF Injected, InjectAttr
  <2>2. SameFields(r, u) /\ u.fault = r.fault /\ u.delayed = r.delayed /\ u.damaged = r.damaged
    BY <2>1 DEF IsRequest, SameFields
  <2> QED BY <1>3, <2>2 DEF Hurt
<1>4. CASE c.type = "mistake"
  <2>1. u \in InjectMistake(c, r)
    BY <1>4 DEF Injected
  <2>2. PICK D \in Handle(c, r.len) : u = [r EXCEPT !.damaged = r.damaged \cup D]
    BY <2>1, Zenon DEF InjectMistake
  <2> PICK p : p = r.damaged \cup D
    BY Zenon
  <2>3. u = [r EXCEPT !.damaged = p]
    BY <2>2, Zenon
  <2>4. SameFields(r, u) /\ u.fault = r.fault /\ u.delayed = r.delayed /\ u.overridden = r.overridden /\ u.damaged = p
    BY <2>3 DEF IsRequest, SameFields
  <2>5. \E E \in Handle(c, r.len) : u.damaged = r.damaged \cup E
    BY <2>4, Zenon
  <2> QED BY <1>4, <2>4, <2>5 DEF Hurt
<1> QED BY <1>1, <1>2, <1>3, <1>4, Zenon DEF IsConf

(* Where a request is when the next injector has its turn. *)
LEMMA TurnedWhere ==
  ASSUME NEW r, NEW u, NEW list, NEW sw, Where(r, list, sw), r.pc = "guard", r.turn <= Len(list), Len(list) \in Nat,
         Turned(r, u)
  PROVE  Where(u, list, sw)
<1>1. u.turn \in 1..(Len(list) + 1)
  <2>1. r.turn \in 1..(Len(list) + 1) /\ u.turn = r.turn + 1
    BY Zenon DEF Where, Turned
  <2> QED BY <2>1
<1> QED BY <1>1, Zenon DEF Where, Turned

(* Further mistakes stay within what their injector allows. *)
LEMMA DamageGrows ==
  ASSUME NEW r, Damage(r), r.pc = "guard", r.turn \in Nat, r.len \in Nat, MistakePoint(r.todo[1], r.method),
         NEW c, IsConf(c), c.type = "mistake", NEW D \in Handle(c, r.len),
         NEW i, i.at = r.turn, i.conf = c
  PROVE  Confined(r.damaged \cup D, Allowed(r.acted \cup {i}), r.len)
<1> DEFINE A == Allowed(r.acted)
           N == {i} \X Budget(c)
           E == r.damaged \cup D
<1>1. /\ D \subseteq 0..(r.len - 1) /\ IsFiniteSet(D) /\ IsFiniteSet(Budget(c))
      /\ Cardinality(D) <= Cardinality(Budget(c)) /\ (r.len > 0 /\ Budget(c) # {} => D # {})
  BY HandleProperties, Zenon DEF IsConf
<1>2. /\ r.damaged \subseteq 0..(r.len - 1) /\ IsFiniteSet(r.damaged) /\ IsFiniteSet(A)
      /\ Cardinality(r.damaged) <= Cardinality(A) /\ (r.len > 0 /\ A # {} => r.damaged # {})
  BY Zenon DEF Damage, Confined
<1>3. ASSUME NEW j \in Mistakes(r.acted) PROVE j # i
  <2>1. j.at \in 1..(r.turn - 1)
    BY Zenon DEF Damage
  <2>2. r.turn \notin 1..(r.turn - 1)
    OBVIOUS
  <2> QED BY <2>1, <2>2, Zenon
<1>4. Mistakes(r.acted \cup {i}) = Mistakes(r.acted) \cup {i}
  BY Zenon DEF Mistakes
<1>5. Allowed(r.acted \cup {i}) = A \cup N
  BY <1>4, Zenon DEF Allowed
<1>6. A \cap N = {}
  <2> SUFFICES ASSUME NEW p \in A, p \in N PROVE FALSE
    BY Zenon
  <2>1. PICK j \in Mistakes(r.acted) : p \in {j} \X Budget(j.conf)
    BY Zenon DEF Allowed
  <2>2. p[1] = j /\ p[1] = i
    BY <2>1
  <2> QED BY <1>3, <2>2, Zenon
<1>7. IsFiniteSet(N) /\ Cardinality(N) = Cardinality(Budget(c)) /\ Cardinality(Budget(c)) \in Nat
  <2>1. IsFiniteSet({i}) /\ Cardinality({i}) = 1
    BY FS_Singleton, Zenon
  <2>2. IsFiniteSet(N) /\ Cardinality(N) = Cardinality({i}) * Cardinality(Budget(c))
    BY <1>1, <2>1, FS_Product, Zenon
  <2>3. Cardinality(Budget(c)) \in Nat
    BY <1>1, FS_CardinalityType, Zenon
  <2> QED BY <2>1, <2>2, <2>3
<1>8. /\ IsFiniteSet(A \cup N) /\ Cardinality(A \cup N) = Cardinality(A) + Cardinality(N) - Cardinality(A \cap N)
      /\ Cardinality(A \cap N) = 0 /\ Cardinality(A) \in Nat /\ Cardinality(N) \in Nat
  <2>1. IsFiniteSet(A) /\ IsFiniteSet(N)
    BY <1>2, <1>7, Zenon
  <2>2. /\ IsFiniteSet(A \cup N)
        /\ Cardinality(A \cup N) = Cardinality(A) + Cardinality(N) - Cardinality(A \cap N)
    BY <2>1, FS_Union, Zenon
  <2>3. Cardinality(A \cap N) = 0
    BY <1>6, FS_EmptySet, Zenon
  <2>4. Cardinality(A) \in Nat /\ Cardinality(N) \in Nat
    BY <2>1, FS_CardinalityType, Zenon
  <2> QED BY <2>2, <2>3, <2>4, Zenon
<1>9. /\ IsFiniteSet(E) /\ Cardinality(E) = Cardinality(r.damaged) + Cardinality(D) - Cardinality(r.damaged \cap D)
      /\ Cardinality(r.damaged \cap D) \in Nat /\ Cardinality(r.damaged) \in Nat /\ Cardinality(D) \in Nat
  <2>1. IsFiniteSet(r.damaged \cap D)
    BY <1>1, FS_Intersection, Zenon
  <2> QED BY <1>1, <1>2, <2>1, FS_Union, FS_CardinalityType, Zenon
<1>10. Cardinality(E) <= Cardinality(A \cup N)
  BY <1>1, <1>2, <1>7, <1>8, <1>9
<1>11. r.len > 0 /\ A \cup N # {} => E # {}
  BY <1>1, <1>2, Zenon
<1> QED BY <1>1, <1>2, <1>5, <1>8, <1>9, <1>10, <1>11, Zenon DEF Confined

(* An injector whose turn passes without an effect. *)
LEMMA PassedFine ==
  ASSUME NEW r, NEW u, NEW list, NEW sw, Sound(r, list, sw), r.pc = "guard", r.turn <= Len(list), Len(list) \in Nat,
         Turned(r, u), Unhurt(r, u), u.acted = r.acted, Asked(u)
  PROVE  Fine(u, list, sw)
<1>1. Where(u, list, sw)
  BY TurnedWhere, Zenon DEF Sound
<1>2. Quiet(u)
  BY Zenon DEF Sound, Quiet, Turned, Unhurt
<1>3. Faults(u)
  BY Zenon DEF Sound, Faults, Listed, Turned, Unhurt
<1>4. 1..(r.turn - 1) \subseteq 1..(u.turn - 1)
  <2>1. r.turn \in 1..(Len(list) + 1) /\ u.turn = r.turn + 1
    BY Zenon DEF Sound, Where, Turned
  <2> QED BY <2>1
<1>5. Damage(u)
  BY <1>4, Zenon DEF Sound, Damage, Turned, Unhurt
<1> QED BY <1>1, <1>2, <1>3, <1>5, Zenon DEF Fine

(* Whether an injector does anything at the point a request is at. *)
Meant(c, r) ==
  \/ c.type \in {"fault", "latency"} /\ Head(r.todo) = "inject"
  \/ c.type = "override" /\ Head(r.todo) = "attr"
  \/ c.type = "mistake" /\ MistakePoint(Head(r.todo), r.method)

(* An injector that acts, and is allowed to by its filter. *)
LEMMA ActedFine ==
  ASSUME NEW r, NEW u, NEW list, NEW sw, Sound(r, list, sw), r.pc = "guard", r.turn <= Len(list), Len(list) \in Nat,
         NEW c, IsConf(c), NEW i, i.at = r.turn, i.conf = c, AsksFor(c, r), c.percent > 0, Meant(c, r),
         Turned(r, u), Hurt(c, r, u), u.acted = r.acted \cup {i}, u.asked = r.asked \cup {i}
  PROVE  Where(u, list, sw) /\ Listed(u) /\ Quiet(u) /\ Asked(u) /\ Damage(u)
<1>1. Where(u, list, sw)
  BY TurnedWhere, Zenon DEF Sound
<1>2. Route(r.todo, r.method) /\ r.fault = 0 /\ (r.lit \/ Head(r.todo) = "data") /\ r.turn \in Nat /\ r.len \in Nat
  <2>1. r.turn \in 1..(Len(list) + 1)
    BY Zenon DEF Sound, Where
  <2>2. r.turn \in Nat
    BY <2>1
  <2> QED BY <2>2, Zenon DEF Sound, Where, Faults
<1>3. Head(r.todo) = r.todo[1] /\ 1 \in DOMAIN r.todo
  BY <1>2, RouteTail, Zenon
<1>4. Asked(u)
  <2>1. \A j \in u.acted : AsksFor(j.conf, r) /\ j.conf.percent > 0
    BY Zenon DEF Sound, Asked
  <2>2. \A j \in u.asked : AsksFor(j.conf, r) /\ j.conf.percent >= 100 => j \in u.acted
    BY Zenon DEF Sound, Asked
  <2>3. \A j : AsksFor(j.conf, u) <=> AsksFor(j.conf, r)
    BY Zenon DEF AsksFor, Turned
  <2> QED BY <2>1, <2>2, <2>3, Zenon DEF Asked
<1>5. Quiet(u)
  <2> SUFFICES ASSUME ~u.lit
               PROVE  u.fault = 0 /\ ~u.delayed /\ ~u.overridden /\ (u.damaged # {} => u.method = "write")
    BY Zenon DEF Quiet
  <2>1. ~r.lit /\ r.todo[1] = "data"
    BY <1>2, <1>3, Zenon DEF Turned
  <2>2. r.method = "write"
    BY <1>2, <1>3, <2>1, Zenon DEF Route
  <2>3. c.type = "mistake"
    BY <1>3, <2>1 DEF Meant
  <2>4. r.fault = 0 /\ ~r.delayed /\ ~r.overridden
    BY <2>1, Zenon DEF Sound, Quiet
  <2>5. u.fault = r.fault /\ u.delayed = r.delayed /\ u.overridden = r.overridden
    BY <2>3 DEF Hurt
  <2> QED BY <2>2, <2>4, <2>5, Zenon DEF Turned
<1>6. Listed(u)
  <2>1. u.worked => \A k \in DOMAIN u.todo : u.todo[k] # "inject"
    <3>1. r.worked => \A k \in DOMAIN r.todo : r.todo[k] # "inject"
      BY Zenon DEF Sound, Faults, Listed
    <3>2. u.worked = r.worked /\ u.todo = r.todo
      BY Zenon DEF Turned
    <3> QED BY <3>1, <3>2, Zenon
  <2>2. ASSUME u.fault # 0
        PROVE  ~u.worked /\ \E j \in u.acted : j.conf.type = "fault" /\ u.fault \in DOMAIN j.conf.weights
    <3>1. c.type = "fault"
      BY <1>2, <2>2, Zenon DEF Hurt
    <3>2. u.fault \in DOMAIN c.weights
      BY <2>2, <3>1, Zenon DEF Hurt
    <3>3. u.todo[1] = "inject" /\ 1 \in DOMAIN u.todo
      <4>1. r.todo[1] = "inject"
        BY <1>3, <3>1 DEF Meant
      <4> QED BY <1>3, <4>1, Zenon DEF Turned
    <3> QED BY <2>1, <3>1, <3>2, <3>3, Zenon
  <2> QED BY <2>1, <2>2, Zenon DEF Listed
<1>7. Damage(u)
  <2>0. /\ u.pc = "guard" /\ u.todo = r.todo /\ u.method = r.method /\ u.len = r.len
        /\ 1..(r.turn - 1) \subseteq 1..(u.turn - 1)
    <3>1. u.turn = r.turn + 1
      BY Zenon DEF Turned
    <3>2. 1..(r.turn - 1) \subseteq 1..(u.turn - 1)
      BY <1>2, <3>1
    <3> QED BY <3>2, Zenon DEF Turned
  <2>1. \A j \in Mistakes(r.acted) :
          /\ \A k \in DOMAIN r.todo : k # 1 => ~MistakePoint(r.todo[k], r.method)
          /\ MistakePoint(r.todo[1], r.method) => j.at \in 1..(r.turn - 1)
    BY Zenon DEF Sound, Damage
  <2>2. CASE c.type # "mistake"
    <3>1. Mistakes(u.acted) = Mistakes(r.acted) /\ u.damaged = r.damaged
      BY <2>2, Zenon DEF Mistakes, Hurt
    <3>2. Allowed(u.acted) = Allowed(r.acted)
      BY <3>1, Zenon DEF Allowed
    <3>3. Confined(u.damaged, Allowed(u.acted), u.len)
      BY <2>0, <3>1, <3>2, Zenon DEF Sound, Damage
    <3> QED BY <2>0, <2>1, <3>1, <3>3, Zenon DEF Damage
  <2>3. CASE c.type = "mistake"
    <3>1. MistakePoint(r.todo[1], r.method)
      BY <1>3, <2>3 DEF Meant
    <3>2. PICK D \in Handle(c, r.len) : u.damaged = r.damaged \cup D
      BY <2>3, Zenon DEF Hurt
    <3>3. Confined(u.damaged, Allowed(u.acted), u.len)
      <4>1. Confined(r.damaged \cup D, Allowed(r.acted \cup {i}), r.len)
        BY <1>2, <2>3, <3>1, DamageGrows, Zenon DEF Sound
      <4> QED BY <2>0, <3>2, <4>1, Zenon
    <3>4. \A k \in DOMAIN u.todo : k # 1 => ~MistakePoint(u.todo[k], u.method)
      BY <1>2, <1>3, <2>0, <3>1, Zenon DEF Route
    <3>5. ASSUME NEW j \in Mistakes(u.acted) PROVE j.at \in 1..(u.turn - 1)
      <4>1. j \in Mistakes(r.acted) \/ j = i
        BY Zenon DEF Mistakes
      <4>2. r.turn \in 1..(u.turn - 1)
        <5>1. u.turn = r.turn + 1 /\ r.turn \in 1..(Len(list) + 1)
          BY Zenon DEF Sound, Where, Turned
        <5> QED BY <5>1
      <4> QED BY <2>0, <2>1, <3>1, <4>1, <4>2, Zenon
    <3> QED BY <2>0, <3>3, <3>4, <3>5, Zenon DEF Damage
  <2> QED BY <2>2, <2>3, Zenon
<1> QED BY <1>1, <1>4, <1>5, <1>6, <1>7, Zenon

(* The injectors in their order. *)
LEMMA NextInjectorFine ==
  ASSUME IInv, NEW t \in Task, NextInjector(t)
  PROVE  Fine(req'[t], injectors, switch)
<1> PICK r : r = req[t]
  BY Zenon
<1>1. Sound(r, injectors, switch) /\ r.pc = "guard" /\ r.turn <= Len(injectors)
  BY Going, Zenon DEF NextInjector
<1> PICK c : c = injectors[r.turn]
  BY Zenon
<1> PICK i : i = [at |-> r.turn, conf |-> c]
  BY Zenon
<1> PICK v : v = [r EXCEPT !.turn = r.turn + 1]
  BY Zenon
<1> PICK s : s = [v EXCEPT !.asked = v.asked \cup {i}]
  BY Zenon
<1> PICK w : w = [s EXCEPT !.acted = s.acted \cup {i}]
  BY Zenon
<1>2. /\ DOMAIN injectors = 1..Len(injectors) /\ Len(injectors) \in Nat
      /\ \A k \in DOMAIN injectors : IsConf(injectors[k])
  BY InjectorsAssumption, Zenon DEF IInv
<1>3. IsConf(c) /\ r.method \in Known /\ IsRequest(r)
  <2>1. r.turn \in 1..(Len(injectors) + 1) /\ r.method \in Known /\ IsRequest(r)
    BY <1>1, Zenon DEF Sound, Where
  <2>2. r.turn \in 1..Len(injectors)
    BY <1>1, <1>2, <2>1
  <2> QED BY <1>2, <2>1, <2>2, Zenon
<1>4. Turned(r, v) /\ Unhurt(r, v) /\ v.acted = r.acted /\ v.asked = r.asked
  BY <1>3 DEF IsRequest, Turned, Unhurt
<1>5. Turned(r, s) /\ Unhurt(r, s) /\ s.acted = r.acted /\ s.asked = r.asked \cup {i}
  <2>1. IsRequest(v)
    BY <1>4, Zenon DEF Turned
  <2>2. Turned(r, s) /\ Unhurt(v, s) /\ s.acted = v.acted /\ s.asked = v.asked \cup {i}
    BY <1>4, <2>1 DEF IsRequest, Unhurt, Turned
  <2> QED BY <1>4, <2>2, Zenon DEF Unhurt
<1>6. Turned(r, w) /\ Unhurt(r, w) /\ w.acted = r.acted \cup {i} /\ w.asked = r.asked \cup {i}
  <2>1. IsRequest(s)
    BY <1>5, Zenon DEF Turned
  <2>2. Turned(r, w) /\ Unhurt(s, w) /\ w.acted = s.acted \cup {i} /\ w.asked = s.asked
    BY <1>5, <2>1 DEF IsRequest, Unhurt, Turned
  <2> QED BY <1>5, <2>2, Zenon DEF Unhurt
<1>7. CASE ~Concerned(c, t)
  <2>1. req'[t] = v
    BY <1>7, Zenon DEF NextInjector, IInv
  <2>2. Asked(v)
    BY <1>1, <1>4, Zenon DEF Sound, Asked, AsksFor, Turned
  <2> QED BY <1>1, <1>2, <1>4, <2>1, <2>2, PassedFine, Zenon
<1>8. CASE Concerned(c, t) /\ FALSE \in Passes(c, t) /\ req' = [req EXCEPT ![t] = s]
  <2>1. req'[t] = s
    BY <1>8, Zenon DEF IInv
  <2>2. FALSE \in Filter(c, r.method, r.path)
    BY <1>8, Zenon DEF Passes
  <2>3. ~(AsksFor(c, r) /\ c.percent >= 100)
    BY <1>3, <2>2, FilterSays, Zenon
  <2>4. i.conf = c
    OBVIOUS
  <2>5. Asked(s)
    <3>1. \A j \in s.acted : AsksFor(j.conf, r) /\ j.conf.percent > 0
      BY <1>1, <1>5, Zenon DEF Sound, Asked
    <3>2. \A j \in s.asked : AsksFor(j.conf, r) /\ j.conf.percent >= 100 => j \in s.acted
      BY <1>1, <1>5, <2>3, <2>4, Zenon DEF Sound, Asked
    <3>3. \A j : AsksFor(j.conf, s) <=> AsksFor(j.conf, r)
      BY <1>5, Zenon DEF AsksFor, Turned
    <3> QED BY <3>1, <3>2, <3>3, Zenon DEF Asked
  <2> QED BY <1>1, <1>2, <1>5, <2>1, <2>5, PassedFine, Zenon
<1>9. CASE /\ Concerned(c, t) /\ TRUE \in Passes(c, t)
           /\ \E u \in Injected(c, w) : req' = [req EXCEPT ![t] = IF u.fault # 0 THEN Finish(u) ELSE u]
  <2>1. PICK u \in Injected(c, w) : req' = [req EXCEPT ![t] = IF u.fault # 0 THEN Finish(u) ELSE u]
    BY <1>9, Zenon
  <2>2. req'[t] = IF u.fault # 0 THEN Finish(u) ELSE u
    BY <2>1, Zenon DEF IInv
  <2>3. SameFields(w, u) /\ Hurt(c, w, u)
    BY <1>3, <1>6, InjectedFields, Zenon DEF Turned
  <2>4. Turned(r, u) /\ u.acted = r.acted \cup {i} /\ u.asked = r.asked \cup {i}
    BY <1>6, <2>3, Zenon DEF Turned, SameFields
  <2>5. Hurt(c, r, u)
    BY <1>6, <2>3, Zenon DEF Hurt, Turned, Unhurt
  <2>6. AsksFor(c, r) /\ c.percent > 0
    BY <1>3, <1>9, FilterSays, Zenon DEF Passes
  <2>7. i.conf = c /\ i.at = r.turn
    OBVIOUS
  <2>8. Meant(c, r)
    BY <1>9, Zenon DEF Concerned, Point, MistakePoint, Meant
  <2>9. Where(u, injectors, switch) /\ Listed(u) /\ Quiet(u) /\ Asked(u) /\ Damage(u)
    BY <1>1, <1>2, <1>3, <2>4, <2>5, <2>6, <2>7, <2>8, ActedFine, Zenon
  <2>10. CASE u.fault # 0
    BY <2>2, <2>9, <2>10, FinishFine, Zenon
  <2>11. CASE u.fault = 0
    BY <2>2, <2>9, <2>11, Zenon DEF Fine, Faults
  <2> QED BY <2>10, <2>11, Zenon
<1> QED BY <1>7, <1>8, <1>9, Zenon DEF NextInjector

-----------------------------------------------------------------------------
(* Every step keeps the invariant. *)

(* At the start there are no requests. *)
LEMMA InitInv == Init => IInv
<1> SUFFICES ASSUME Init PROVE IInv
  BY Zenon
<1>1. 0 \in 0..MaxUpdates
  BY InjectorsAssumption
<1> QED BY <1>1, Zenon DEF Init, IInv, Fine

(* A step of one request leaves the others alone. *)
LEMMA StepFine ==
  ASSUME IInv, NEW t \in Task, Step(t)
  PROVE  IInv'
<1>1. Fine(req'[t], injectors, switch) /\ UNCHANGED <<injectors, switch, updates>>
  BY ArriveFine, WorkFine, EnterPointFine, NextInjectorFine, LeavePointFine, Zenon
  DEF Step, Arrive, Work, EnterPoint, NextInjector, LeavePoint
<1>2. DOMAIN req' = Task /\ \A u \in Task \ {t} : req'[u] = req[u]
  <2>1. \E r : req' = [req EXCEPT ![t] = r]
    BY Zenon DEF Step, Arrive, Work, EnterPoint, NextInjector, LeavePoint
  <2> QED BY <2>1, Zenon DEF IInv
<1>3. \A u \in Task : Fine(req'[u], injectors, switch)
  BY <1>1, <1>2, Zenon DEF IInv
<1> QED BY <1>1, <1>2, <1>3, Zenon DEF IInv

(* Enable, Disable and Update. *)
LEMMA SwitchFine ==
  ASSUME IInv, Enable \/ Disable \/ Update
  PROVE  IInv'
<1>1. CASE Disable
  <2>1. ASSUME NEW t \in Task PROVE Fine(req[t], injectors, "after")
    <3>1. "after" # "on"
      OBVIOUS
    <3> QED BY <3>1, Zenon DEF IInv, Fine, Where
  <2> QED BY <1>1, <2>1, Zenon DEF Disable, IInv
<1>2. CASE Update
  <2>1. ASSUME NEW t \in Task, NEW list PROVE Fine(req[t], list, switch)
    BY <1>2, Zenon DEF Update, IInv, Fine, Where
  <2>2. updates' \in 0..MaxUpdates
    BY <1>2, InjectorsAssumption DEF Update, IInv
  <2> QED BY <1>2, <2>1, <2>2, Zenon DEF Update, IInv
<1>3. CASE Enable
  <2>1. ASSUME NEW t \in Task PROVE Fine(req'[t], injectors, "on")
    <3> PICK r : r = req[t]
      BY Zenon
    <3>1. CASE Active(t)
      <4>1. Sound(r, injectors, switch) /\ r.pc # "done"
        BY <3>1, Going, Zenon DEF Active
      <4> PICK u : u = [r EXCEPT !.lit = TRUE]
        BY Zenon
      <4>2. req'[t] = u
        BY <1>3, <3>1, Zenon DEF Enable
      <4>3. /\ IsRequest(u) /\ u.pc = r.pc /\ u.todo = r.todo /\ u.turn = r.turn /\ u.under = r.under
            /\ u.method = r.method /\ u.path = r.path /\ u.len = r.len /\ u.fault = r.fault
            /\ u.damaged = r.damaged /\ u.worked = r.worked
            /\ u.acted = r.acted /\ u.asked = r.asked /\ u.lit = TRUE
        BY <4>1 DEF Sound, Where, IsRequest
      <4>4. Where(u, injectors, "on")
        BY <4>1, <4>3, Zenon DEF Sound, Where
      <4>5. Faults(u) /\ Quiet(u)
        <5>1. u.fault = 0 /\ (u.worked => \A k \in DOMAIN u.todo : u.todo[k] # "inject")
          BY <4>1, <4>3, Zenon DEF Sound, Faults, Listed
        <5> QED BY <4>3, <5>1, Zenon DEF Faults, Listed, Quiet
      <4>6. Asked(u)
        BY <4>1, <4>3, Zenon DEF Sound, Asked, AsksFor
      <4>7. Damage(u)
        BY <4>1, <4>3, Zenon DEF Sound, Damage
      <4> QED BY <4>2, <4>4, <4>5, <4>6, <4>7, Zenon DEF Fine
    <3>2. CASE ~Active(t)
      <4>1. req'[t] = r
        BY <1>3, <3>2, Zenon DEF Enable
      <4>2. r.pc # "next" /\ r.pc # "guard" /\ Fine(r, injectors, switch)
        BY <3>2, Zenon DEF Active, IInv
      <4> QED BY <4>1, <4>2, Zenon DEF Fine, Where
    <3> QED BY <3>1, <3>2, Zenon
  <2> QED BY <1>3, <2>1, Zenon DEF Enable, IInv
<1> QED BY <1>1, <1>2, <1>3, Zenon

(* All steps. *)
LEMMA StepInv == IInv /\ [Next]_vars => IInv'
<1>1. IInv /\ UNCHANGED vars => IInv'
  BY Zenon DEF IInv, vars
<1>2. IInv /\ Next => IInv'
  BY StepFine, SwitchFine, Zenon DEF Next
<1> QED BY <1>1, <1>2, Zenon

(* What the invariant says of a request. *)
LEMMA SeenSound ==
  ASSUME IInv, NEW t \in Task, Seen(t)
  PROVE  Sound(req[t], injectors, switch)
<1>1. NoRequest.pc = "idle"
  BY DEF NoRequest
<1> QED BY <1>1, Zenon DEF IInv, Fine, Sound, Seen

-----------------------------------------------------------------------------

(* Whatever the configurations, the injectors stay within the list, the    *)
(* bytes they overwrite within the data, and the errors they return within *)
(* those configured.                                                       *)
THEOREM TypeCorrect == Spec => []TypeOK
<1>1. IInv => TypeOK
  <2> SUFFICES ASSUME IInv PROVE TypeOK
    BY Zenon
  <2>1. ASSUME NEW t \in Task, Seen(t)
        PROVE  /\ req[t].pc \in {"next", "guard", "done"}
               /\ req[t].damaged \subseteq 0..(req[t].len - 1)
               /\ req[t].fault # 0 =>
                    \E i \in req[t].acted : i.conf.type = "fault" /\ req[t].fault \in DOMAIN i.conf.weights
    BY <2>1, SeenSound, Zenon DEF Sound, Where, Faults, Listed, Damage, Confined
  <2>2. ASSUME NEW t \in Task, Seen(t) PROVE req[t].turn \in 1..(Len(req[t].under) + 1)
    <3>1. Where(req[t], injectors, switch)
      BY <2>2, SeenSound, Zenon DEF Sound
    <3>2. CASE req[t].pc = "guard"
      BY <3>1, <3>2, Zenon DEF Where
    <3>3. CASE req[t].pc # "guard"
      <4>1. req[t].under = <<>> /\ req[t].turn = 1
        BY <3>1, <3>3, Zenon DEF Where
      <4> QED BY <4>1
    <3> QED BY <3>2, <3>3, Zenon
  <2> QED BY <2>1, <2>2, Zenon DEF TypeOK, IInv
<1> QED BY <1>1, InitInv, StepInv, PTL DEF Spec

(* The list of injectors does not change under a request that goes through *)
(* it, however long a latency keeps it there.                              *)
THEOREM ListStays == Spec => []OneList
<1>1. IInv => OneList
  <2> SUFFICES ASSUME IInv, NEW t \in Task, req[t].pc = "guard" PROVE injectors = req[t].under
    BY Zenon DEF OneList
  <2> QED BY Going, Zenon DEF Sound, Where
<1> QED BY <1>1, InitInv, StepInv, PTL DEF Spec

(* With the switch off, nothing is injected but into data to be written. *)
THEOREM QuietWhenOff == Spec => []OffQuiet
<1>1. IInv => OffQuiet
  BY SeenSound, Zenon DEF OffQuiet, Sound, Quiet
<1> QED BY <1>1, InitInv, StepInv, PTL DEF Spec

(* An error is injected before the file system is touched. *)
THEOREM FaultsComeFirst == Spec => []FaultFirst
<1>1. IInv => FaultFirst
  BY SeenSound, Zenon DEF FaultFirst, Sound, Faults, Listed
<1> QED BY <1>1, InitInv, StepInv, PTL DEF Spec

(* An injector acts on the methods and paths of its configuration, never   *)
(* with percent 0, always with percent 100.                                *)
THEOREM InjectorsActAsAsked == Spec => []ActsAsAsked
<1>1. IInv => ActsAsAsked
  BY SeenSound, Zenon DEF ActsAsAsked, Sound, Asked
<1> QED BY <1>1, InitInv, StepInv, PTL DEF Spec

(* For weights of any number and size that do not overflow an i32, each    *)
(* error is returned for as many of the attempts as its weight.            *)
THEOREM WeightsAreExact == Spec => []WeightsExact
<1>1. IInv => WeightsExact
  <2> SUFFICES ASSUME IInv, NEW i \in DOMAIN injectors, NEW c, c = injectors[i], c.type = "fault",
                      \A j \in DOMAIN c.weights : c.weights[j] >= 0, Sum(c.weights) < Limit,
                      NEW j \in DOMAIN c.weights
               PROVE  Cardinality({a \in Attempts(c.weights) : Pick(c.weights, a) = j}) = c.weights[j]
    BY Zenon DEF WeightsExact
  <2> PICK w : w = c.weights
    BY Zenon
  <2>1. w \in Seq(Int)
    BY InjectorsAssumption, Zenon DEF IInv, IsConf
  <2>2. {a \in Attempts(w) : Pick(w, a) = j} = Sums(w)[j - 1]..(Sums(w)[j] - 1)
    BY <2>1, PickExact, Zenon
  <2>3. Sums(w) \in [0..Len(w) -> Int] /\ Sums(w)[j] = Sums(w)[j - 1] + w[j] /\ j \in 1..Len(w) /\ Len(w) \in Nat
    <3>1. j \in 1..Len(w) /\ Len(w) \in Nat
      BY <2>1
    <3> QED BY <2>1, <3>1, SumsAdd, Zenon DEF Adds
  <2>4. j - 1 \in 0..Len(w) /\ w[j] \in Int /\ w[j] >= 0
    BY <2>1, <2>3
  <2> PICK p : p = Sums(w)[j - 1]
    BY Zenon
  <2>5. p \in Int /\ Sums(w)[j] = p + w[j] /\ (p + w[j]) - 1 \in Int
    BY <2>3, <2>4
  <2>6. Cardinality(p..((p + w[j]) - 1)) = IF p > (p + w[j]) - 1 THEN 0 ELSE (((p + w[j]) - 1) - p) + 1
    BY <2>5, FS_Interval, Zenon
  <2>7. Cardinality(p..((p + w[j]) - 1)) = w[j]
    BY <2>4, <2>5, <2>6
  <2> QED BY <2>2, <2>5, <2>7, Zenon
<1> QED BY <1>1, InitInv, StepInv, PTL DEF Spec

(* Mistakes overwrite no more than the occurrences and lengths of all the  *)
(* injectors that acted allow, and something if there is anything.         *)
THEOREM MistakesConfined == Spec => []MistakeConfined
<1>1. IInv => MistakeConfined
  <2> SUFFICES ASSUME IInv, NEW t \in Task, Seen(t)
               PROVE  /\ Cardinality(req[t].damaged) <= Allowance(req[t])
                      /\ req[t].len > 0 /\ Allowance(req[t]) > 0 => req[t].damaged # {}
    BY Zenon DEF MistakeConfined
  <2>1. Confined(req[t].damaged, Allowed(req[t].acted), req[t].len)
    BY SeenSound, Zenon DEF Sound, Damage
  <2>2. Allowance(req[t]) = Cardinality(Allowed(req[t].acted))
    BY Zenon DEF Allowance, Allowed, Budget
  <2>3. Allowed(req[t].acted) = {} => Cardinality(Allowed(req[t].acted)) = 0
    BY FS_EmptySet, Zenon
  <2>4. Allowance(req[t]) > 0 => Allowed(req[t].acted) # {}
    BY <2>2, <2>3
  <2> QED BY <2>1, <2>2, <2>4, Zenon DEF Confined
<1> QED BY <1>1, InitInv, StepInv, PTL DEF Spec
=============================================================================
