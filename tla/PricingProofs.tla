---------------------------- MODULE PricingProofs ----------------------------
(***************************************************************************)
(* For any carts, fees, taxes, width of the integers and number of calls:  *)
(* what Calculate answers adds up, if no product leaves the range, and its *)
(* shipping fee is in force.                                               *)
(*                                                                         *)
(* Carts have any length.  What holds of the sum of any sequence is proved *)
(* from the least length for which it would not: a set of numbers has a    *)
(* least element.                                                          *)
(***************************************************************************)
EXTENDS Pricing, FiniteSetTheorems, SequenceTheorems, WellFoundedInduction, TLAPS

-----------------------------------------------------------------------------
(* Induction, as far as it is needed: a set of numbers has a least element.  *)

LEMMA NatOrder == \E smaller : /\ IsWellFoundedOn(smaller, Nat)
                              /\ \A m, n \in Nat : n < m => <<n, m>> \in smaller
<1>1. \A m, n \in Nat : n < m => <<n, m>> \in OpToRel(<, Nat)
  BY DEF OpToRel
<1> QED
  BY <1>1, NatLessThanWellFounded, Zenon

LEMMA Least == ASSUME NEW T \in SUBSET Nat, T # {} PROVE \E m \in T : \A n \in T : m <= n
<1>1. PICK smaller : /\ IsWellFoundedOn(smaller, Nat)
                     /\ \A m, n \in Nat : n < m => <<n, m>> \in smaller
  BY NatOrder
<1>2. PICK m \in T : \A n \in T : ~ (<<n, m>> \in smaller)
  BY <1>1, WFMin
<1>3. \A n \in T : n \in Nat /\ m \in Nat /\ ~(n < m)
  BY <1>1, <1>2
<1> QED
  BY <1>3

LEMMA UpTo ==
    ASSUME NEW n \in Nat, NEW P, 0 \in P, \A k \in 0..n-1 : k \in P => k + 1 \in P
    PROVE  \A k \in 0..n : k \in P
<1> DEFINE Bad == {k \in 0..n : k \notin P}
<1>1. SUFFICES ASSUME Bad # {} PROVE FALSE
  OBVIOUS
<1>2. Bad \in SUBSET Nat
  OBVIOUS
<1>3. PICK m \in Bad : \A k \in Bad : m <= k
  BY <1>1, <1>2, Least
<1>4. m \in 0..n /\ m \notin P /\ m # 0
  BY <1>3
<1>5. m - 1 \in 0..n-1 /\ m - 1 \notin Bad /\ m - 1 + 1 = m
  BY <1>3, <1>4
<1> QED
  BY <1>4, <1>5

-----------------------------------------------------------------------------
(* Sums.                                                                     *)

\* Sequences as functions.
LEMMA SeqFacts ==
    ASSUME NEW S, NEW n \in Nat, NEW a \in [1..n -> S]
    PROVE  a \in Seq(S) /\ Len(a) = n /\ DOMAIN a = 1..n /\ Tuple(a) = a
<1>1. a \in Seq(S)
  BY IsASeq
<1>2. DOMAIN a = 1..n /\ Len(a) = n
  BY <1>1, LenProperties
<1>3. Tuple(a) = a
  BY <1>1, ConcatEmptySeq DEF Tuple
<1> QED
  BY <1>1, <1>2, <1>3

\* Sums of the first amounts, one more at a time.
Accumulates(g, n, a) == g[0] = 0 /\ \A k \in 1..n : g[k] = g[k - 1] + a[k]

LEMMA SumsExist ==
    ASSUME NEW n \in Nat, NEW a \in [1..n -> Int]
    PROVE  \E g \in [0..n -> Int] : Accumulates(g, n, a)
<1> DEFINE P == {k \in Nat : k <= n => \E g \in [0..k -> Int] : Accumulates(g, k, a)}
<1>1. 0 \in P
  <2>1. [k \in 0..0 |-> 0] \in [0..0 -> Int]
    OBVIOUS
  <2>2. Accumulates([k \in 0..0 |-> 0], 0, a)
    BY DEF Accumulates
  <2> QED
    BY <2>1, <2>2
<1>2. ASSUME NEW k \in 0..n-1, k \in P PROVE k + 1 \in P
  <2>1. PICK g \in [0..k -> Int] : Accumulates(g, k, a)
    BY <1>2
  <2> DEFINE h == [j \in 0..k+1 |-> IF j <= k THEN g[j] ELSE g[k] + a[k + 1]]
  <2>2. h \in [0..k+1 -> Int]
    <3>1. a[k + 1] \in Int /\ g[k] \in Int
      OBVIOUS
    <3> QED
      BY <3>1
  <2>3. Accumulates(h, k + 1, a)
    <3>1. h[0] = 0
      BY <2>1 DEF Accumulates
    <3>2. ASSUME NEW j \in 1..k+1 PROVE h[j] = h[j - 1] + a[j]
      <4>1. CASE j <= k
        <5>1. j \in 1..k /\ j \in 0..k+1 /\ j - 1 \in 0..k+1 /\ j - 1 <= k
          BY <4>1
        <5> QED
          BY <2>1, <4>1, <5>1 DEF Accumulates
      <4>2. CASE j = k + 1
        BY <4>2
      <4> QED
        BY <4>1, <4>2
    <3> QED
      BY <3>1, <3>2 DEF Accumulates
  <2> HIDE DEF h
  <2>4. k + 1 \in Nat
    OBVIOUS
  <2> QED
    BY <2>2, <2>3, <2>4
<1> HIDE DEF P
<1>3. \A k \in 0..n : k \in P
  BY <1>1, <1>2, UpTo
<1>4. n \in P
  BY <1>3
<1> QED
  BY <1>4 DEF P

LEMMA SumsUnique ==
    ASSUME NEW n \in Nat, NEW a, NEW g, NEW h, Accumulates(g, n, a), Accumulates(h, n, a)
    PROVE  \A k \in 0..n : g[k] = h[k]
<1> DEFINE P == {k \in Nat : k <= n => g[k] = h[k]}
<1>1. 0 \in P
  BY DEF Accumulates
<1>2. ASSUME NEW k \in 0..n-1, k \in P PROVE k + 1 \in P
  <2>1. k + 1 \in 1..n /\ k + 1 - 1 = k
    OBVIOUS
  <2> QED
    BY <1>2, <2>1 DEF Accumulates
<1> HIDE DEF P
<1>3. \A k \in 0..n : k \in P
  BY <1>1, <1>2, UpTo
<1> QED
  BY <1>3 DEF P

LEMMA PartialSumsFacts ==
    ASSUME NEW n \in Nat, NEW a \in [1..n -> Int]
    PROVE  /\ PartialSums(a) \in [0..n -> Int] /\ Accumulates(PartialSums(a), n, a)
           /\ SumOf(a) = PartialSums(a)[n] /\ SumOf(a) \in Int
<1> DEFINE body(g) == [k \in 0..n |-> IF k = 0 THEN 0 ELSE g[k - 1] + a[k]]
<1>1. Len(a) = n
  BY SeqFacts
<1>2. PICK g \in [0..n -> Int] : Accumulates(g, n, a)
  BY SumsExist
<1>3. g = body(g)
  <2>1. \A k \in 0..n : g[k] = IF k = 0 THEN 0 ELSE g[k - 1] + a[k]
    BY <1>2 DEF Accumulates
  <2> QED
    BY <2>1
<1>4. PartialSums(a) = CHOOSE h : h = body(h)
  BY <1>1 DEF PartialSums
<1>5. PartialSums(a) = body(PartialSums(a))
  BY <1>3, <1>4
<1>6. Accumulates(PartialSums(a), n, a)
  <2> DEFINE h == PartialSums(a)
  <2>1. h[0] = 0 /\ \A k \in 1..n : h[k] = h[k - 1] + a[k]
    BY <1>5
  <2> QED
    BY <2>1 DEF Accumulates
<1>7. \A k \in 0..n : PartialSums(a)[k] = g[k]
  BY <1>2, <1>6, SumsUnique
<1>8. PartialSums(a) \in [0..n -> Int]
  BY <1>5, <1>7
<1> QED
  BY <1>1, <1>6, <1>8 DEF SumOf

\* What accumulates the amounts has their sum in the end.
LEMMA SumIs ==
    ASSUME NEW n \in Nat, NEW a \in [1..n -> Int], NEW g, Accumulates(g, n, a)
    PROVE  SumOf(a) = g[n]
BY PartialSumsFacts, SumsUnique

\* The sum of sums, of multiples, of larger amounts.
LEMMA SumAdds ==
    ASSUME NEW n \in Nat, NEW a \in [1..n -> Int], NEW b \in [1..n -> Int], NEW c \in [1..n -> Int],
           \A i \in 1..n : c[i] = a[i] + b[i]
    PROVE  SumOf(c) = SumOf(a) + SumOf(b)
<1> DEFINE A == PartialSums(a)
           B == PartialSums(b)
           g == [k \in 0..n |-> A[k] + B[k]]
<1>1. /\ A \in [0..n -> Int] /\ A[0] = 0 /\ SumOf(a) = A[n]
      /\ B \in [0..n -> Int] /\ B[0] = 0 /\ SumOf(b) = B[n]
      /\ \A k \in 1..n : A[k] = A[k - 1] + a[k] /\ B[k] = B[k - 1] + b[k]
  BY PartialSumsFacts DEF Accumulates
<1> HIDE DEF A, B
<1>2. \A k \in 1..n : g[k] = g[k - 1] + c[k]
  <2> TAKE k \in 1..n
  <2>1. k \in 0..n /\ k - 1 \in 0..n
    OBVIOUS
  <2>2. /\ A[k] = A[k - 1] + a[k] /\ B[k] = B[k - 1] + b[k] /\ c[k] = a[k] + b[k]
        /\ A[k - 1] \in Int /\ B[k - 1] \in Int /\ a[k] \in Int /\ b[k] \in Int
    BY <1>1, <2>1
  <2>3. g[k] = A[k] + B[k] /\ g[k - 1] = A[k - 1] + B[k - 1]
    BY <2>1
  <2> QED
    BY <2>2, <2>3
<1>3. Accumulates(g, n, c)
  BY <1>1, <1>2 DEF Accumulates
<1>4. SumOf(c) = g[n]
  BY <1>3, SumIs
<1> QED
  BY <1>1, <1>4

LEMMA SumScaled ==
    ASSUME NEW n \in Nat, NEW a \in [1..n -> Int], NEW t \in Int, NEW b \in [1..n -> Int],
           \A i \in 1..n : b[i] = t * a[i]
    PROVE  SumOf(b) = t * SumOf(a)
<1> DEFINE A == PartialSums(a)
           g == [k \in 0..n |-> t * A[k]]
<1>1. /\ A \in [0..n -> Int] /\ A[0] = 0 /\ SumOf(a) = A[n]
      /\ \A k \in 1..n : A[k] = A[k - 1] + a[k]
  BY PartialSumsFacts DEF Accumulates
<1> HIDE DEF A
<1>2. \A k \in 1..n : g[k] = g[k - 1] + b[k]
  <2> TAKE k \in 1..n
  <2>1. k \in 0..n /\ k - 1 \in 0..n
    OBVIOUS
  <2>2. A[k] = A[k - 1] + a[k] /\ b[k] = t * a[k] /\ A[k - 1] \in Int /\ a[k] \in Int
    BY <1>1, <2>1
  <2>3. g[k] = t * A[k] /\ g[k - 1] = t * A[k - 1]
    BY <2>1
  <2>4. \A x, y \in Int : t * (x + y) = t * x + t * y
    OBVIOUS
  <2> QED
    BY <2>2, <2>3, <2>4
<1>3. Accumulates(g, n, b)
  BY <1>1, <1>2 DEF Accumulates
<1>4. SumOf(b) = g[n]
  BY <1>3, SumIs
<1> QED
  BY <1>1, <1>4

\* Amounts of which none is negative: each is part of the sum.
LEMMA SumOfParts ==
    ASSUME NEW n \in Nat, NEW a \in [1..n -> Nat]
    PROVE  SumOf(a) \in Nat /\ \A i \in 1..n : a[i] <= SumOf(a)
<1> DEFINE A == PartialSums(a)
           P == {k \in 0..n : A[k] \in Nat /\ \A i \in 1..k : a[i] <= A[k]}
<1>1. a \in [1..n -> Int]
  OBVIOUS
<1>2. /\ A \in [0..n -> Int] /\ A[0] = 0 /\ SumOf(a) = A[n]
      /\ \A k \in 1..n : A[k] = A[k - 1] + a[k]
  BY <1>1, PartialSumsFacts DEF Accumulates
<1> HIDE DEF A
<1>3. 0 \in P
  BY <1>2
<1>4. ASSUME NEW k \in 0..n-1, k \in P PROVE k + 1 \in P
  <2>1. k + 1 \in 1..n /\ k + 1 - 1 = k
    OBVIOUS
  <2>2. A[k + 1] = A[k] + a[k + 1] /\ A[k] \in Nat /\ a[k + 1] \in Nat
    BY <1>2, <1>4, <2>1
  <2>3. ASSUME NEW i \in 1..k+1 PROVE a[i] <= A[k + 1]
    <3>1. CASE i = k + 1
      BY <2>2, <3>1
    <3>2. CASE i \in 1..k
      <4>1. a[i] <= A[k] /\ a[i] \in Nat
        BY <1>4, <3>2
      <4> QED
        BY <2>2, <4>1
    <3> QED
      BY <3>1, <3>2
  <2> QED
    BY <2>1, <2>2, <2>3
<1> HIDE DEF P
<1>5. \A k \in 0..n : k \in P
  BY <1>3, <1>4, UpTo
<1>6. n \in P
  BY <1>5
<1> QED
  BY <1>2, <1>6 DEF P

LEMMA SumGrows ==
    ASSUME NEW n \in Nat, NEW a \in [1..n -> Int], NEW b \in [1..n -> Int],
           \A i \in 1..n : a[i] <= b[i]
    PROVE  SumOf(a) <= SumOf(b)
<1> DEFINE d == [i \in 1..n |-> b[i] - a[i]]
<1>1. d \in [1..n -> Nat] /\ d \in [1..n -> Int]
  <2>1. \A i \in 1..n : a[i] \in Int /\ b[i] \in Int /\ a[i] <= b[i]
    OBVIOUS
  <2> QED
    BY <2>1
<1>2. \A i \in 1..n : b[i] = a[i] + d[i]
  <2>1. \A i \in 1..n : a[i] \in Int /\ b[i] \in Int
    OBVIOUS
  <2> QED
    BY <2>1
<1> HIDE DEF d
<1>3. SumOf(b) = SumOf(a) + SumOf(d)
  BY <1>1, <1>2, SumAdds
<1>4. SumOf(d) \in Nat
  BY <1>1, SumOfParts
<1>5. SumOf(a) \in Int
  BY PartialSumsFacts
<1> QED
  BY <1>3, <1>4, <1>5

\* As many units as there are items that get one.
LEMMA SumOfUnits ==
    ASSUME NEW n \in Nat, NEW T \in SUBSET (1..n), NEW a \in [1..n -> Int],
           \A i \in 1..n : a[i] = IF i \in T THEN 1 ELSE 0
    PROVE  SumOf(a) = Cardinality(T)
<1> DEFINE g == [k \in 0..n |-> Cardinality(T \cap 1..k)]
<1>1. g[0] = 0
  <2>1. T \cap 1..0 = {}
    OBVIOUS
  <2> QED
    BY <2>1, FS_EmptySet
<1>2. ASSUME NEW k \in 1..n PROVE g[k] = g[k - 1] + a[k]
  <2>1. k \in 0..n /\ k - 1 \in 0..n
    OBVIOUS
  <2>2. g[k] = Cardinality(T \cap 1..k) /\ g[k - 1] = Cardinality(T \cap 1..k-1)
    BY <2>1
  <2>3. IsFiniteSet(1..k-1) /\ T \cap 1..k-1 \in SUBSET (1..k-1)
    BY FS_Interval
  <2>4. IsFiniteSet(T \cap 1..k-1) /\ Cardinality(T \cap 1..k-1) \in Nat
    BY <2>3, FS_Subset, FS_CardinalityType
  <2>5. CASE k \in T
    <3>1. T \cap 1..k = (T \cap 1..k-1) \cup {k} /\ k \notin T \cap 1..k-1
      BY <2>5
    <3> QED
      BY <2>2, <2>4, <2>5, <3>1, FS_AddElement
  <2>6. CASE k \notin T
    <3>1. T \cap 1..k = T \cap 1..k-1
      BY <2>6
    <3> QED
      BY <2>2, <2>4, <2>6, <3>1
  <2> QED
    BY <2>5, <2>6
<1>3. Accumulates(g, n, a)
  BY <1>1, <1>2 DEF Accumulates
<1>4. SumOf(a) = g[n]
  BY <1>3, SumIs
<1>5. T \cap 1..n = T
  BY Zenon
<1>6. g[n] = Cardinality(T \cap 1..n)
  OBVIOUS
<1> QED
  BY <1>4, <1>5, <1>6

-----------------------------------------------------------------------------
(* The largest remainders.                                                   *)

\* Who comes before item i when units are handed out.
Before(rest, j, i) == rest[j] > rest[i] \/ (rest[j] = rest[i] /\ j < i)
Ahead(rest, i) == {j \in DOMAIN rest : Before(rest, j, i)}

\* No two items have the same number of others before them.
LEMMA RankFacts ==
    ASSUME NEW n \in Nat, NEW rest \in [1..n -> Int]
    PROVE  /\ \A i \in 1..n : /\ Ahead(rest, i) \in SUBSET (1..n) /\ IsFiniteSet(Ahead(rest, i))
                              /\ Cardinality(Ahead(rest, i)) \in 0..n-1
           /\ \A i, j \in 1..n : i # j => Cardinality(Ahead(rest, i)) # Cardinality(Ahead(rest, j))
<1>1. IsFiniteSet(1..n) /\ Cardinality(1..n) = n
  BY FS_Interval
<1>2. ASSUME NEW i \in 1..n
      PROVE  /\ Ahead(rest, i) \in SUBSET (1..n) /\ IsFiniteSet(Ahead(rest, i))
             /\ Cardinality(Ahead(rest, i)) \in 0..n-1
  <2>1. Ahead(rest, i) \in SUBSET (1..n)
    BY DEF Ahead
  <2>2. i \notin Ahead(rest, i)
    <3>1. rest[i] \in Int
      OBVIOUS
    <3> QED
      BY <3>1 DEF Ahead, Before
  <2>3. /\ IsFiniteSet(Ahead(rest, i)) /\ Cardinality(Ahead(rest, i)) <= n
        /\ Cardinality(Ahead(rest, i)) = n => Ahead(rest, i) = 1..n
    BY <1>1, <2>1, FS_Subset
  <2>4. Cardinality(Ahead(rest, i)) \in Nat
    BY <2>3, FS_CardinalityType
  <2> QED
    BY <2>1, <2>2, <2>3, <2>4
<1>3. ASSUME NEW i \in 1..n, NEW j \in 1..n, Before(rest, i, j)
      PROVE  Cardinality(Ahead(rest, i)) < Cardinality(Ahead(rest, j))
  <2>1. Ahead(rest, i) \in SUBSET Ahead(rest, j)
    <3> SUFFICES ASSUME NEW k \in Ahead(rest, i) PROVE k \in Ahead(rest, j)
      OBVIOUS
    <3>1. k \in 1..n /\ Before(rest, k, i)
      BY DEF Ahead
    <3>2. rest[i] \in Int /\ rest[j] \in Int /\ rest[k] \in Int
      BY <3>1
    <3>3. Before(rest, k, j)
      BY <1>3, <3>1, <3>2 DEF Before
    <3> QED
      BY <3>1, <3>3 DEF Ahead
  <2>2. i \in Ahead(rest, j)
    BY <1>3 DEF Ahead
  <2>3. i \notin Ahead(rest, i)
    <3>1. rest[i] \in Int
      OBVIOUS
    <3> QED
      BY <3>1 DEF Ahead, Before
  <2>4. /\ IsFiniteSet(Ahead(rest, j)) /\ Cardinality(Ahead(rest, j)) \in 0..n-1
        /\ Cardinality(Ahead(rest, i)) \in 0..n-1
    BY <1>2
  <2>5. /\ Cardinality(Ahead(rest, i)) <= Cardinality(Ahead(rest, j))
        /\ Cardinality(Ahead(rest, i)) = Cardinality(Ahead(rest, j)) => Ahead(rest, i) = Ahead(rest, j)
    BY <2>1, <2>4, FS_Subset
  <2> QED
    BY <2>2, <2>3, <2>4, <2>5
<1>4. ASSUME NEW i \in 1..n, NEW j \in 1..n, i # j
      PROVE  Cardinality(Ahead(rest, i)) # Cardinality(Ahead(rest, j))
  <2>1. rest[i] \in Int /\ rest[j] \in Int
    OBVIOUS
  <2>2. Before(rest, i, j) \/ Before(rest, j, i)
    BY <1>4, <2>1 DEF Before
  <2>3. Cardinality(Ahead(rest, i)) \in 0..n-1 /\ Cardinality(Ahead(rest, j)) \in 0..n-1
    BY <1>2
  <2> QED
    BY <1>3, <2>2, <2>3
<1> QED
  BY <1>2, <1>4

\* The items are ranked without a gap: as many are among the first k as there are places.
LEMMA FirstInRank ==
    ASSUME NEW n \in Nat, NEW rest \in [1..n -> Int], NEW k \in 0..n
    PROVE  Cardinality({i \in 1..n : Cardinality(Ahead(rest, i)) < k}) = k
<1> DEFINE rank == [i \in 1..n |-> Cardinality(Ahead(rest, i))]
           First == {i \in 1..n : Cardinality(Ahead(rest, i)) < k}
           top == [i \in First |-> rank[i]]
<1>1. rank \in [1..n -> 0..n-1] /\ \A i, j \in 1..n : rank[i] = rank[j] => i = j
  BY RankFacts
<1>2. rank \in Injection(1..n, 0..n-1)
  BY <1>1 DEF Injection, IsInjective
<1>3. /\ IsFiniteSet(1..n) /\ Cardinality(1..n) = n
      /\ IsFiniteSet(0..n-1) /\ Cardinality(0..n-1) = n
      /\ IsFiniteSet(0..k-1) /\ Cardinality(0..k-1) = k
  BY FS_Interval
<1>4. rank \in Surjection(1..n, 0..n-1)
  BY <1>2, <1>3, FS_Injection
<1>5. \A r \in 0..n-1 : \E i \in 1..n : rank[i] = r
  BY <1>4 DEF Surjection
<1>6. top \in [First -> 0..k-1]
  <2>1. \A i \in First : rank[i] \in 0..n-1 /\ rank[i] < k
    BY <1>1
  <2>2. \A i \in First : rank[i] \in 0..k-1
    BY <2>1
  <2> QED
    BY <2>2
<1>7. top \in Injection(First, 0..k-1)
  <2>1. \A i, j \in First : top[i] = top[j] => i = j
    BY <1>1
  <2> QED
    BY <1>6, <2>1 DEF Injection, IsInjective
<1>8. \A r \in 0..k-1 : \E i \in First : top[i] = r
  <2> TAKE r \in 0..k-1
  <2>1. r \in 0..n-1
    OBVIOUS
  <2>2. PICK i \in 1..n : rank[i] = r
    BY <1>5, <2>1
  <2>3. Cardinality(Ahead(rest, i)) = r /\ r < k
    BY <2>2
  <2>4. i \in First
    BY <2>3
  <2> QED
    BY <2>2, <2>4
<1> HIDE DEF First, top
<1>9. top \in Surjection(First, 0..k-1)
  BY <1>6, <1>8 DEF Surjection
<1>10. IsFiniteSet(First) /\ Cardinality(First) = Cardinality(0..k-1)
  BY <1>3, <1>7, <1>9, FS_Injection
<1> QED
  BY <1>3, <1>10 DEF First

-----------------------------------------------------------------------------
(* The arithmetic of int64.                                                  *)

\* What is in the range stays what it is.
LEMMA WrapNone ==
    ASSUME NEW n \in Int, -MaxInt - 1 <= n, n <= MaxInt
    PROVE  Wrap(n) = n
<1>1. MaxInt \in Nat
  BY PricingAssumption
<1>2. ASSUME NEW m \in Nat, NEW x \in 0..m-1 PROVE x % m = x
  BY <1>2
<1> DEFINE m == 2 * (MaxInt + 1)
           x == n + MaxInt + 1
<1>3. m \in Nat /\ x \in 0..m-1
  BY <1>1
<1>4. x % m = x
  BY <1>2, <1>3
<1>5. Wrap(n) = (x % m) - MaxInt - 1
  BY DEF Wrap
<1> QED
  BY <1>1, <1>4, <1>5

LEMMA WholePart ==
    ASSUME NEW a \in Nat, NEW b \in Nat \ {0}
    PROVE  /\ Quotient(a, b) = a \div b /\ a \div b \in Nat
           /\ (a \div b) * b <= a /\ a < (a \div b) * b + b
<1>1. /\ a \div b \in Int
      /\ (a \div b) * b <= a /\ a < (a \div b) * b + b
  OBVIOUS
<1>2. a \div b >= 0
  <2>1. SUFFICES ASSUME a \div b <= -1 PROVE FALSE
    BY <1>1
  <2> QED
    BY <1>1, <2>1
<1>3. Quotient(a, b) = a \div b
  BY DEF Quotient
<1> QED
  BY <1>1, <1>2, <1>3

LEMMA Cancels ==
    ASSUME NEW a \in Int, NEW b \in Int, NEW t \in Nat \ {0}, a * t <= b * t
    PROVE  a <= b
<1>1. SUFFICES ASSUME b < a PROVE FALSE
  OBVIOUS
<1>2. \A x \in Nat : x # 0 => x * t > 0
  OBVIOUS
<1>3. (a - b) * t > 0
  BY <1>1, <1>2
<1>4. (a - b) * t = a * t - b * t
  OBVIOUS
<1> QED
  BY <1>3, <1>4

-----------------------------------------------------------------------------
(* Allocations.                                                              *)

\* The units that are left are all handed out.
LEMMA HandsOut ==
    ASSUME NEW n \in Nat, NEW share \in [1..n -> Int], NEW rest \in [1..n -> Int], NEW left \in 0..n
    PROVE  /\ HandOut(left, share, rest) \in [1..n -> Int]
           /\ \A i \in 1..n : HandOut(left, share, rest)[i] =
                 share[i] + (IF Cardinality(Ahead(rest, i)) < left THEN 1 ELSE 0)
           /\ SumOf(HandOut(left, share, rest)) = SumOf(share) + left
<1> DEFINE h == [i \in 1..n |-> IF Cardinality(Ahead(rest, i)) < left THEN share[i] + 1 ELSE share[i]]
           First == {i \in 1..n : Cardinality(Ahead(rest, i)) < left}
           unit == [i \in 1..n |-> IF i \in First THEN 1 ELSE 0]
<1>1. \A i \in 1..n : share[i] \in Int
  OBVIOUS
<1>2. h \in [1..n -> Int]
  BY <1>1
<1>3. HandOut(left, share, rest) = h
  <2>1. Tuple(h) = h
    BY <1>2, SeqFacts
  <2>2. HandOut(left, share, rest) = Tuple(h)
    BY DEF HandOut, Ahead, Before
  <2> QED
    BY <2>1, <2>2
<1>4. \A i \in 1..n : h[i] = share[i] + unit[i]
  BY <1>1
<1>5. \A i \in 1..n : h[i] = share[i] + (IF Cardinality(Ahead(rest, i)) < left THEN 1 ELSE 0)
  BY <1>1
<1>6. unit \in [1..n -> Int] /\ First \in SUBSET (1..n)
  OBVIOUS
<1>7. \A i \in 1..n : unit[i] = IF i \in First THEN 1 ELSE 0
  OBVIOUS
<1>8. Cardinality(First) = left
  BY FirstInRank
<1> HIDE DEF h, First, unit
<1>9. SumOf(h) = SumOf(share) + SumOf(unit)
  BY <1>2, <1>4, <1>6, SumAdds
<1>10. SumOf(unit) = left
  BY <1>6, <1>7, <1>8, SumOfUnits
<1> QED
  BY <1>2, <1>3, <1>5, <1>9, <1>10

\* What the whole parts leave is not more than there are remainders.
LEMMA FewLeft ==
    ASSUME NEW n \in Nat, NEW rest \in [1..n -> Nat], NEW t \in Nat \ {0}, NEW left \in Int,
           \A i \in 1..n : rest[i] < t, SumOf(rest) = left * t
    PROVE  left \in 0..n /\ \A i \in 1..n : rest[i] = 0 => left <= Cardinality(Ahead(rest, i))
<1> DEFINE Some == {i \in 1..n : rest[i] > 0}
           unit == [i \in 1..n |-> IF i \in Some THEN 1 ELSE 0]
           most == [i \in 1..n |-> IF i \in Some THEN t ELSE 0]
<1>1. \A i \in 1..n : rest[i] \in Nat
  OBVIOUS
<1>2. IsFiniteSet(1..n) /\ Cardinality(1..n) = n
  BY FS_Interval
<1>3. Some \in SUBSET (1..n)
  OBVIOUS
<1>4. IsFiniteSet(Some) /\ Cardinality(Some) <= n /\ Cardinality(Some) \in Nat
  BY <1>2, <1>3, FS_Subset, FS_CardinalityType
<1>5. unit \in [1..n -> Int] /\ most \in [1..n -> Int] /\ rest \in [1..n -> Int]
  OBVIOUS
<1>6. \A i \in 1..n : unit[i] = IF i \in Some THEN 1 ELSE 0
  OBVIOUS
<1>7. \A i \in 1..n : most[i] = t * unit[i]
  OBVIOUS
<1>8. \A i \in 1..n : rest[i] <= most[i]
  BY <1>1
<1>9. \A i \in 1..n : rest[i] = 0 => Some \in SUBSET Ahead(rest, i)
  <2> SUFFICES ASSUME NEW i \in 1..n, rest[i] = 0, NEW j \in Some PROVE j \in Ahead(rest, i)
    OBVIOUS
  <2> QED
    BY DEF Ahead, Before
<1> HIDE DEF Some, unit, most
<1>10. SumOf(rest) <= SumOf(most)
  BY <1>5, <1>8, SumGrows
<1>11. SumOf(most) = t * SumOf(unit)
  <2>1. t \in Int
    OBVIOUS
  <2> QED
    BY <1>5, <1>7, <2>1, SumScaled
<1>12. SumOf(unit) = Cardinality(Some)
  BY <1>3, <1>5, <1>6, SumOfUnits
<1>13. left * t <= Cardinality(Some) * t
  BY <1>4, <1>10, <1>11, <1>12
<1>14. left <= Cardinality(Some)
  <2>1. Cardinality(Some) \in Int
    BY <1>4
  <2> QED
    BY <1>13, <2>1, Cancels
<1>15. left >= 0
  <2>1. 0 * t <= left * t
    BY SumOfParts
  <2> QED
    BY <2>1, Cancels
<1>16. ASSUME NEW i \in 1..n, rest[i] = 0 PROVE left <= Cardinality(Ahead(rest, i))
  <2>1. IsFiniteSet(Ahead(rest, i)) /\ Some \in SUBSET Ahead(rest, i)
    BY <1>5, <1>9, <1>16, RankFacts
  <2>2. Cardinality(Some) <= Cardinality(Ahead(rest, i)) /\ Cardinality(Ahead(rest, i)) \in Nat
    BY <2>1, FS_Subset, FS_CardinalityType
  <2> QED
    BY <1>4, <1>14, <2>2
<1> QED
  BY <1>4, <1>14, <1>15, <1>16

\* Proportional shares are whole, make up the amount, differ from the exact ones by less than
\* a unit, and none of an amount that the weights cover exceeds its weight.
LEMMA ProportionalShares ==
    ASSUME NEW n \in Nat, NEW amount \in 0..MaxInt, NEW weight \in [1..n -> Nat],
           SumOf(weight) # 0, SumOf(weight) <= MaxInt,
           \A i \in 1..n : amount * weight[i] <= MaxInt
    PROVE  /\ Proportional(amount, weight, SumOf(weight)) \in [1..n -> Nat]
           /\ SumOf(Proportional(amount, weight, SumOf(weight))) = amount
           /\ InProportion(Proportional(amount, weight, SumOf(weight)), amount, weight)
           /\ amount <= SumOf(weight) =>
                 \A i \in 1..n : Proportional(amount, weight, SumOf(weight))[i] <= weight[i]
<1> DEFINE t == SumOf(weight)
           part == [i \in 1..n |-> amount * weight[i]]
           share == [i \in 1..n |-> part[i] \div t]
           rest == [i \in 1..n |-> part[i] - share[i] * t]
           left == amount - SumOf(share)
           handed == HandOut(left, share, rest)
<1>1. MaxInt \in Nat /\ amount \in Nat /\ weight \in [1..n -> Int] /\ DOMAIN weight = 1..n
  BY PricingAssumption
<1>2. t \in Nat \ {0} /\ t \in Int /\ t <= MaxInt
  BY SumOfParts
<1> HIDE DEF t
<1>3. ASSUME NEW i \in 1..n
      PROVE  /\ part[i] \in 0..MaxInt /\ share[i] \in Nat /\ rest[i] \in Nat /\ rest[i] < t
             /\ share[i] * t + rest[i] = part[i] /\ Quotient(Wrap(amount * weight[i]), t) = share[i]
             /\ Wrap(amount * weight[i]) - share[i] * t = rest[i]
  <2>1. weight[i] \in Nat /\ amount * weight[i] \in Nat /\ amount * weight[i] <= MaxInt
    BY <1>1
  <2>2. part[i] = amount * weight[i] /\ part[i] \in 0..MaxInt /\ part[i] \in Nat
    BY <1>1, <2>1
  <2>3. Wrap(amount * weight[i]) = part[i]
    BY <1>1, <2>2, WrapNone
  <2>4. share[i] = part[i] \div t /\ rest[i] = part[i] - share[i] * t
    OBVIOUS
  <2>5. /\ Quotient(part[i], t) = share[i] /\ share[i] \in Nat
        /\ share[i] * t <= part[i] /\ part[i] < share[i] * t + t
    BY <1>2, <2>2, <2>4, WholePart
  <2>6. share[i] * t \in Int
    BY <1>2, <2>5
  <2> HIDE DEF part, share, rest
  <2>7. Wrap(amount * weight[i]) - share[i] * t = rest[i]
    BY <2>3, <2>4
  <2>8. Quotient(Wrap(amount * weight[i]), t) = share[i]
    BY <2>3, <2>5
  <2>9. rest[i] \in Nat /\ rest[i] < t /\ share[i] * t + rest[i] = part[i]
    <3>1. \A p, q \in Int : q <= p /\ p < q + t => p - q \in Nat /\ p - q < t /\ q + (p - q) = p
      BY <1>2
    <3>2. part[i] \in Int
      BY <2>2
    <3> QED
      BY <2>4, <2>5, <2>6, <3>1, <3>2
  <2> QED
    BY <2>2, <2>5, <2>7, <2>8, <2>9
<1>4. /\ part \in [1..n -> Nat] /\ share \in [1..n -> Nat] /\ rest \in [1..n -> Nat]
      /\ part \in [1..n -> Int] /\ share \in [1..n -> Int] /\ rest \in [1..n -> Int]
  <2>1. \A i \in 1..n : part[i] \in Nat /\ share[i] \in Nat /\ rest[i] \in Nat
    BY <1>3
  <2> QED
    BY <2>1
<1>5. /\ \A i \in 1..n : part[i] = amount * weight[i]
      /\ DOMAIN share = 1..n
  OBVIOUS
<1>6. Proportional(amount, weight, t) = HandOut(Wrap(amount - Total(share)), share, rest)
  <2>1. Tuple([i \in DOMAIN weight |-> Quotient(Wrap(amount * weight[i]), t)]) = share
    <3>1. [i \in DOMAIN weight |-> Quotient(Wrap(amount * weight[i]), t)] = share
      BY <1>1, <1>3
    <3> QED
      BY <1>4, <3>1, SeqFacts
  <2>2. Remainders(amount, weight, share, t) = rest
    <3>1. [i \in DOMAIN weight |-> Wrap(amount * weight[i]) - share[i] * t] = rest
      BY <1>1, <1>3
    <3>2. Remainders(amount, weight, share, t) = Tuple(rest)
      BY <3>1 DEF Remainders
    <3> QED
      BY <1>4, <3>2, SeqFacts
  <2> HIDE DEF share, rest
  <2> QED
    BY <2>1, <2>2 DEF Proportional, Complete
<1> HIDE DEF part, share, rest
<1>7. SumOf(part) = amount * t /\ SumOf(share) \in Nat /\ SumOf(rest) = left * t
  <2>1. SumOf(part) = amount * t
    <3>1. amount \in Int
      BY <1>1
    <3>2. SumOf(part) = amount * SumOf(weight)
      BY <1>1, <1>4, <1>5, <3>1, SumScaled
    <3> QED
      BY <3>2 DEF t
  <2>2. SumOf(share) \in Nat
    BY <1>4, SumOfParts
  <2> DEFINE taken == [i \in 1..n |-> t * share[i]]
  <2>3. taken \in [1..n -> Int] /\ \A i \in 1..n : taken[i] = t * share[i]
    BY <1>2, <1>4
  <2>4. \A i \in 1..n : part[i] = taken[i] + rest[i]
    <3> TAKE i \in 1..n
    <3>1. share[i] \in Int /\ rest[i] \in Int /\ share[i] * t + rest[i] = part[i]
      BY <1>3, <1>4
    <3> QED
      BY <1>2, <2>3, <3>1
  <2> HIDE DEF taken
  <2>5. SumOf(taken) = t * SumOf(share)
    BY <1>2, <1>4, <2>3, SumScaled
  <2>6. SumOf(part) = SumOf(taken) + SumOf(rest)
    BY <1>4, <2>3, <2>4, SumAdds
  <2>7. SumOf(rest) \in Nat
    BY <1>4, SumOfParts
  <2>8. \A x, y \in Int : (x - y) * t = x * t - t * y
    BY <1>2
  <2>9. left * t = amount * t - t * SumOf(share)
    BY <1>1, <2>2, <2>8
  <2>10. amount * t \in Int /\ t * SumOf(share) \in Int
    BY <1>1, <1>2, <2>2
  <2> QED
    BY <2>1, <2>2, <2>5, <2>6, <2>7, <2>9, <2>10
<1>8. left \in 0..n /\ \A i \in 1..n : rest[i] = 0 => left <= Cardinality(Ahead(rest, i))
  <2>1. left \in Int /\ \A i \in 1..n : rest[i] < t
    BY <1>1, <1>3, <1>7
  <2> HIDE DEF left
  <2> QED
    BY <1>2, <1>4, <1>7, <2>1, FewLeft
<1>9. Wrap(amount - Total(share)) = left
  <2>1. SumOf(share) \in 0..MaxInt
    BY <1>1, <1>7, <1>8
  <2>2. Total(share) = SumOf(share)
    BY <1>1, <2>1, WrapNone DEF Total
  <2>3. left \in Int /\ -MaxInt - 1 <= left /\ left <= MaxInt
    BY <1>1, <2>1
  <2> QED
    BY <2>2, <2>3, WrapNone
<1>10. Proportional(amount, weight, t) = handed
  BY <1>6, <1>9
<1> DEFINE one(i) == IF Cardinality(Ahead(rest, i)) < left THEN 1 ELSE 0
<1>11. /\ handed \in [1..n -> Int] /\ SumOf(handed) = SumOf(share) + left
       /\ \A i \in 1..n : handed[i] = share[i] + one(i)
  <2> HIDE DEF left
  <2> QED
    BY <1>4, <1>8, HandsOut
<1> HIDE DEF handed
<1>12. handed \in [1..n -> Nat]
  <2>1. \A i \in 1..n : handed[i] \in Nat
    <3> TAKE i \in 1..n
    <3>1. share[i] \in Nat /\ one(i) \in Nat
      BY <1>4
    <3> HIDE DEF one
    <3> QED
      BY <1>11, <3>1
  <2> QED
    BY <1>11, <2>1
<1>13. SumOf(handed) = amount
  BY <1>1, <1>7, <1>11
<1>14. ASSUME NEW i \in 1..n, one(i) = 1 PROVE rest[i] # 0
  <2>1. left \in Int /\ Cardinality(Ahead(rest, i)) < left
    BY <1>8, <1>14
  <2>2. Cardinality(Ahead(rest, i)) \in 0..n-1
    BY <1>4, RankFacts
  <2>3. Cardinality(Ahead(rest, i)) \in Int
    BY <2>2
  <2> HIDE DEF left
  <2> QED
    BY <1>8, <2>1, <2>3
<1>15. ASSUME NEW i \in 1..n
       PROVE  /\ handed[i] * t - amount * weight[i] < t
              /\ amount * weight[i] - handed[i] * t < t
  <2>1. /\ share[i] \in Nat /\ rest[i] \in Nat /\ rest[i] < t
        /\ share[i] * t + rest[i] = amount * weight[i] /\ share[i] * t \in Nat
    BY <1>2, <1>3, <1>5
  <2>2. CASE one(i) = 0
    <3>1. handed[i] = share[i]
      BY <1>11, <2>1, <2>2
    <3>2. \A s, r \in Nat : r < t => s - (s + r) < t /\ (s + r) - s < t
      BY <1>2
    <3>3. /\ share[i] * t - (share[i] * t + rest[i]) < t
          /\ (share[i] * t + rest[i]) - share[i] * t < t
      BY <2>1, <3>2
    <3>4. handed[i] * t = share[i] * t
      BY <3>1
    <3> QED
      BY <2>1, <3>3, <3>4, Zenon
  <2>3. CASE one(i) = 1
    <3>1. handed[i] = share[i] + 1
      BY <1>11, <2>3
    <3>2. handed[i] * t = share[i] * t + t
      BY <1>2, <2>1, <3>1
    <3>3. rest[i] # 0
      BY <1>14, <2>3
    <3>4. \A s, r \in Nat : r # 0 /\ r < t => (s + t) - (s + r) < t /\ (s + r) - (s + t) < t
      BY <1>2
    <3>5. /\ (share[i] * t + t) - (share[i] * t + rest[i]) < t
          /\ (share[i] * t + rest[i]) - (share[i] * t + t) < t
      BY <2>1, <3>3, <3>4
    <3> QED
      BY <2>1, <3>2, <3>5
  <2> QED
    BY <2>2, <2>3
<1>16. InProportion(handed, amount, weight)
  BY <1>1, <1>2, <1>15 DEF InProportion, t
<1>17. ASSUME amount <= t, NEW i \in 1..n PROVE handed[i] <= weight[i]
  <2>1. /\ weight[i] \in Nat /\ share[i] \in Nat /\ rest[i] \in Nat
        /\ share[i] * t + rest[i] = amount * weight[i]
    BY <1>3, <1>4, <1>5
  <2>2. amount * weight[i] <= weight[i] * t
    <3>1. \A x, y, w \in Nat : x <= y => x * w <= w * y
      OBVIOUS
    <3> QED
      BY <1>1, <1>2, <1>17, <2>1, <3>1
  <2>3. share[i] * t \in Nat /\ weight[i] * t \in Nat
    <3>1. \A x, y \in Nat : x * y \in Nat
      OBVIOUS
    <3>2. t \in Nat /\ share[i] \in Nat /\ weight[i] \in Nat
      BY <1>2, <2>1
    <3> QED
      BY <3>1, <3>2, Zenon
  <2>4. CASE one(i) = 0
    <3>1. share[i] * t <= weight[i] * t
      BY <2>1, <2>2, <2>3
    <3>2. share[i] <= weight[i]
      BY <1>2, <2>1, <3>1, Cancels
    <3> QED
      BY <1>11, <2>1, <2>4, <3>2
  <2>5. CASE one(i) = 1
    <3>1. rest[i] # 0
      BY <1>14, <2>5
    <3>2. share[i] * t < weight[i] * t
      BY <2>1, <2>2, <2>3, <3>1
    <3>3. ~(weight[i] <= share[i])
      <4>1. \A x, y \in Nat : x <= y => x * t <= y * t
        BY <1>2
      <4> QED
        BY <2>1, <2>3, <3>2, <4>1
    <3> QED
      BY <1>11, <2>1, <2>5, <3>3
  <2> QED
    BY <2>4, <2>5
<1> QED
  BY <1>10, <1>12, <1>13, <1>16, <1>17 DEF t

\* So are even shares.
LEMMA EvenShares ==
    ASSUME NEW n \in Nat \ {0}, NEW amount \in 0..MaxInt
    PROVE  /\ Even(amount, n) \in [1..n -> Nat] /\ SumOf(Even(amount, n)) = amount
           /\ \A i \in 1..n : /\ Even(amount, n)[i] * n - amount < n
                             /\ amount - Even(amount, n)[i] * n < n
<1> DEFINE q == amount \div n
           zero == [i \in 1..n |-> 0]
           one == [i \in 1..n |-> 1]
           share == [i \in 1..n |-> q]
           left == amount - SumOf(share)
           handed == HandOut(left, share, zero)
<1>1. MaxInt \in Nat /\ amount \in Nat /\ n \in Nat /\ n \in Int
  BY PricingAssumption
<1>2. q \in Nat /\ q * n <= amount /\ amount < q * n + n /\ q \in Int
  BY <1>1, WholePart
<1> HIDE DEF q
<1>3. /\ zero \in [1..n -> Int] /\ share \in [1..n -> Int] /\ one \in [1..n -> Int]
      /\ DOMAIN zero = 1..n /\ DOMAIN share = 1..n
      /\ \A i \in 1..n : zero[i] = 0 /\ share[i] = q * one[i] /\ share[i] = q /\ one[i] = 1
  BY <1>2
<1>4. Tuple([i \in 1..n |-> amount \div n]) = share
  BY <1>1, <1>3, SeqFacts DEF q
<1>5. Remainders(amount, zero, share, 0) = zero
  <2>1. [i \in DOMAIN zero |-> Wrap(amount * zero[i]) - share[i] * 0] = zero
    <3>1. \A i \in 1..n : Wrap(amount * zero[i]) - share[i] * 0 = 0
      <4> TAKE i \in 1..n
      <4>1. amount * zero[i] = 0 /\ share[i] * 0 = 0
        BY <1>1, <1>2, <1>3
      <4>2. Wrap(0) = 0
        BY <1>1, WrapNone
      <4> QED
        BY <4>1, <4>2
    <3> QED
      BY <3>1
  <2> HIDE DEF zero, share
  <2>2. Remainders(amount, zero, share, 0) = Tuple(zero)
    BY <2>1 DEF Remainders
  <2> QED
    BY <1>1, <1>3, <2>2, SeqFacts
<1> HIDE DEF share
<1>6. Even(amount, n) = HandOut(Wrap(amount - Total(share)), share, zero)
  <2>1. Even(amount, n) = Complete(amount, zero, share, 0)
    BY <1>4 DEF Even
  <2> HIDE DEF zero
  <2> QED
    BY <1>5, <2>1 DEF Complete
<1> HIDE DEF zero, one
<1>7. SumOf(share) = q * n
  <2>1. SumOf(one) = Cardinality(1..n)
    <3>1. 1..n \in SUBSET (1..n) /\ \A i \in 1..n : one[i] = IF i \in 1..n THEN 1 ELSE 0
      BY <1>3
    <3> QED
      BY <1>1, <1>3, <3>1, SumOfUnits
  <2>2. Cardinality(1..n) = n
    BY <1>1, FS_Interval
  <2>3. SumOf(share) = q * SumOf(one)
    BY <1>1, <1>2, <1>3, SumScaled
  <2> QED
    BY <2>1, <2>2, <2>3
<1>8. SumOf(share) \in 0..MaxInt /\ left \in 0..n
  BY <1>1, <1>2, <1>7
<1>9. Wrap(amount - Total(share)) = left
  <2>1. Total(share) = SumOf(share)
    BY <1>1, <1>8, WrapNone DEF Total
  <2>2. left \in Int /\ -MaxInt - 1 <= left /\ left <= MaxInt
    BY <1>1, <1>8
  <2> QED
    BY <2>1, <2>2, WrapNone
<1>10. Even(amount, n) = handed
  BY <1>6, <1>9
<1> DEFINE more(i) == IF Cardinality(Ahead(zero, i)) < left THEN 1 ELSE 0
<1>11. /\ handed \in [1..n -> Int] /\ SumOf(handed) = SumOf(share) + left
       /\ \A i \in 1..n : handed[i] = share[i] + more(i)
  <2> HIDE DEF left
  <2>1. n \in Nat /\ share \in [1..n -> Int] /\ zero \in [1..n -> Int] /\ left \in 0..n
    BY <1>1, <1>3, <1>8
  <2>2. /\ HandOut(left, share, zero) \in [1..n -> Int]
        /\ \A i \in 1..n : HandOut(left, share, zero)[i] =
              share[i] + (IF Cardinality(Ahead(zero, i)) < left THEN 1 ELSE 0)
        /\ SumOf(HandOut(left, share, zero)) = SumOf(share) + left
    BY <2>1, HandsOut, Zenon
  <2> QED
    BY <2>2, Zenon
<1> HIDE DEF handed
<1>12. \A i \in 1..n : handed[i] \in Nat
  <2> TAKE i \in 1..n
  <2>1. share[i] \in Nat /\ more(i) \in Nat
    BY <1>2, <1>3
  <2> HIDE DEF more
  <2> QED
    BY <1>11, <2>1
<1>13. SumOf(handed) = amount
  BY <1>1, <1>8, <1>11
<1>14. ASSUME NEW i \in 1..n PROVE handed[i] * n - amount < n /\ amount - handed[i] * n < n
  <2>1. CASE more(i) = 0
    <3>1. handed[i] = q
      BY <1>2, <1>3, <1>11, <2>1
    <3> QED
      BY <1>1, <1>2, <3>1
  <2>2. CASE more(i) = 1
    <3>1. handed[i] = q + 1
      BY <1>3, <1>11, <2>2
    <3>2. handed[i] * n = q * n + n
      BY <1>1, <1>2, <3>1
    <3>3. left # 0
      <4>1. Cardinality(Ahead(zero, i)) < left
        BY <2>2
      <4>2. Cardinality(Ahead(zero, i)) \in 0..n-1
        BY <1>1, <1>3, RankFacts
      <4> HIDE DEF left
      <4> QED
        BY <1>8, <4>1, <4>2
    <3>4. q * n \in Int /\ q * n < amount /\ handed[i] * n \in Int
      BY <1>1, <1>2, <1>7, <1>8, <3>2, <3>3
    <3>5. \A h, p \in Int : h = p + n /\ p < amount /\ amount < p + n
                             => h - amount < n /\ amount - h < n
      BY <1>1
    <3> QED
      BY <1>2, <3>2, <3>4, <3>5
  <2> QED
    BY <2>1, <2>2
<1> QED
  BY <1>10, <1>11, <1>12, <1>13, <1>14

\* An amount is spread to the last unit and in proportion; nobody gets more of it than their
\* weight, if the weights cover it.
LEMMA Allocated ==
    ASSUME NEW n \in Nat \ {0}, NEW amount \in 0..MaxInt, NEW weights \in [1..n -> Nat],
           Representable(amount, weights)
    PROVE  /\ AllocateByWeight(amount, weights) \in [1..n -> Nat]
           /\ SumOf(AllocateByWeight(amount, weights)) = amount
           /\ InProportion(AllocateByWeight(amount, weights), amount, weights)
           /\ amount <= SumOf(weights) =>
                 \A i \in 1..n : AllocateByWeight(amount, weights)[i] <= weights[i]
<1>1. MaxInt \in Nat /\ amount \in Nat /\ n \in Nat
  BY PricingAssumption
<1>2. /\ DOMAIN weights = 1..n /\ Len(weights) = n
      /\ SumOf(weights) \in Nat /\ SumOf(weights) <= MaxInt
      /\ \A i \in 1..n : amount * weights[i] <= MaxInt
  BY <1>1, SeqFacts, SumOfParts DEF Representable
<1>3. Tuple([i \in DOMAIN weights |-> Positive(weights[i])]) = weights
  <2>1. \A i \in 1..n : Positive(weights[i]) = weights[i]
    BY DEF Positive
  <2>2. [i \in DOMAIN weights |-> Positive(weights[i])] = weights
    BY <1>2, <2>1
  <2> QED
    BY <1>1, <2>2, SeqFacts
<1>4. Total(weights) = SumOf(weights)
  BY <1>1, <1>2, WrapNone DEF Total
<1>5. AllocateByWeight(amount, weights) =
        IF SumOf(weights) = 0 THEN Even(amount, n) ELSE Proportional(amount, weights, SumOf(weights))
  BY <1>2, <1>3, <1>4 DEF AllocateByWeight
<1>6. CASE SumOf(weights) # 0
  <2>1. AllocateByWeight(amount, weights) = Proportional(amount, weights, SumOf(weights))
    BY <1>5, <1>6
  <2> DEFINE shares == Proportional(amount, weights, SumOf(weights))
  <2>2. /\ shares \in [1..n -> Nat] /\ SumOf(shares) = amount
        /\ InProportion(shares, amount, weights)
        /\ amount <= SumOf(weights) => \A i \in 1..n : shares[i] <= weights[i]
    BY <1>1, <1>2, <1>6, ProportionalShares
  <2> QED
    BY <2>1, <2>2
<1>7. CASE SumOf(weights) = 0
  <2>1. AllocateByWeight(amount, weights) = Even(amount, n)
    BY <1>5, <1>7
  <2>2. /\ Even(amount, n) \in [1..n -> Nat] /\ SumOf(Even(amount, n)) = amount
        /\ InProportion(Even(amount, n), amount, weights)
    BY <1>2, <1>7, EvenShares DEF InProportion
  <2>3. ASSUME amount <= 0, NEW i \in 1..n PROVE Even(amount, n)[i] <= weights[i]
    <3>1. Even(amount, n)[i] <= amount
      BY <1>1, <2>2, SumOfParts
    <3>2. Even(amount, n)[i] \in Nat /\ weights[i] \in Nat
      BY <2>2
    <3> QED
      BY <1>1, <2>3, <3>1, <3>2
  <2> QED
    BY <1>7, <2>1, <2>2, <2>3
<1> QED
  BY <1>6, <1>7

-----------------------------------------------------------------------------
(* The price of an item.                                                     *)

\* What validateCartInput and the loop over the items let pass.
Acceptable(i) ==
    /\ i \in Items /\ i.quantity > 0 /\ i.price >= 0 /\ ~LineOverflows(i)
    /\ \A r \in DOMAIN i.rules : i.rules[r] >= 0

LEMMA LineFacts ==
    ASSUME NEW i, Acceptable(i)
    PROVE  LineSubtotal(i) \in 0..MaxInt
<1>1. /\ i.quantity \in Nat \ {0} /\ i.price \in Nat /\ MaxInt \in Nat
      /\ ~(i.price > MaxInt \div i.quantity)
  BY PricingAssumption DEF Acceptable, Items, LineOverflows
<1>2. (MaxInt \div i.quantity) * i.quantity <= MaxInt /\ MaxInt \div i.quantity \in Nat
  BY <1>1, WholePart
<1>3. \A x, y, w \in Nat : x <= y => x * w <= y * w
  OBVIOUS
<1>4. i.price * i.quantity <= (MaxInt \div i.quantity) * i.quantity
  BY <1>1, <1>2, <1>3
<1>5. i.price * i.quantity \in Nat /\ (MaxInt \div i.quantity) * i.quantity \in Nat
  BY <1>1, <1>2
<1> QED
  BY <1>1, <1>2, <1>4, <1>5 DEF LineSubtotal

\* The discounts of the rules do not exceed the price, scaled down where they would.
LEMMA RuleFacts ==
    ASSUME NEW i, Acceptable(i), Representable(LineSubtotal(i), i.rules)
    PROVE  RuleDiscount(i) \in 0..LineSubtotal(i)
<1> DEFINE m == Len(i.rules)
           target == LineSubtotal(i)
<1>1. target \in 0..MaxInt /\ MaxInt \in Nat /\ target \in Nat
  BY LineFacts, PricingAssumption
<1>2. /\ m \in Nat /\ i.rules \in [1..m -> Nat] /\ DOMAIN i.rules = 1..m
      /\ SumOf(i.rules) \in Nat /\ SumOf(i.rules) <= MaxInt
  <2>1. i.rules \in Seq(Int) /\ \A r \in DOMAIN i.rules : i.rules[r] >= 0
    BY DEF Acceptable, Items
  <2>2. m \in Nat /\ i.rules \in [1..m -> Int] /\ DOMAIN i.rules = 1..m
    BY <2>1, LenProperties
  <2>3. i.rules \in [1..m -> Nat]
    BY <2>1, <2>2
  <2> QED
    BY <2>2, <2>3, SumOfParts DEF Representable
<1> HIDE DEF m, target
<1>3. Total(i.rules) = SumOf(i.rules)
  BY <1>1, <1>2, WrapNone DEF Total
<1>4. CASE ~(Total(i.rules) > target)
  BY <1>1, <1>2, <1>3, <1>4 DEF RuleDiscount, target
<1>5. CASE Total(i.rules) > target
  <2> DEFINE scaled == ScaleDiscounts(i.rules, target)
  <2>1. SumOf(i.rules) # 0 /\ RuleDiscount(i) = Total(scaled)
    BY <1>1, <1>2, <1>3, <1>5 DEF RuleDiscount, target
  <2>2. m # 0
    <3>1. SUFFICES ASSUME m = 0 PROVE SumOf(i.rules) = 0
      BY <2>1
    <3>2. i.rules \in [1..m -> Int]
      BY <1>2
    <3> QED
      BY <1>2, <3>1, <3>2, PartialSumsFacts DEF Accumulates
  <2>3. SumOf(scaled) \in 0..target
    <3>1. CASE target <= 0
      <4>1. scaled = [r \in 1..m |-> 0]
        BY <1>2, <3>1 DEF ScaleDiscounts
      <4> DEFINE zero == [r \in 1..m |-> 0]
      <4>2. zero \in [1..m -> Int] /\ \A r \in 1..m : zero[r] = 0 * zero[r]
        OBVIOUS
      <4> HIDE DEF zero
      <4>3. SumOf(zero) = 0 * SumOf(zero) /\ SumOf(zero) \in Int
        <5>1. SumOf(zero) \in Int
          BY <1>2, <4>2, PartialSumsFacts
        <5>2. 0 \in Int
          OBVIOUS
        <5> QED
          BY <1>2, <4>2, <5>1, <5>2, SumScaled
      <4> QED
        BY <1>1, <4>1, <4>3 DEF zero
    <3>2. CASE target > 0
      <4>1. scaled = AllocateByWeight(target, i.rules)
        BY <1>1, <1>3, <2>1, <3>2 DEF ScaleDiscounts
      <4>2. m \in Nat \ {0} /\ Representable(target, i.rules)
        BY <1>2, <2>2 DEF target
      <4>3. SumOf(scaled) = target
        BY <1>1, <1>2, <4>1, <4>2, Allocated
      <4> QED
        BY <1>1, <4>3
    <3> QED
      BY <1>1, <3>1, <3>2
  <2> HIDE DEF scaled
  <2>4. Total(scaled) = SumOf(scaled)
    BY <1>1, <2>3, WrapNone DEF Total
  <2> QED
    BY <2>1, <2>3, <2>4 DEF target
<1> QED
  BY <1>4, <1>5

-----------------------------------------------------------------------------
(* The price of the cart.                                                    *)

\* What the discounts leave.
LEMMA NetsFacts ==
    ASSUME NEW n \in Nat, NEW a \in [1..n -> Nat], NEW b \in [1..n -> Nat],
           \A k \in 1..n : b[k] <= a[k] /\ a[k] <= MaxInt
    PROVE  /\ Nets(a, b) \in [1..n -> Nat]
           /\ \A k \in 1..n : Nets(a, b)[k] = a[k] - b[k]
           /\ SumOf(a) = SumOf(b) + SumOf(Nets(a, b))
<1> DEFINE net == [k \in 1..n |-> a[k] - b[k]]
<1>1. \A k \in 1..n : a[k] \in Nat /\ b[k] \in Nat /\ a[k] - b[k] \in Nat /\ a[k] - b[k] <= MaxInt
  BY PricingAssumption
<1>2. net \in [1..n -> Nat] /\ net \in [1..n -> Int] /\ a \in [1..n -> Int] /\ b \in [1..n -> Int]
  BY <1>1
<1>3. \A k \in 1..n : Positive(Wrap(a[k] - b[k])) = a[k] - b[k]
  <2> TAKE k \in 1..n
  <2>1. a[k] - b[k] \in Nat /\ a[k] - b[k] <= MaxInt /\ MaxInt \in Nat
    BY <1>1, PricingAssumption
  <2>2. Wrap(a[k] - b[k]) = a[k] - b[k]
    BY <2>1, WrapNone
  <2> QED
    BY <2>1, <2>2 DEF Positive
<1>4. Nets(a, b) = net
  <2>1. [k \in DOMAIN a |-> Positive(Wrap(a[k] - b[k]))] = net
    BY <1>3
  <2>2. Nets(a, b) = Tuple(net)
    BY <2>1 DEF Nets
  <2> HIDE DEF net
  <2>3. Tuple(net) = net
    BY <1>2, SeqFacts
  <2> QED
    BY <2>2, <2>3
<1>5. \A k \in 1..n : net[k] = a[k] - b[k] /\ a[k] = b[k] + net[k]
  BY <1>1
<1> HIDE DEF net
<1>6. SumOf(a) = SumOf(b) + SumOf(net)
  BY <1>2, <1>5, SumAdds
<1> QED
  BY <1>2, <1>4, <1>5, <1>6

LEMMA ShippingFacts ==
    ASSUME NEW i, Acceptable(i), Representable(LineSubtotal(i), i.rules)
    PROVE  ShippingWeight(i) \in Nat
<1>1. /\ LineSubtotal(i) \in 0..MaxInt /\ RuleDiscount(i) \in 0..LineSubtotal(i)
      /\ MaxInt \in Nat /\ i.grams \in Int /\ i.quantity \in Int
  BY LineFacts, RuleFacts, PricingAssumption DEF Acceptable, Items
<1>2. Weight(i) \in Int
  BY <1>1 DEF Weight
<1>3. LineSubtotal(i) - RuleDiscount(i) \in 0..MaxInt
  BY <1>1
<1>4. Wrap(LineSubtotal(i) - RuleDiscount(i)) \in 0..MaxInt
  BY <1>1, <1>3, WrapNone
<1> QED
  BY <1>1, <1>2, <1>4 DEF ShippingWeight, Positive

\* The items of the breakdown of a cart that is priced.
LEMMA EmptyBreakdown ==
    ASSUME NEW tax, NEW fee, cart.items = <<>>
    PROVE  Breakdown(tax, fee).items = <<>>
<1>1. DOMAIN cart.items = {}
  BY EmptySeq
<1>2. \A f : DOMAIN f = {} /\ f \in [{} -> Int] => Tuple(f) = <<>>
  <2> TAKE f
  <2> HAVE DOMAIN f = {} /\ f \in [{} -> Int]
  <2>1. f \in [1..0 -> Int]
    OBVIOUS
  <2>2. Tuple(f) = f /\ f \in Seq(Int) /\ Len(f) = 0
    BY <2>1, SeqFacts
  <2> QED
    BY <2>2, EmptySeq
<1>3. Subtotals = <<>>
  <2>1. [k \in DOMAIN cart.items |-> LineSubtotal(cart.items[k])] \in [{} -> Int]
    BY <1>1
  <2> QED
    BY <1>2, <2>1 DEF Subtotals
<1>4. \A d, t, f : PricedLines(<<>>, d, t, f) = <<>>
  <2> TAKE d, t, f
  <2> DEFINE lines == [k \in DOMAIN <<>> |->
        [subtotal |-> <<>>[k], discount |-> d[k], tax |-> t[k], shipping |-> f[k],
         total |-> Positive(Wrap(<<>>[k] - d[k] + t[k] + f[k]))]]
  <2>1. PricedLines(<<>>, d, t, f) = Tuple(lines)
    BY DEF PricedLines
  <2>2. lines \in [{} -> Int] /\ DOMAIN lines = {}
    BY EmptySeq
  <2> HIDE DEF lines
  <2> QED
    BY <1>2, <2>1, <2>2
<1> QED
  BY <1>3, <1>4 DEF Breakdown, Promote, Summary

\* Discounts of the rules, within the prices of n items, a promotion, and both together.
Discounted(n, subtotals, ruled, offered, promotion, discounts) ==
    /\ n \in Nat \ {0} /\ subtotals \in [1..n -> Nat] /\ ruled \in [1..n -> Nat] /\ offered \in Int
    /\ SumOf(subtotals) <= MaxInt
    /\ \A k \in 1..n : ruled[k] <= subtotals[k]
    /\ promotion = Promotion(offered, SumOf(subtotals), Total(ruled))
    /\ Representable(promotion, Nets(subtotals, ruled))
    /\ discounts = Sums(ruled, AllocateByWeight(promotion, Nets(subtotals, ruled)))

\* The discounts of the rules and the promotion make up the cart's, and none exceeds its price.
LEMMA DiscountsAddUp ==
    ASSUME NEW n, NEW subtotals, NEW ruled, NEW offered, NEW promotion, NEW discounts,
           Discounted(n, subtotals, ruled, offered, promotion, discounts)
    PROVE  /\ discounts \in [1..n -> Nat] /\ \A k \in 1..n : discounts[k] <= subtotals[k]
           /\ SumOf(discounts) = Wrap(Total(ruled) + promotion)
<1> DEFINE net == Nets(subtotals, ruled)
           promoted == AllocateByWeight(promotion, net)
           sums == [k \in 1..n |-> ruled[k] + promoted[k]]
<1> USE DEF Discounted
<1>1. /\ MaxInt \in Nat /\ n \in Nat /\ SumOf(subtotals) \in 0..MaxInt
      /\ \A k \in 1..n : ruled[k] <= subtotals[k] /\ subtotals[k] <= MaxInt
  <2>1. SumOf(subtotals) \in Nat /\ \A k \in 1..n : subtotals[k] <= SumOf(subtotals)
    BY SumOfParts
  <2>2. \A k \in 1..n : subtotals[k] \in Nat
    OBVIOUS
  <2> QED
    BY <2>1, <2>2, PricingAssumption
<1>2. /\ net \in [1..n -> Nat] /\ \A k \in 1..n : net[k] = subtotals[k] - ruled[k]
      /\ SumOf(subtotals) = SumOf(ruled) + SumOf(net)
  BY <1>1, NetsFacts
<1>3. SumOf(ruled) \in Nat /\ SumOf(net) \in Nat
  <2>1. n \in Nat
    OBVIOUS
  <2> QED
    BY <1>2, <2>1, SumOfParts
<1> HIDE DEF net
<1>4. Total(ruled) = SumOf(ruled) /\ SumOf(ruled) \in 0..MaxInt
  <2>1. SumOf(ruled) \in 0..MaxInt
    BY <1>1, <1>2, <1>3
  <2> QED
    BY <1>1, <2>1, WrapNone DEF Total
<1>5. promotion \in 0..SumOf(net)
  <2>1. Wrap(SumOf(subtotals) - SumOf(ruled)) = SumOf(net)
    <3>1. SumOf(subtotals) - SumOf(ruled) = SumOf(net) /\ SumOf(net) \in 0..MaxInt
      BY <1>1, <1>2, <1>3, <1>4
    <3> QED
      BY <1>1, <3>1, WrapNone
  <2> QED
    BY <1>3, <1>4, <2>1 DEF Promotion, Positive
<1>6. promotion \in 0..MaxInt
  BY <1>1, <1>2, <1>3, <1>4, <1>5
<1>7. /\ promoted \in [1..n -> Nat] /\ SumOf(promoted) = promotion
      /\ \A k \in 1..n : promoted[k] <= net[k]
  <2>1. Representable(promotion, net)
    BY DEF net
  <2>2. promotion <= SumOf(net)
    BY <1>3, <1>5
  <2> QED
    BY <1>2, <1>6, <2>1, <2>2, Allocated
<1> HIDE DEF promoted
<1>8. \A k \in 1..n : /\ ruled[k] + promoted[k] \in Nat /\ ruled[k] + promoted[k] <= subtotals[k]
                      /\ Wrap(ruled[k] + promoted[k]) = ruled[k] + promoted[k]
  <2> TAKE k \in 1..n
  <2>1. ruled[k] \in Nat /\ promoted[k] \in Nat /\ subtotals[k] \in Nat
    BY <1>7
  <2>2. promoted[k] <= subtotals[k] - ruled[k] /\ subtotals[k] <= MaxInt
    BY <1>1, <1>2, <1>7
  <2>3. /\ ruled[k] + promoted[k] \in Nat /\ ruled[k] + promoted[k] <= subtotals[k]
        /\ ruled[k] + promoted[k] <= MaxInt
    BY <1>1, <2>1, <2>2
  <2> QED
    BY <1>1, <2>3, WrapNone
<1>9. sums \in [1..n -> Nat] /\ \A k \in 1..n : sums[k] = ruled[k] + promoted[k]
  BY <1>8
<1>10. discounts = sums
  <2>1. [k \in DOMAIN ruled |-> Wrap(ruled[k] + promoted[k])] = sums
    BY <1>8
  <2>2. discounts = Tuple(sums)
    BY <2>1 DEF Sums, promoted, net
  <2> HIDE DEF sums
  <2>3. Tuple(sums) = sums
    BY <1>1, <1>9, SeqFacts
  <2> QED
    BY <2>2, <2>3
<1> HIDE DEF sums
<1>11. SumOf(sums) = SumOf(ruled) + promotion
  <2>1. sums \in [1..n -> Int] /\ ruled \in [1..n -> Int] /\ promoted \in [1..n -> Int]
    BY <1>7, <1>9
  <2>2. n \in Nat /\ \A k \in 1..n : sums[k] = ruled[k] + promoted[k]
    BY <1>1, <1>9
  <2>3. SumOf(sums) = SumOf(ruled) + SumOf(promoted)
    BY <2>1, <2>2, SumAdds, Zenon
  <2> QED
    BY <1>7, <2>3
<1>12. Wrap(Total(ruled) + promotion) = SumOf(ruled) + promotion
  <2>1. SumOf(ruled) + promotion \in Nat /\ SumOf(ruled) + promotion <= MaxInt
    BY <1>1, <1>2, <1>3, <1>5
  <2> QED
    BY <1>1, <1>4, <2>1, WrapNone
<1>13. \A k \in 1..n : sums[k] <= subtotals[k]
  BY <1>8, <1>9
<1> QED
  BY <1>9, <1>10, <1>11, <1>12, <1>13

\* The columns of n items.
Itemised(n, subtotals, discounts, taxes, fees, lines) ==
    /\ n \in Nat \ {0} /\ subtotals \in [1..n -> Nat] /\ discounts \in [1..n -> Nat]
    /\ taxes \in [1..n -> Nat] /\ fees \in [1..n -> Nat]
    /\ \A k \in 1..n : discounts[k] <= subtotals[k]
    /\ SumOf(subtotals) + SumOf(taxes) + SumOf(fees) <= MaxInt
    /\ lines = PricedLines(subtotals, discounts, taxes, fees)

\* The columns of the items add up.
LEMMA LinesAddUp ==
    ASSUME NEW n, NEW subtotals, NEW discounts, NEW taxes, NEW fees, NEW lines,
           Itemised(n, subtotals, discounts, taxes, fees, lines)
    PROVE  /\ DOMAIN lines = 1..n
           /\ \A k \in 1..n : lines[k].discount = discounts[k] /\ lines[k].subtotal = subtotals[k]
           /\ [k \in DOMAIN lines |-> lines[k].subtotal] = subtotals
           /\ [k \in DOMAIN lines |-> lines[k].discount] = discounts
           /\ [k \in DOMAIN lines |-> lines[k].tax] = taxes
           /\ [k \in DOMAIN lines |-> lines[k].shipping] = fees
           /\ [k \in DOMAIN lines |-> lines[k].total] \in [1..n -> Int]
           /\ SumOf([k \in DOMAIN lines |-> lines[k].total]) =
                 SumOf(subtotals) - SumOf(discounts) + SumOf(taxes) + SumOf(fees)
<1> DEFINE net == [k \in 1..n |-> subtotals[k] - discounts[k]]
           taxed == [k \in 1..n |-> net[k] + taxes[k]]
           total == [k \in 1..n |-> taxed[k] + fees[k]]
           line(k) == [subtotal |-> subtotals[k], discount |-> discounts[k], tax |-> taxes[k],
                       shipping |-> fees[k], total |-> total[k]]
           all == [k \in 1..n |-> line(k)]
<1> USE DEF Itemised
<1>0. MaxInt \in Nat /\ n \in Nat
  BY PricingAssumption
<1>1. /\ n \in Nat
      /\ subtotals \in [1..n -> Int] /\ discounts \in [1..n -> Int]
      /\ taxes \in [1..n -> Int] /\ fees \in [1..n -> Int]
  OBVIOUS
<1>2. /\ SumOf(subtotals) \in Nat /\ SumOf(taxes) \in Nat /\ SumOf(fees) \in Nat
      /\ \A k \in 1..n : /\ subtotals[k] <= SumOf(subtotals)
                         /\ taxes[k] <= SumOf(taxes) /\ fees[k] <= SumOf(fees)
  BY <1>1, SumOfParts
<1>3. ASSUME NEW k \in 1..n
      PROVE  /\ subtotals[k] - discounts[k] \in Nat /\ (subtotals[k] - discounts[k]) + taxes[k] \in Nat
             /\ ((subtotals[k] - discounts[k]) + taxes[k]) + fees[k] \in Nat
             /\ subtotals[k] = discounts[k] + (subtotals[k] - discounts[k])
             /\ Positive(Wrap(subtotals[k] - discounts[k] + taxes[k] + fees[k])) =
                   ((subtotals[k] - discounts[k]) + taxes[k]) + fees[k]
  <2>1. /\ subtotals[k] \in Nat /\ discounts[k] \in Nat /\ taxes[k] \in Nat /\ fees[k] \in Nat
        /\ discounts[k] <= subtotals[k]
    OBVIOUS
  <2>2. subtotals[k] + taxes[k] + fees[k] <= MaxInt
    <3>1. \A s, x, f, a, b, c, m \in Nat :
             s <= a /\ x <= b /\ f <= c /\ a + b + c <= m => s + x + f <= m
      OBVIOUS
    <3> QED
      BY <1>0, <1>2, <2>1, <3>1
  <2>3. subtotals[k] = discounts[k] + (subtotals[k] - discounts[k])
    BY <2>1
  <2> DEFINE price == subtotals[k] - discounts[k] + taxes[k] + fees[k]
  <2>4. /\ price \in Nat /\ price = ((subtotals[k] - discounts[k]) + taxes[k]) + fees[k]
        /\ subtotals[k] - discounts[k] \in Nat /\ (subtotals[k] - discounts[k]) + taxes[k] \in Nat
        /\ price <= subtotals[k] + taxes[k] + fees[k]
    <3>1. \A s, d, x, f \in Nat : d <= s =>
             /\ s - d + x + f \in Nat /\ s - d + x + f = ((s - d) + x) + f
             /\ s - d \in Nat /\ (s - d) + x \in Nat /\ s - d + x + f <= s + x + f
      OBVIOUS
    <3> QED
      BY <2>1, <3>1
  <2>5. price \in Int /\ -MaxInt - 1 <= price /\ price <= MaxInt
    <3>1. subtotals[k] + taxes[k] + fees[k] \in Nat
      BY <2>1
    <3>2. \A p, q \in Nat : p <= q /\ q <= MaxInt => p \in Int /\ -MaxInt - 1 <= p /\ p <= MaxInt
      BY <1>0
    <3>3. price \in Nat /\ price <= subtotals[k] + taxes[k] + fees[k]
      BY <2>4
    <3> HIDE DEF price
    <3> QED
      BY <2>2, <3>1, <3>2, <3>3
  <2>6. Positive(Wrap(price)) = price
    <3> HIDE DEF price
    <3>1. Wrap(price) = price
      BY <2>5, WrapNone
    <3> QED
      BY <2>4, <3>1 DEF Positive
  <2> QED
    BY <2>1, <2>3, <2>4, <2>6
<1>4. /\ net \in [1..n -> Int] /\ taxed \in [1..n -> Int] /\ total \in [1..n -> Int]
      /\ \A k \in 1..n : /\ taxed[k] = net[k] + taxes[k] /\ total[k] = taxed[k] + fees[k]
                         /\ subtotals[k] = discounts[k] + net[k]
                         /\ Positive(Wrap(subtotals[k] - discounts[k] + taxes[k] + fees[k])) = total[k]
  <2>1. net \in [1..n -> Int] /\ \A k \in 1..n : net[k] = subtotals[k] - discounts[k]
    BY <1>3
  <2> HIDE DEF net
  <2>2. taxed \in [1..n -> Int] /\ \A k \in 1..n : taxed[k] = net[k] + taxes[k]
    BY <1>3, <2>1
  <2> HIDE DEF taxed
  <2>3. total \in [1..n -> Int] /\ \A k \in 1..n : total[k] = taxed[k] + fees[k]
    BY <1>3, <2>1, <2>2
  <2> HIDE DEF total
  <2>4. \A k \in 1..n : total[k] = ((subtotals[k] - discounts[k]) + taxes[k]) + fees[k]
    BY <2>1, <2>2, <2>3
  <2> QED
    BY <1>3, <2>1, <2>2, <2>3, <2>4, Zenon
<1> HIDE DEF net, taxed, total
<1>5. lines = all
  <2>1. [k \in DOMAIN subtotals |->
           [subtotal |-> subtotals[k], discount |-> discounts[k], tax |-> taxes[k], shipping |-> fees[k],
            total |-> Positive(Wrap(subtotals[k] - discounts[k] + taxes[k] + fees[k]))]] = all
    BY <1>4
  <2>2. lines = Tuple(all)
    BY <2>1 DEF PricedLines
  <2>3. all \in [1..n -> {line(k) : k \in 1..n}]
    OBVIOUS
  <2> HIDE DEF all
  <2>4. Tuple(all) = all
    BY <1>0, <2>3, SeqFacts
  <2> QED
    BY <2>2, <2>4
<1>6. /\ DOMAIN lines = 1..n
      /\ \A k \in 1..n : /\ lines[k].subtotal = subtotals[k] /\ lines[k].discount = discounts[k]
                         /\ lines[k].tax = taxes[k] /\ lines[k].shipping = fees[k]
                         /\ lines[k].total = total[k]
  BY <1>5
<1>7. SumOf(total) = SumOf(subtotals) - SumOf(discounts) + SumOf(taxes) + SumOf(fees)
  <2>0. \A a, b, c \in [1..n -> Int] :
           (\A k \in 1..n : c[k] = a[k] + b[k]) => SumOf(c) = SumOf(a) + SumOf(b)
    BY <1>0, SumAdds
  <2> HIDE DEF line, all
  <2>1. SumOf(subtotals) = SumOf(discounts) + SumOf(net)
    <3>1. \A k \in 1..n : subtotals[k] = discounts[k] + net[k]
      BY <1>4
    <3>2. net \in [1..n -> Int] /\ n \in Nat
      BY <1>4
    <3> QED
      BY <1>1, <2>0, <3>1, <3>2
  <2>2. SumOf(taxed) = SumOf(net) + SumOf(taxes)
    <3>1. \A k \in 1..n : taxed[k] = net[k] + taxes[k]
      BY <1>4
    <3>2. net \in [1..n -> Int] /\ taxed \in [1..n -> Int] /\ n \in Nat
      BY <1>4
    <3> QED
      BY <1>1, <2>0, <3>1, <3>2
  <2>3. SumOf(total) = SumOf(taxed) + SumOf(fees)
    <3>1. \A k \in 1..n : total[k] = taxed[k] + fees[k]
      BY <1>4
    <3>2. total \in [1..n -> Int] /\ taxed \in [1..n -> Int] /\ n \in Nat
      BY <1>4
    <3> QED
      BY <1>1, <2>0, <3>1, <3>2
  <2>4. SumOf(discounts) \in Int /\ SumOf(net) \in Int
    BY <1>1, <1>4, PartialSumsFacts
  <2> QED
    BY <1>2, <2>1, <2>2, <2>3, <2>4
<1>8. [k \in DOMAIN lines |-> lines[k].total] = total
  BY <1>4, <1>6
<1> HIDE DEF all
<1>9. /\ [k \in DOMAIN lines |-> lines[k].subtotal] = subtotals
      /\ [k \in DOMAIN lines |-> lines[k].discount] = discounts
      /\ [k \in DOMAIN lines |-> lines[k].tax] = taxes
      /\ [k \in DOMAIN lines |-> lines[k].shipping] = fees
  BY <1>1, <1>6
<1> QED
  BY <1>4, <1>6, <1>7, <1>8, <1>9

\* The cart as the engine prices it.
LEMMA CartFacts ==
    ASSUME cart \in Carts, ~Refused,
           \A i \in Range(cart.items) : Representable(LineSubtotal(i), i.rules)
    PROVE  /\ Len(cart.items) \in Nat /\ DOMAIN cart.items = 1..Len(cart.items)
           /\ Len(cart.items) = 0 => cart.items = <<>>
           /\ \A k \in 1..Len(cart.items) :
                 /\ Acceptable(cart.items[k])
                 /\ Representable(LineSubtotal(cart.items[k]), cart.items[k].rules)
           /\ SumOf(Subtotals) <= MaxInt /\ cart.promotion \in Int
<1>1. cart.items \in Seq(Items) /\ cart.promotion \in Int
  BY PricingAssumption
<1>2. Len(cart.items) \in Nat /\ DOMAIN cart.items = 1..Len(cart.items)
  BY <1>1, LenProperties
<1>3. Len(cart.items) = 0 => cart.items = <<>>
  BY <1>1, EmptySeq
<1>4. ASSUME NEW k \in 1..Len(cart.items)
      PROVE  /\ Acceptable(cart.items[k])
             /\ Representable(LineSubtotal(cart.items[k]), cart.items[k].rules)
  <2> DEFINE i == cart.items[k]
  <2>1. i \in Range(cart.items) /\ i \in Items
    BY <1>1, <1>2, ElementOfSeq DEF Range
  <2> HIDE DEF i
  <2>2. /\ ~(i.quantity <= 0) /\ ~(i.price < 0) /\ ~LineOverflows(i)
        /\ \A r \in DOMAIN i.rules : ~(i.rules[r] < 0)
    BY <2>1 DEF Refused
  <2>3. \A r \in DOMAIN i.rules : i.rules[r] \in Int
    <3>1. i.rules \in Seq(Int)
      BY <2>1 DEF Items
    <3> QED
      BY <3>1, LenProperties, ElementOfSeq
  <2>4. i.quantity \in Int /\ i.price \in Int
    BY <2>1 DEF Items
  <2>5. Acceptable(i)
    BY <2>1, <2>2, <2>3, <2>4 DEF Acceptable
  <2>6. Representable(LineSubtotal(i), i.rules)
    BY <2>1
  <2> QED
    BY <2>5, <2>6 DEF i
<1>5. SumOf(Subtotals) <= MaxInt
  <2>1. ~(SumOf(Subtotals) > MaxInt)
    BY DEF Refused
  <2> DEFINE sub == [k \in 1..Len(cart.items) |-> LineSubtotal(cart.items[k])]
  <2>2. sub \in [1..Len(cart.items) -> Int]
    <3>1. \A k \in 1..Len(cart.items) : LineSubtotal(cart.items[k]) \in Int
      BY <1>4, LineFacts
    <3> QED
      BY <3>1
  <2>3. Subtotals = Tuple(sub)
    BY <1>2 DEF Subtotals
  <2> HIDE DEF sub
  <2>4. SumOf(Subtotals) \in Int
    BY <1>2, <2>2, <2>3, SeqFacts, PartialSumsFacts
  <2> QED
    BY <2>1, <2>4, PricingAssumption
<1> QED
  BY <1>1, <1>2, <1>3, <1>4, <1>5

\* The columns as the engine computes them, before the allocations of tax and shipping.
LEMMA ColumnFacts ==
    ASSUME cart \in Carts, ~Refused,
           \A i \in Range(cart.items) : Representable(LineSubtotal(i), i.rules),
           NEW ruled, ruled = Tuple([k \in DOMAIN cart.items |-> RuleDiscount(cart.items[k])])
    PROVE  /\ Subtotals \in [1..Len(cart.items) -> Nat] /\ ruled \in [1..Len(cart.items) -> Nat]
           /\ ShippingWeights \in [1..Len(cart.items) -> Nat]
           /\ \A k \in 1..Len(cart.items) : ruled[k] <= Subtotals[k] /\ Subtotals[k] <= MaxInt
<1> DEFINE n == Len(cart.items)
           sub == [k \in 1..n |-> LineSubtotal(cart.items[k])]
           off == [k \in 1..n |-> RuleDiscount(cart.items[k])]
           ship == [k \in 1..n |-> ShippingWeight(cart.items[k])]
<1>1. /\ n \in Nat /\ DOMAIN cart.items = 1..n
      /\ \A k \in 1..n : /\ Acceptable(cart.items[k])
                         /\ Representable(LineSubtotal(cart.items[k]), cart.items[k].rules)
  BY CartFacts
<1>2. ASSUME NEW k \in 1..n
      PROVE  /\ LineSubtotal(cart.items[k]) \in Nat /\ LineSubtotal(cart.items[k]) <= MaxInt
             /\ RuleDiscount(cart.items[k]) \in Nat
             /\ RuleDiscount(cart.items[k]) <= LineSubtotal(cart.items[k])
             /\ ShippingWeight(cart.items[k]) \in Nat
  <2>1. /\ LineSubtotal(cart.items[k]) \in 0..MaxInt
        /\ RuleDiscount(cart.items[k]) \in 0..LineSubtotal(cart.items[k])
        /\ ShippingWeight(cart.items[k]) \in Nat
    BY <1>1, LineFacts, RuleFacts, ShippingFacts
  <2> QED
    BY <2>1, PricingAssumption
<1> HIDE DEF n
<1>3. sub \in [1..n -> Nat] /\ \A k \in 1..n : sub[k] = LineSubtotal(cart.items[k])
  BY <1>2
<1>4. off \in [1..n -> Nat] /\ \A k \in 1..n : off[k] = RuleDiscount(cart.items[k])
  BY <1>2
<1>5. ship \in [1..n -> Nat]
  BY <1>2
<1>6. Subtotals = Tuple(sub) /\ ruled = Tuple(off) /\ ShippingWeights = Tuple(ship)
  BY <1>1 DEF Subtotals, ShippingWeights
<1> HIDE DEF sub, off, ship
<1>7. Tuple(sub) = sub /\ Tuple(off) = off /\ Tuple(ship) = ship
  BY <1>1, <1>3, <1>4, <1>5, SeqFacts
<1>8. Subtotals = sub /\ ruled = off /\ ShippingWeights = ship
  BY <1>6, <1>7
<1>9. \A k \in 1..n : off[k] <= sub[k] /\ sub[k] <= MaxInt
  BY <1>2, <1>3, <1>4
<1>10. /\ Subtotals \in [1..n -> Nat] /\ ruled \in [1..n -> Nat] /\ ShippingWeights \in [1..n -> Nat]
       /\ \A k \in 1..n : ruled[k] <= Subtotals[k] /\ Subtotals[k] <= MaxInt
  BY <1>3, <1>4, <1>5, <1>8, <1>9, Zenon
<1> QED
  BY <1>10 DEF n

\* What Calculate answers adds up, unless a product or a sum leaves int64.
LEMMA BreakdownAddsUp ==
    ASSUME cart \in Carts, ~Refused, NEW tax \in Nat, NEW fee \in Nat,
           WithinInt64(Breakdown(tax, fee))
    PROVE  AddsUp(Breakdown(tax, fee))
<1> DEFINE n == Len(cart.items)
           b == Breakdown(tax, fee)
           ruled == Tuple([k \in DOMAIN cart.items |-> RuleDiscount(cart.items[k])])
           promotion == Promotion(cart.promotion, SumOf(Subtotals), Total(ruled))
           discounts == Sums(ruled, AllocateByWeight(promotion, Nets(Subtotals, ruled)))
           taxes == AllocateByWeight(tax, Nets(Subtotals, discounts))
           fees == AllocateByWeight(fee, ShippingWeights)
           discount == Wrap(Total(ruled) + promotion)
           lines == PricedLines(Subtotals, discounts, taxes, fees)
<1>1. \A i \in Range(cart.items) : Representable(LineSubtotal(i), i.rules)
  BY DEF WithinInt64
<1>2. /\ n \in Nat /\ n = 0 => cart.items = <<>>
      /\ SumOf(Subtotals) <= MaxInt /\ cart.promotion \in Int
  BY <1>1, CartFacts
<1>3. /\ Subtotals \in [1..n -> Nat] /\ ruled \in [1..n -> Nat] /\ ShippingWeights \in [1..n -> Nat]
      /\ \A k \in 1..n : ruled[k] <= Subtotals[k] /\ Subtotals[k] <= MaxInt
  BY <1>1, ColumnFacts
<1>4. CASE n = 0
  BY <1>2, <1>4, EmptyBreakdown DEF AddsUp
<1>5. CASE n # 0
  <2>1. n \in Nat \ {0} /\ MaxInt \in Nat
    BY <1>2, <1>5, PricingAssumption
  <2>2. /\ b.subtotal = SumOf(Subtotals) /\ b.discount = discount /\ b.tax = tax /\ b.shipping = fee
        /\ b.total = Positive(Wrap(Positive(Wrap(SumOf(Subtotals) - discount)) + tax + fee))
        /\ b.items = lines
        /\ b.allocated = {<<promotion, Nets(Subtotals, ruled)>>} \cup
                         {<<tax, Nets(Subtotals, discounts)>>, <<fee, ShippingWeights>>}
    <3> HIDE DEF n
    <3> QED
      BY DEF Breakdown, Promote, Summary
  <2> HIDE DEF n, b, ruled, promotion, discounts, taxes, fees, discount, lines
  <2>3. /\ Representable(promotion, Nets(Subtotals, ruled))
        /\ Representable(tax, Nets(Subtotals, discounts)) /\ Representable(fee, ShippingWeights)
    <3>1. \A a \in b.allocated : Representable(a[1], a[2])
      BY DEF WithinInt64, b
    <3> QED
      BY <2>2, <3>1
  <2>4. SumOf(Subtotals) + tax + fee <= MaxInt
    <3>1. b.subtotal + b.tax + b.shipping <= MaxInt
      BY DEF WithinInt64, b
    <3> QED
      BY <2>2, <3>1
  <2>5. SumOf(Subtotals) \in Nat /\ tax \in 0..MaxInt /\ fee \in 0..MaxInt
    <3>1. SumOf(Subtotals) \in Nat
      BY <1>3, <2>1, SumOfParts
    <3> QED
      BY <2>1, <2>4, <3>1
  <2>6. /\ discounts \in [1..n -> Nat] /\ \A k \in 1..n : discounts[k] <= Subtotals[k]
        /\ SumOf(discounts) = discount
    <3>1. promotion = Promotion(cart.promotion, SumOf(Subtotals), Total(ruled))
      BY DEF promotion
    <3>2. discounts = Sums(ruled, AllocateByWeight(promotion, Nets(Subtotals, ruled)))
      BY DEF discounts
    <3>3. discount = Wrap(Total(ruled) + promotion)
      BY DEF discount
    <3>4. /\ n \in Nat \ {0} /\ SumOf(Subtotals) <= MaxInt /\ cart.promotion \in Int
          /\ Subtotals \in [1..n -> Nat] /\ ruled \in [1..n -> Nat]
          /\ \A k \in 1..n : ruled[k] <= Subtotals[k]
      BY <1>2, <1>3, <2>1
    <3>5. Representable(promotion, Nets(Subtotals, ruled))
      BY <2>3
    <3> QED
      <4>1. Discounted(n, Subtotals, ruled, cart.promotion, promotion, discounts)
        BY <3>1, <3>2, <3>3, <3>4, <3>5 DEF Discounted
      <4> QED
        BY <3>3, <4>1, DiscountsAddUp
  <2>7. /\ Nets(Subtotals, discounts) \in [1..n -> Nat]
        /\ SumOf(Subtotals) = SumOf(discounts) + SumOf(Nets(Subtotals, discounts))
    <3>1. n \in Nat /\ Subtotals \in [1..n -> Nat] /\ discounts \in [1..n -> Nat]
      BY <1>3, <2>1, <2>6
    <3>2. \A k \in 1..n : discounts[k] <= Subtotals[k] /\ Subtotals[k] <= MaxInt
      BY <1>3, <2>6
    <3> QED
      BY <3>1, <3>2, NetsFacts, Zenon
  <2>8. /\ taxes \in [1..n -> Nat] /\ SumOf(taxes) = tax
        /\ InProportion(taxes, tax, Nets(Subtotals, discounts))
    BY <2>1, <2>3, <2>5, <2>7, Allocated DEF taxes
  <2>9. fees \in [1..n -> Nat] /\ SumOf(fees) = fee /\ InProportion(fees, fee, ShippingWeights)
    BY <1>3, <2>1, <2>3, <2>5, Allocated DEF fees
  <2>10. /\ DOMAIN lines = 1..n
         /\ \A k \in 1..n : lines[k].discount = discounts[k] /\ lines[k].subtotal = Subtotals[k]
         /\ [k \in DOMAIN lines |-> lines[k].subtotal] = Subtotals
         /\ [k \in DOMAIN lines |-> lines[k].discount] = discounts
         /\ [k \in DOMAIN lines |-> lines[k].tax] = taxes
         /\ [k \in DOMAIN lines |-> lines[k].shipping] = fees
         /\ [k \in DOMAIN lines |-> lines[k].total] \in [1..n -> Int]
         /\ SumOf([k \in DOMAIN lines |-> lines[k].total]) =
               SumOf(Subtotals) - SumOf(discounts) + SumOf(taxes) + SumOf(fees)
    <3>1. lines = PricedLines(Subtotals, discounts, taxes, fees)
      BY DEF lines
    <3>2. SumOf(Subtotals) + SumOf(taxes) + SumOf(fees) <= MaxInt
      BY <2>4, <2>8, <2>9
    <3>3. /\ n \in Nat \ {0} /\ Subtotals \in [1..n -> Nat] /\ discounts \in [1..n -> Nat]
          /\ taxes \in [1..n -> Nat] /\ fees \in [1..n -> Nat]
          /\ \A k \in 1..n : discounts[k] <= Subtotals[k]
      BY <1>3, <2>1, <2>6, <2>8, <2>9
    <3> QED
      <4>1. Itemised(n, Subtotals, discounts, taxes, fees, lines)
        BY <3>1, <3>2, <3>3 DEF Itemised
      <4> QED
        BY <4>1, LinesAddUp
  <2>11. b.total = SumOf(Subtotals) - discount + tax + fee
    <3>1. SumOf(discounts) \in Nat /\ SumOf(Nets(Subtotals, discounts)) \in Nat
      BY <2>1, <2>6, <2>7, SumOfParts
    <3>2. SumOf(Subtotals) - discount \in Nat /\ SumOf(Subtotals) - discount <= SumOf(Subtotals)
      BY <2>5, <2>6, <2>7, <3>1
    <3>3. Positive(Wrap(SumOf(Subtotals) - discount)) = SumOf(Subtotals) - discount
      <4>1. Wrap(SumOf(Subtotals) - discount) = SumOf(Subtotals) - discount
        BY <1>2, <2>1, <2>5, <3>2, WrapNone
      <4> QED
        BY <3>2, <4>1 DEF Positive
    <3>4. /\ SumOf(Subtotals) - discount + tax + fee \in Nat
          /\ SumOf(Subtotals) - discount + tax + fee <= MaxInt
      BY <2>1, <2>4, <2>5, <3>2
    <3>5. Wrap(SumOf(Subtotals) - discount + tax + fee) = SumOf(Subtotals) - discount + tax + fee
      BY <2>1, <3>4, WrapNone
    <3> QED
      BY <2>2, <3>3, <3>4, <3>5 DEF Positive
  <2>12. /\ Column(b, "subtotal") = Subtotals /\ Column(b, "discount") = discounts
         /\ Column(b, "tax") = taxes /\ Column(b, "shipping") = fees
         /\ SumOf(Column(b, "total")) = b.total
    <3>1. /\ Column(b, "subtotal") = Tuple(Subtotals) /\ Column(b, "discount") = Tuple(discounts)
          /\ Column(b, "tax") = Tuple(taxes) /\ Column(b, "shipping") = Tuple(fees)
          /\ Column(b, "total") = Tuple([k \in DOMAIN lines |-> lines[k].total])
      BY <2>2, <2>10 DEF Column
    <3>2. /\ Tuple([k \in DOMAIN lines |-> lines[k].total]) = [k \in DOMAIN lines |-> lines[k].total]
          /\ Tuple(Subtotals) = Subtotals /\ Tuple(discounts) = discounts
          /\ Tuple(taxes) = taxes /\ Tuple(fees) = fees
      BY <1>3, <2>1, <2>6, <2>8, <2>9, <2>10, SeqFacts
    <3> QED
      BY <2>2, <2>6, <2>8, <2>9, <2>10, <2>11, <3>1, <3>2
  <2>15. \A name \in {"subtotal", "discount", "tax", "shipping", "total"} :
            SumOf(Column(b, name)) = b[name]
    BY <2>2, <2>6, <2>8, <2>9, <2>12
  <2>13. \A k \in DOMAIN b.items : b.items[k].discount \in 0..b.items[k].subtotal
    <3>1. \A k \in 1..n : Subtotals[k] \in Nat /\ discounts[k] \in Nat
      BY <1>3, <2>6
    <3> QED
      BY <2>2, <2>6, <2>10, <3>1
  <2>14. AddsUp(b)
    BY <2>2, <2>8, <2>9, <2>12, <2>13, <2>15 DEF AddsUp
  <2> QED
    BY <2>14 DEF b
<1> QED
  BY <1>4, <1>5

-----------------------------------------------------------------------------
(* The calls of Calculate, which share the quotes.                           *)

Quotes == [fee : Fees \cap Nat, expires : 0..MaxPriceTime + QuoteTTL]
Calls == [pc : {"idle", "lookup", "check", "estimate", "put", "tax", "done"},
          region : Region \cup {NoAddress}, bypass : BOOLEAN, entry : Quotes \cup {NoQuote},
          fee : {0} \cup (Fees \cap Nat), tax : {0} \cup (TaxAmounts \cap Nat),
          since : 0..MaxPriceTime, expiry : 0..MaxPriceTime + QuoteTTL]

\* A call asks the cache of an address, unless it bypasses it; once it has a quote, that is
\* in force.
CallOK(call, now) ==
    /\ call.pc \in {"lookup", "check", "estimate", "put"} => call.region \in Region
    /\ call.pc \in {"lookup", "check"} => ~call.bypass
    /\ call.pc = "check" => call.entry # NoQuote
    /\ call.pc = "put" => call.fee \in Fees \cap Nat
    /\ call.since <= now
    /\ call.pc \in {"tax", "done"} =>
          call.expiry >= call.since + (IF call.bypass THEN QuoteTTL ELSE 0)

PriceInv ==
    /\ cart \in Carts /\ priceTime \in 0..MaxPriceTime
    /\ quotes \in [Region -> Quotes \cup {NoQuote}]
    /\ pricing \in [PriceCall -> Calls]
    /\ \A c \in PriceCall : CallOK(pricing[c], priceTime) /\ (pricing[c].pc # "idle" => ~Refused)

LEMMA PriceFacts ==
    /\ NoPricing \in Calls /\ NoPricing.pc = "idle" /\ NoPricing.since = 0
    /\ NoQuote \notin Quotes
    /\ \A now \in Nat : CallOK(NoPricing, now)
    /\ \A fee \in Fees : ~(fee < 0) => fee \in Fees \cap Nat
    /\ \A tax \in TaxAmounts : ~(tax < 0) => tax \in TaxAmounts \cap Nat
<1>1. MaxPriceTime \in Nat /\ QuoteTTL \in Nat /\ Fees \subseteq Int /\ TaxAmounts \subseteq Int
  BY PricingAssumption
<1>2. NoPricing \in Calls
  BY <1>1 DEF NoPricing, Calls
<1>3. NoPricing.pc = "idle" /\ NoPricing.since = 0
  BY DEF NoPricing
<1>4. NoQuote \notin Quotes
  BY <1>1 DEF NoQuote, Quotes
<1>5. \A now \in Nat : CallOK(NoPricing, now)
  BY <1>3 DEF CallOK
<1>6. /\ \A fee \in Fees : ~(fee < 0) => fee \in Fees \cap Nat
      /\ \A tax \in TaxAmounts : ~(tax < 0) => tax \in TaxAmounts \cap Nat
  BY <1>1
<1> QED
  BY <1>2, <1>3, <1>4, <1>5, <1>6

LEMMA RefusedKept == ASSUME UNCHANGED cart PROVE Refused' <=> Refused
BY DEF Refused, Subtotals

LEMMA InitPriceInv == PricingInit => PriceInv
<1> SUFFICES ASSUME PricingInit PROVE PriceInv
  OBVIOUS
<1>1. MaxPriceTime \in Nat /\ 0 \in Nat
  BY PricingAssumption
<1> QED
  BY <1>1, PriceFacts DEF PricingInit, PriceInv

\* A step of one call.
LEMMA OnePriced ==
    ASSUME PriceInv, NEW c \in PriceCall, NEW call \in Calls, CallOK(call, priceTime),
           pricing' = [pricing EXCEPT ![c] = call], call.pc # "idle" => ~Refused,
           quotes' \in [Region -> Quotes \cup {NoQuote}], UNCHANGED <<cart, priceTime>>
    PROVE  PriceInv'
<1>1. pricing' \in [PriceCall -> Calls]
  BY DEF PriceInv
<1>2. \A d \in PriceCall : pricing'[d] = IF d = c THEN call ELSE pricing[d]
  BY DEF PriceInv
<1>3. Refused' <=> Refused
  BY RefusedKept
<1>4. ASSUME NEW d \in PriceCall
      PROVE  CallOK(pricing'[d], priceTime') /\ (pricing'[d].pc # "idle" => ~Refused')
  <2>1. CASE d = c
    BY <1>2, <1>3, <2>1
  <2>2. CASE d # c
    BY <1>2, <1>3, <2>2 DEF PriceInv
  <2> QED
    BY <2>1, <2>2
<1>5. cart' \in Carts /\ priceTime' \in 0..MaxPriceTime
  BY DEF PriceInv
<1> QED
  BY <1>1, <1>4, <1>5 DEF PriceInv

LEMMA CallBegun ==
    ASSUME NEW r \in Calls, NEW region \in Region \cup {NoAddress}, NEW bypass \in BOOLEAN,
           NEW since \in 0..MaxPriceTime, NEW expiry \in 0..MaxPriceTime + QuoteTTL,
           NEW pc \in {"idle", "lookup", "check", "estimate", "put", "tax", "done"}
    PROVE  [r EXCEPT !.region = region, !.bypass = bypass, !.since = since,
                     !.expiry = expiry, !.pc = pc] \in Calls
<1> DEFINE a == [r EXCEPT !.region = region, !.since = since]
           b == [a EXCEPT !.bypass = bypass]
           c == [b EXCEPT !.expiry = expiry, !.pc = pc]
<1>1. a \in Calls
  BY DEF Calls
<1>2. b \in Calls
  <2> HIDE DEF a
  <2> QED
    BY <1>1 DEF Calls
<1>3. c \in Calls
  <2> HIDE DEF b
  <2> QED
    BY <1>2 DEF Calls
<1>4. c = [r EXCEPT !.region = region, !.bypass = bypass, !.since = since,
                    !.expiry = expiry, !.pc = pc]
  BY DEF Calls
<1> QED
  BY <1>3, <1>4, Zenon

LEMMA CalculateKept ==
    ASSUME PriceInv, NEW c \in PriceCall, NEW region \in Region \cup {NoAddress}, NEW bypass \in BOOLEAN,
           Calculate(c, region, bypass)
    PROVE  PriceInv'
<1> DEFINE call == [NoPricing EXCEPT !.region = region, !.bypass = bypass, !.since = priceTime,
             !.expiry = IF NeedsShipping(region) THEN 0 ELSE MaxPriceTime + QuoteTTL,
             !.pc = IF ~NeedsShipping(region) THEN "tax" ELSE IF bypass THEN "estimate" ELSE "lookup"]
<1>1. /\ pricing' = [pricing EXCEPT ![c] = call] /\ ~Refused
      /\ quotes' = quotes /\ UNCHANGED <<cart, priceTime>>
  BY DEF Calculate
<1>2. MaxPriceTime \in Nat /\ QuoteTTL \in Nat /\ priceTime \in 0..MaxPriceTime
  BY PricingAssumption DEF PriceInv
<1>3. call \in Calls
  <2> DEFINE expiry == IF NeedsShipping(region) THEN 0 ELSE MaxPriceTime + QuoteTTL
             pc == IF ~NeedsShipping(region) THEN "tax" ELSE IF bypass THEN "estimate" ELSE "lookup"
  <2>1. /\ expiry \in 0..MaxPriceTime + QuoteTTL
        /\ pc \in {"idle", "lookup", "check", "estimate", "put", "tax", "done"}
    BY <1>2
  <2>2. priceTime \in 0..MaxPriceTime /\ NoPricing \in Calls
    BY <1>2, PriceFacts
  <2>3. call = [NoPricing EXCEPT !.region = region, !.bypass = bypass, !.since = priceTime,
                                 !.expiry = expiry, !.pc = pc]
    OBVIOUS
  <2> HIDE DEF expiry, pc, call
  <2>4. [NoPricing EXCEPT !.region = region, !.bypass = bypass, !.since = priceTime,
                          !.expiry = expiry, !.pc = pc] \in Calls
    BY <2>1, <2>2, CallBegun, Zenon
  <2> QED
    BY <2>3, <2>4, Zenon
<1>4. /\ call.pc = (IF ~NeedsShipping(region) THEN "tax" ELSE IF bypass THEN "estimate" ELSE "lookup")
      /\ call.region = region /\ call.bypass = bypass /\ call.since = priceTime
      /\ call.expiry = (IF NeedsShipping(region) THEN 0 ELSE MaxPriceTime + QuoteTTL)
  BY PriceFacts DEF Calls
<1> HIDE DEF call
<1>5. NeedsShipping(region) => region \in Region
  BY DEF NeedsShipping
<1>6. CallOK(call, priceTime)
  BY <1>2, <1>4, <1>5 DEF CallOK
<1>7. quotes' \in [Region -> Quotes \cup {NoQuote}]
  BY <1>1 DEF PriceInv
<1> QED
  BY <1>1, <1>3, <1>6, <1>7, OnePriced

LEMMA CallTypes ==
    ASSUME PriceInv, NEW c \in PriceCall
    PROVE  /\ pricing[c] \in Calls /\ CallOK(pricing[c], priceTime)
           /\ pricing[c].pc # "idle" => ~Refused
           /\ priceTime \in 0..MaxPriceTime /\ MaxPriceTime \in Nat /\ QuoteTTL \in Nat
           /\ priceTime \in Nat
<1>1. priceTime \in 0..MaxPriceTime /\ MaxPriceTime \in Nat /\ QuoteTTL \in Nat
  BY PricingAssumption DEF PriceInv
<1>2. priceTime \in Nat
  BY <1>1
<1> QED
  BY <1>1, <1>2 DEF PriceInv

LEMMA GetQuoteKept == ASSUME PriceInv, NEW c \in PriceCall, GetQuote(c) PROVE PriceInv'
<1> DEFINE old == pricing[c]
           entry == quotes[old.region]
           call == [old EXCEPT !.entry = entry, !.pc = IF entry = NoQuote THEN "estimate" ELSE "check"]
<1>1. /\ old.pc = "lookup" /\ pricing' = [pricing EXCEPT ![c] = call]
      /\ quotes' = quotes /\ UNCHANGED <<cart, priceTime>>
  BY DEF GetQuote, PriceInv
<1>2. /\ old \in Calls /\ CallOK(old, priceTime) /\ ~Refused
      /\ old.region \in Region /\ ~old.bypass /\ old.since <= priceTime
  BY <1>1, CallTypes DEF CallOK
<1>3. entry \in Quotes \cup {NoQuote}
  BY <1>2 DEF PriceInv
<1>4. call \in Calls
  BY <1>2, <1>3 DEF Calls
<1>5. /\ call.pc = (IF entry = NoQuote THEN "estimate" ELSE "check") /\ call.entry = entry
      /\ call.region = old.region /\ call.bypass = old.bypass /\ call.since = old.since
  BY <1>2 DEF Calls
<1>6. CallOK(call, priceTime)
  <2> HIDE DEF call, entry, old
  <2> QED
    BY <1>2, <1>5 DEF CallOK
<1>7. quotes' \in [Region -> Quotes \cup {NoQuote}]
  BY <1>1 DEF PriceInv
<1> HIDE DEF call
<1> QED
  BY <1>1, <1>2, <1>4, <1>6, <1>7, OnePriced

LEMMA CheckQuoteKept == ASSUME PriceInv, NEW c \in PriceCall, CheckQuote(c) PROVE PriceInv'
<1> DEFINE old == pricing[c]
           expired == [old EXCEPT !.pc = "estimate", !.entry = NoQuote]
           found == [old EXCEPT !.pc = "tax", !.fee = old.entry.fee, !.expiry = old.entry.expires,
                                !.entry = NoQuote]
<1>1. old.pc = "check" /\ UNCHANGED <<cart, priceTime>>
  BY DEF CheckQuote
<1>2. /\ old \in Calls /\ CallOK(old, priceTime) /\ ~Refused
      /\ old.region \in Region /\ ~old.bypass /\ old.entry # NoQuote /\ old.since <= priceTime
  BY <1>1, CallTypes DEF CallOK
<1>3. old.entry \in Quotes /\ old.since \in Nat /\ priceTime \in Nat
  BY <1>2, CallTypes DEF Calls
<1>4. CASE priceTime > old.entry.expires
  <2>1. /\ quotes' = [quotes EXCEPT ![old.region] = NoQuote]
        /\ pricing' = [pricing EXCEPT ![c] = expired]
    BY <1>4 DEF CheckQuote, PriceInv
  <2>2. expired \in Calls
    BY <1>2 DEF Calls
  <2>3. /\ expired.pc = "estimate" /\ expired.region = old.region /\ expired.since = old.since
    BY <1>2 DEF Calls
  <2>4. CallOK(expired, priceTime)
    <3> HIDE DEF expired, old
    <3> QED
      BY <1>2, <2>3 DEF CallOK
  <2>5. quotes' \in [Region -> Quotes \cup {NoQuote}]
    BY <2>1 DEF PriceInv
  <2> HIDE DEF expired
  <2> QED
    BY <1>1, <1>2, <2>1, <2>2, <2>4, <2>5, OnePriced
<1>5. CASE ~(priceTime > old.entry.expires)
  <2>1. quotes' = quotes /\ pricing' = [pricing EXCEPT ![c] = found]
    BY <1>5 DEF CheckQuote, PriceInv
  <2>2. old.entry.fee \in Fees \cap Nat /\ old.entry.expires \in 0..MaxPriceTime + QuoteTTL
    BY <1>3 DEF Quotes
  <2>3. found \in Calls
    BY <1>2, <2>2 DEF Calls
  <2>4. /\ found.pc = "tax" /\ found.expiry = old.entry.expires /\ found.bypass = old.bypass
        /\ found.since = old.since
    BY <1>2 DEF Calls
  <2>5. old.entry.expires >= old.since
    BY <1>2, <1>3, <1>5, <2>2
  <2>6. CallOK(found, priceTime)
    <3> HIDE DEF found, old
    <3>1. old.since + 0 = old.since
      BY <1>3
    <3> QED
      BY <1>2, <2>4, <2>5, <3>1 DEF CallOK
  <2>7. quotes' \in [Region -> Quotes \cup {NoQuote}]
    BY <2>1 DEF PriceInv
  <2> HIDE DEF found
  <2> QED
    BY <1>1, <1>2, <2>1, <2>3, <2>6, <2>7, OnePriced
<1> QED
  BY <1>4, <1>5

LEMMA EstimateKept ==
    ASSUME PriceInv, NEW c \in PriceCall, NEW fee \in Fees, EstimateShipping(c, fee) PROVE PriceInv'
<1> DEFINE old == pricing[c]
           quoted == [old EXCEPT !.pc = "put", !.fee = fee]
<1>1. /\ old.pc = "estimate" /\ quotes' = quotes /\ UNCHANGED <<cart, priceTime>>
      /\ pricing' = [pricing EXCEPT ![c] = IF fee < 0 THEN NoPricing ELSE quoted]
  BY DEF EstimateShipping, PriceInv
<1>2. /\ old \in Calls /\ CallOK(old, priceTime) /\ ~Refused
      /\ old.region \in Region /\ old.since <= priceTime
  BY <1>1, CallTypes DEF CallOK
<1>3. quotes' \in [Region -> Quotes \cup {NoQuote}]
  BY <1>1 DEF PriceInv
<1>4. CASE fee < 0
  <2>1. NoPricing \in Calls /\ CallOK(NoPricing, priceTime) /\ NoPricing.pc = "idle"
    BY CallTypes, PriceFacts
  <2>2. pricing' = [pricing EXCEPT ![c] = NoPricing]
    BY <1>1, <1>4
  <2> QED
    BY <1>1, <1>3, <2>1, <2>2, OnePriced
<1>5. CASE ~(fee < 0)
  <2>1. quoted \in Calls
    BY <1>2, <1>5, PriceFacts DEF Calls
  <2>2. /\ quoted.pc = "put" /\ quoted.region = old.region /\ quoted.since = old.since
        /\ quoted.fee \in Fees \cap Nat
    BY <1>2, <1>5, PriceFacts DEF Calls
  <2>3. CallOK(quoted, priceTime)
    <3> HIDE DEF quoted, old
    <3> QED
      BY <1>2, <2>2 DEF CallOK
  <2> HIDE DEF quoted
  <2> QED
    BY <1>1, <1>2, <1>3, <1>5, <2>1, <2>3, OnePriced
<1> QED
  BY <1>4, <1>5

LEMMA PutQuoteKept == ASSUME PriceInv, NEW c \in PriceCall, PutQuote(c) PROVE PriceInv'
<1> DEFINE old == pricing[c]
           call == [old EXCEPT !.pc = "tax", !.expiry = priceTime + QuoteTTL]
           quote == [fee |-> old.fee, expires |-> priceTime + QuoteTTL]
<1>1. /\ old.pc = "put" /\ UNCHANGED <<cart, priceTime>>
      /\ quotes' = [quotes EXCEPT ![old.region] = quote]
      /\ pricing' = [pricing EXCEPT ![c] = call]
  BY DEF PutQuote, PriceInv
<1>2. /\ old \in Calls /\ CallOK(old, priceTime) /\ ~Refused
      /\ old.region \in Region /\ old.since <= priceTime /\ old.fee \in Fees \cap Nat
      /\ priceTime \in 0..MaxPriceTime /\ MaxPriceTime \in Nat /\ QuoteTTL \in Nat
  BY <1>1, CallTypes DEF CallOK
<1>3. priceTime + QuoteTTL \in 0..MaxPriceTime + QuoteTTL
  BY <1>2
<1>4. call \in Calls
  BY <1>2, <1>3 DEF Calls
<1>5. /\ call.pc = "tax" /\ call.expiry = priceTime + QuoteTTL /\ call.bypass = old.bypass
      /\ call.since = old.since /\ old.since \in Nat
  BY <1>2 DEF Calls
<1>6. CallOK(call, priceTime)
  <2> HIDE DEF call, old
  <2>1. /\ priceTime + QuoteTTL >= old.since + QuoteTTL
        /\ priceTime + QuoteTTL >= old.since + 0
    BY <1>2, <1>5
  <2> QED
    BY <1>2, <1>5, <2>1 DEF CallOK
<1>7. quotes' \in [Region -> Quotes \cup {NoQuote}]
  <2>1. quote \in Quotes
    BY <1>2, <1>3 DEF Quotes
  <2> HIDE DEF quote
  <2> QED
    BY <1>1, <2>1 DEF PriceInv
<1> HIDE DEF call
<1> QED
  BY <1>1, <1>2, <1>4, <1>6, <1>7, OnePriced

LEMMA TaxKept ==
    ASSUME PriceInv, NEW c \in PriceCall, NEW tax \in TaxAmounts, CalculateTax(c, tax) PROVE PriceInv'
<1> DEFINE old == pricing[c]
           taxed == [old EXCEPT !.pc = "done", !.tax = tax]
<1>1. /\ old.pc = "tax" /\ quotes' = quotes /\ UNCHANGED <<cart, priceTime>>
      /\ pricing' = [pricing EXCEPT ![c] = IF tax < 0 THEN NoPricing ELSE taxed]
  BY DEF CalculateTax, PriceInv
<1>2. /\ old \in Calls /\ CallOK(old, priceTime) /\ ~Refused
      /\ old.since <= priceTime
      /\ old.expiry >= old.since + (IF old.bypass THEN QuoteTTL ELSE 0)
  BY <1>1, CallTypes DEF CallOK
<1>3. quotes' \in [Region -> Quotes \cup {NoQuote}]
  BY <1>1 DEF PriceInv
<1>4. CASE tax < 0
  <2>1. NoPricing \in Calls /\ CallOK(NoPricing, priceTime) /\ NoPricing.pc = "idle"
    BY CallTypes, PriceFacts
  <2>2. pricing' = [pricing EXCEPT ![c] = NoPricing]
    BY <1>1, <1>4
  <2> QED
    BY <1>1, <1>3, <2>1, <2>2, OnePriced
<1>5. CASE ~(tax < 0)
  <2>1. taxed \in Calls
    BY <1>2, <1>5, PriceFacts DEF Calls
  <2>2. /\ taxed.pc = "done" /\ taxed.bypass = old.bypass /\ taxed.since = old.since
        /\ taxed.expiry = old.expiry
    BY <1>2 DEF Calls
  <2>3. CallOK(taxed, priceTime)
    <3> HIDE DEF taxed, old
    <3> QED
      BY <1>2, <2>2 DEF CallOK
  <2> HIDE DEF taxed
  <2> QED
    BY <1>1, <1>2, <1>3, <1>5, <2>1, <2>3, OnePriced
<1> QED
  BY <1>4, <1>5

LEMMA ReturnKept == ASSUME PriceInv, NEW c \in PriceCall, ReturnPrices(c) PROVE PriceInv'
<1>1. NoPricing \in Calls /\ CallOK(NoPricing, priceTime) /\ NoPricing.pc = "idle"
  BY CallTypes, PriceFacts
<1>2. /\ pricing' = [pricing EXCEPT ![c] = NoPricing] /\ UNCHANGED <<cart, priceTime>>
      /\ quotes' \in [Region -> Quotes \cup {NoQuote}]
  BY DEF ReturnPrices, PriceInv
<1> QED
  BY <1>1, <1>2, OnePriced

LEMMA PriceTickKept == ASSUME PriceInv, PriceTick PROVE PriceInv'
<1>1. /\ priceTime' = priceTime + 1 /\ priceTime' \in 0..MaxPriceTime
      /\ priceTime \in Nat /\ UNCHANGED <<cart, quotes, pricing>>
  BY PricingAssumption DEF PriceTick, PriceInv
<1>2. Refused' <=> Refused
  BY <1>1, RefusedKept
<1>3. ASSUME NEW c \in PriceCall PROVE CallOK(pricing'[c], priceTime')
  <2>1. CallOK(pricing[c], priceTime) /\ pricing[c] \in Calls
    BY DEF PriceInv
  <2>2. pricing[c].since \in Nat
    BY <2>1 DEF Calls
  <2>3. pricing[c].since <= priceTime + 1
    BY <1>1, <2>1, <2>2 DEF CallOK
  <2>4. CallOK(pricing[c], priceTime + 1)
    BY <2>1, <2>3 DEF CallOK
  <2> QED
    BY <1>1, <2>4
<1> QED
  BY <1>1, <1>2, <1>3 DEF PriceInv

LEMMA NextPriceInv == PriceInv /\ [PricingNext]_priceVars => PriceInv'
<1> SUFFICES ASSUME PriceInv, [PricingNext]_priceVars PROVE PriceInv'
  OBVIOUS
<1>1. CASE UNCHANGED priceVars
  <2>1. UNCHANGED <<cart, quotes, pricing, priceTime>>
    BY <1>1 DEF priceVars
  <2>2. Refused' <=> Refused
    BY <2>1, RefusedKept
  <2> QED
    BY <2>1, <2>2 DEF PriceInv
<1>2. CASE PriceTick
  BY <1>2, PriceTickKept
<1>3. ASSUME NEW c \in PriceCall, NEW region \in Region \cup {NoAddress}, NEW bypass \in BOOLEAN,
             Calculate(c, region, bypass)
      PROVE  PriceInv'
  BY <1>3, CalculateKept
<1>4. ASSUME NEW c \in PriceCall,
             GetQuote(c) \/ CheckQuote(c) \/ PutQuote(c) \/ ReturnPrices(c)
      PROVE  PriceInv'
  BY <1>4, GetQuoteKept, CheckQuoteKept, PutQuoteKept, ReturnKept
<1>5. ASSUME NEW c \in PriceCall, NEW fee \in Fees, EstimateShipping(c, fee) PROVE PriceInv'
  BY <1>5, EstimateKept
<1>6. ASSUME NEW c \in PriceCall, NEW tax \in TaxAmounts, CalculateTax(c, tax) PROVE PriceInv'
  BY <1>6, TaxKept
<1> QED
  BY <1>1, <1>2, <1>3, <1>4, <1>5, <1>6 DEF PricingNext

\* The quotes of the cache, and what the calls of Calculate have got, have their types.
THEOREM PricesTyped == PricingSpec => []PricingTypeOK
<1>1. PriceInv => PricingTypeOK
  <2> SUFFICES ASSUME PriceInv PROVE PricingTypeOK
    OBVIOUS
  <2>1. quotes \in [Region -> [fee : Fees \cap Nat, expires : 0..MaxPriceTime + QuoteTTL] \cup {NoQuote}]
    BY DEF PriceInv, Quotes
  <2>2. \A c \in PriceCall : pricing[c] \in Calls
    BY DEF PriceInv
  <2> QED
    BY <2>1, <2>2 DEF PricingTypeOK, Calls
<1> QED
  BY <1>1, InitPriceInv, NextPriceInv, PTL DEF PricingSpec

\* What Calculate answers adds up, to the last unit, unless a product leaves int64, whatever
\* the cart; its shipping fee is in force, whichever calls fill, expire and delete the cached
\* quotes meanwhile.
THEOREM PricesRight == PricingSpec => []PricesSound
<1>1. PriceInv => PricesSound
  <2> SUFFICES ASSUME PriceInv, NEW c \in PriceCall, pricing[c].pc = "done"
               PROVE  /\ LET b == Breakdown(pricing[c].tax, pricing[c].fee)
                         IN  WithinInt64(b) => AddsUp(b)
                      /\ QuoteInForce(c)
    BY DEF PricesSound
  <2>1. pricing[c] \in Calls /\ CallOK(pricing[c], priceTime) /\ ~Refused /\ cart \in Carts
    BY DEF PriceInv
  <2>2. pricing[c].tax \in Nat /\ pricing[c].fee \in Nat
    BY <2>1 DEF Calls
  <2>3. QuoteInForce(c)
    BY <2>1 DEF CallOK, QuoteInForce
  <2>4. ASSUME WithinInt64(Breakdown(pricing[c].tax, pricing[c].fee))
        PROVE  AddsUp(Breakdown(pricing[c].tax, pricing[c].fee))
    BY <2>1, <2>2, <2>4, BreakdownAddsUp
  <2> QED
    BY <2>3, <2>4
<1> QED
  BY <1>1, InitPriceInv, NextPriceInv, PTL DEF PricingSpec

=============================================================================
