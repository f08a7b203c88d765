------------------------------ MODULE Ordered ------------------------------
(***************************************************************************)
(* The members of a set of numbers in order, and the members of a sequence *)
(* that belong to a set, in their order.  They say what SetToSortSeq and   *)
(* SelectSeq compute without recursion, so that it can be proved what they *)
(* return.                                                                 *)
(***************************************************************************)
EXTENDS Integers, Sequences, FiniteSets, FiniteSetTheorems, TLAPS

\* How many members of S are at most n.
Rank(S, n) == Cardinality({m \in S : m <= n})

Sorted(S) == [k \in 1..Cardinality(S) |-> CHOOSE n \in S : Rank(S, n) = k]

Keep(s, S) ==
    LET at == {n \in DOMAIN s : s[n] \in S}
    IN  [k \in 1..Cardinality(at) |-> s[Sorted(at)[k]]]

-----------------------------------------------------------------------------
\* The rank of a member counts it, and grows with it.
LEMMA RankType ==
  ASSUME NEW S \in SUBSET Int, IsFiniteSet(S), NEW n \in S
  PROVE  Rank(S, n) \in 1..Cardinality(S)
  <1> DEFINE T == {m \in S : m <= n}
  <1>1. T \in SUBSET S /\ n \in T
    OBVIOUS
  <1>2. IsFiniteSet(T) /\ Cardinality(T) <= Cardinality(S)
    BY <1>1, FS_Subset
  <1>3. Cardinality(T) \in Nat /\ Cardinality(S) \in Nat /\ Cardinality(T) # 0
    BY <1>1, <1>2, FS_CardinalityType, FS_EmptySet
  <1> QED BY <1>2, <1>3 DEF Rank

LEMMA RankGrows ==
  ASSUME NEW S \in SUBSET Int, IsFiniteSet(S), NEW m \in S, NEW n \in S, m < n
  PROVE  Rank(S, m) < Rank(S, n)
  <1> DEFINE A == {k \in S : k <= m}
             B == {k \in S : k <= n}
  <1>0. \A k \in S : k \in Int
    OBVIOUS
  <1>1. A \in SUBSET B /\ n \in B /\ n \notin A /\ B \in SUBSET S
    <2>1. m \in Int /\ n \in Int /\ n <= n /\ ~(n <= m)
      BY <1>0
    <2>2. \A k \in S : k <= m => k <= n
      BY <1>0, <2>1
    <2> QED BY <2>1, <2>2, Zenon
  <1>2. IsFiniteSet(B)
    BY <1>1, FS_Subset
  <1>3. IsFiniteSet(A) /\ Cardinality(A) <= Cardinality(B) /\ Cardinality(B) # Cardinality(A)
    BY <1>1, <1>2, FS_Subset
  <1>4. Cardinality(A) \in Nat /\ Cardinality(B) \in Nat
    BY <1>2, <1>3, FS_CardinalityType
  <1> QED BY <1>3, <1>4 DEF Rank

\* Every rank is taken: ranks are different, and there are as many as members.
LEMMA RankOnto ==
  ASSUME NEW S \in SUBSET Int, IsFiniteSet(S), NEW k \in 1..Cardinality(S)
  PROVE  \E n \in S : Rank(S, n) = k
  <1> DEFINE f == [n \in S |-> Rank(S, n)]
             T == 1..Cardinality(S)
  <1>0. Cardinality(S) \in Nat
    BY FS_CardinalityType
  <1>1. f \in [S -> T]
    BY RankType
  <1>2. \A m, n \in S : f[m] = f[n] => m = n
    <2> SUFFICES ASSUME NEW m \in S, NEW n \in S, m # n PROVE f[m] # f[n]
      OBVIOUS
    <2>1. f[m] \in Int /\ f[n] \in Int
      BY <1>0, <1>1
    <2>2. CASE m < n
      BY <2>1, <2>2, RankGrows
    <2>3. CASE n < m
      BY <2>1, <2>3, RankGrows
    <2> QED BY <2>2, <2>3
  <1>3. IsFiniteSet(T) /\ Cardinality(T) = Cardinality(S)
    BY <1>0, FS_Interval
  <1> HIDE DEF f, T
  <1>4. f \in Injection(S, T)
    BY <1>1, <1>2 DEF Injection, IsInjective
  <1>5. f \in Surjection(S, T)
    BY <1>3, <1>4, FS_Injection
  <1>6. \A t \in T : \E n \in S : f[n] = t
    BY <1>5 DEF Surjection
  <1> QED BY <1>6 DEF f, T

\* Sorted(S) lists the members of S, each once, in increasing order.
LEMMA SortedProps ==
  ASSUME NEW S \in SUBSET Int, IsFiniteSet(S)
  PROVE  /\ Cardinality(S) \in Nat
         /\ Sorted(S) \in [1..Cardinality(S) -> S]
         /\ \A i, j \in 1..Cardinality(S) : i < j => Sorted(S)[i] < Sorted(S)[j]
         /\ \A n \in S : \E k \in 1..Cardinality(S) : Sorted(S)[k] = n
  <1>0. Cardinality(S) \in Nat
    BY FS_CardinalityType
  <1>1. ASSUME NEW k \in 1..Cardinality(S) PROVE Sorted(S)[k] \in S /\ Rank(S, Sorted(S)[k]) = k
    BY RankOnto DEF Sorted
  <1>2. Sorted(S) \in [1..Cardinality(S) -> S]
    BY <1>1 DEF Sorted
  <1>3. ASSUME NEW i \in 1..Cardinality(S), NEW j \in 1..Cardinality(S), i < j
        PROVE  Sorted(S)[i] < Sorted(S)[j]
    <2>1. Sorted(S)[i] \in Int /\ Sorted(S)[j] \in Int /\ i \in Int /\ j \in Int
      <3>1. Sorted(S)[i] \in S /\ Sorted(S)[j] \in S
        BY <1>1
      <3>2. \A n \in S : n \in Int
        OBVIOUS
      <3>3. i \in Int /\ j \in Int
        BY <1>0
      <3> QED BY <3>1, <3>2, <3>3, Zenon
    <2>2. CASE Sorted(S)[j] < Sorted(S)[i]
      <3>1. j < i
        BY <1>1, <2>2, RankGrows
      <3> QED BY <1>3, <2>1, <3>1
    <2>3. CASE Sorted(S)[j] = Sorted(S)[i]
      BY <1>1, <1>3, <2>1, <2>3
    <2> QED BY <2>1, <2>2, <2>3
  <1>4. ASSUME NEW n \in S PROVE \E k \in 1..Cardinality(S) : Sorted(S)[k] = n
    <2>1. Rank(S, n) \in 1..Cardinality(S)
      BY RankType
    <2> DEFINE m == Sorted(S)[Rank(S, n)]
    <2>2. m \in S /\ Rank(S, m) = Rank(S, n)
      BY <1>1, <2>1
    <2> HIDE DEF m
    <2>3. m \in Int /\ n \in Int /\ Rank(S, n) \in Int
      BY <2>1, <2>2, <1>0
    <2>4. m = n
      <3>1. CASE m < n
        <4>1. Rank(S, m) < Rank(S, n)
          BY <2>2, <3>1, RankGrows
        <4> QED BY <2>2, <2>3, <4>1
      <3>2. CASE n < m
        <4>1. Rank(S, n) < Rank(S, m)
          BY <2>2, <3>2, RankGrows
        <4> QED BY <2>2, <2>3, <4>1
      <3> QED BY <2>3, <3>1, <3>2
    <2> QED BY <2>1, <2>4 DEF m
  <1> QED BY <1>0, <1>2, <1>3, <1>4

\* A finite set that is not empty has a greatest member.
LEMMA Greatest ==
  ASSUME NEW S \in SUBSET Int, IsFiniteSet(S), S # {}
  PROVE  \E m \in S : \A n \in S : n <= m
  <1> DEFINE c == Cardinality(S)
  <1>1. /\ c \in Nat /\ Sorted(S) \in [1..c -> S]
        /\ \A i, j \in 1..c : i < j => Sorted(S)[i] < Sorted(S)[j]
        /\ \A n \in S : \E k \in 1..c : Sorted(S)[k] = n
    BY SortedProps
  <1>2. \A n \in S : n \in Int
    OBVIOUS
  <1>3. c # 0
    BY FS_EmptySet
  <1> HIDE DEF c
  <1>4. c \in 1..c /\ Sorted(S)[c] \in S
    BY <1>1, <1>3
  <1>5. ASSUME NEW n \in S PROVE n <= Sorted(S)[c]
    <2>1. PICK k \in 1..c : Sorted(S)[k] = n
      BY <1>1
    <2>2. CASE k = c
      BY <1>2, <2>1, <2>2
    <2>3. CASE k < c
      <3>1. Sorted(S)[k] < Sorted(S)[c]
        BY <1>1, <1>4, <2>3
      <3>2. n \in Int /\ Sorted(S)[c] \in Int
        BY <1>2, <1>4
      <3> QED BY ONLY <2>1, <3>1, <3>2
    <2> QED BY <1>1, <2>1, <2>2, <2>3
  <1> QED BY <1>4, <1>5

\* Keep(s, S) is a sequence of the members of s that are in S.
LEMMA KeepProps ==
  ASSUME NEW T, NEW s \in Seq(T), NEW S
  PROVE  /\ Keep(s, S) \in Seq(T)
         /\ \A k \in DOMAIN Keep(s, S) :
              \E n \in DOMAIN s : Keep(s, S)[k] = s[n] /\ s[n] \in S
         /\ \A n \in DOMAIN s : s[n] \in S => \E k \in DOMAIN Keep(s, S) : Keep(s, S)[k] = s[n]
  <1> DEFINE at == {n \in DOMAIN s : s[n] \in S}
  <1>1. Len(s) \in Nat /\ DOMAIN s = 1..Len(s)
    OBVIOUS
  <1>2. IsFiniteSet(1..Len(s)) /\ at \in SUBSET (1..Len(s)) /\ at \in SUBSET Int
    BY <1>1, FS_Interval
  <1>3. IsFiniteSet(at)
    BY <1>2, FS_Subset
  <1>4. /\ Cardinality(at) \in Nat
        /\ Sorted(at) \in [1..Cardinality(at) -> at]
        /\ \A n \in at : \E k \in 1..Cardinality(at) : Sorted(at)[k] = n
    BY <1>2, <1>3, SortedProps
  <1>5. Keep(s, S) = [k \in 1..Cardinality(at) |-> s[Sorted(at)[k]]]
    BY DEF Keep
  <1>6. \A n \in at : n \in DOMAIN s /\ s[n] \in S /\ s[n] \in T
    BY <1>1
  <1>7. \A n \in DOMAIN s : s[n] \in S => n \in at
    OBVIOUS
  <1> HIDE DEF at
  <1>8. Keep(s, S) \in [1..Cardinality(at) -> T] /\ DOMAIN Keep(s, S) = 1..Cardinality(at)
    BY <1>4, <1>5, <1>6
  <1>9. Keep(s, S) \in Seq(T)
    BY <1>4, <1>8
  <1>10. ASSUME NEW k \in DOMAIN Keep(s, S)
         PROVE \E n \in DOMAIN s : Keep(s, S)[k] = s[n] /\ s[n] \in S
    BY <1>4, <1>5, <1>6, <1>8
  <1>11. ASSUME NEW n \in DOMAIN s, s[n] \in S
         PROVE \E k \in DOMAIN Keep(s, S) : Keep(s, S)[k] = s[n]
    BY <1>4, <1>5, <1>7, <1>8, <1>11
  <1> QED BY <1>9, <1>10, <1>11

\* What occurs once in s occurs once in Keep(s, S).
LEMMA KeepInjective ==
  ASSUME NEW T, NEW s \in Seq(T), NEW S,
         \A m, n \in DOMAIN s : s[m] = s[n] /\ s[n] \in S => m = n
  PROVE  \A j, k \in DOMAIN Keep(s, S) : Keep(s, S)[j] = Keep(s, S)[k] => j = k
  <1> DEFINE at == {n \in DOMAIN s : s[n] \in S}
  <1>1. Len(s) \in Nat /\ DOMAIN s = 1..Len(s)
    OBVIOUS
  <1>2. IsFiniteSet(1..Len(s)) /\ at \in SUBSET (1..Len(s)) /\ at \in SUBSET Int
    BY <1>1, FS_Interval
  <1>3. IsFiniteSet(at)
    BY <1>2, FS_Subset
  <1>4. /\ Cardinality(at) \in Nat
        /\ Sorted(at) \in [1..Cardinality(at) -> at]
        /\ \A i, j \in 1..Cardinality(at) : i < j => Sorted(at)[i] < Sorted(at)[j]
    BY <1>2, <1>3, SortedProps
  <1>5. Keep(s, S) = [k \in 1..Cardinality(at) |-> s[Sorted(at)[k]]]
    BY DEF Keep
  <1>6. \A m, n \in at : s[m] = s[n] => m = n
    OBVIOUS
  <1>7. \A n \in at : n \in Int
    BY <1>1
  <1> HIDE DEF at
  <1> SUFFICES ASSUME NEW j \in DOMAIN Keep(s, S), NEW k \in DOMAIN Keep(s, S),
                      Keep(s, S)[j] = Keep(s, S)[k]
               PROVE  j = k
    OBVIOUS
  <1>8. j \in 1..Cardinality(at) /\ k \in 1..Cardinality(at)
    BY <1>5
  <1>9. Sorted(at)[j] \in at /\ Sorted(at)[k] \in at
    BY <1>4, <1>8
  <1>10. Sorted(at)[j] = Sorted(at)[k]
    BY <1>5, <1>6, <1>8, <1>9
  <1>11. ~(j < k) /\ ~(k < j)
    BY <1>4, <1>7, <1>8, <1>9, <1>10
  <1> QED BY <1>4, <1>8, <1>11
=============================================================================
