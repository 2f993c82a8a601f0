------------------------- MODULE ListIdiomsProofs --------------------------
(***************************************************************************)
(* What Keep, Unique and Without return, for sequences of any length.  The *)
(* positions kept are numbered by Rank; Rank is a bijection onto           *)
(* 1..Cardinality(I), so Keep is a sequence of exactly the chosen elements.*)
(* And what sum() returns over a finite set: the fold that defines it is a *)
(* recursive function over the subsets, which are reached from the empty   *)
(* one by putting back one element at a time.                              *)
(***************************************************************************)
EXTENDS ListIdioms, FiniteSetsExt, TLAPS, FiniteSetTheorems, SequenceTheorems

(* The rank of a chosen position is a number between 1 and how many were    *)
(* chosen.                                                                  *)
LEMMA RankType ==
    ASSUME NEW I \in SUBSET Nat, IsFiniteSet(I), NEW i \in I
    PROVE  Rank(I, i) \in 1..Cardinality(I)
<1> DEFINE upto == {j \in I : j <= i}
<1>1. IsFiniteSet(upto) /\ Cardinality(upto) <= Cardinality(I)
  BY FS_Subset, upto \in SUBSET I
<1>2. Cardinality(upto) \in Nat /\ Cardinality(I) \in Nat
  BY <1>1, FS_CardinalityType
<1>3. upto # {}
  BY i \in upto
<1>4. Cardinality(upto) # 0
  BY <1>1, <1>3, FS_EmptySet
<1> QED
  BY <1>1, <1>2, <1>4 DEF Rank

(* A later position has a greater rank, so two positions never share one.  *)
LEMMA RankMonotonic ==
    ASSUME NEW I \in SUBSET Nat, IsFiniteSet(I), NEW i \in I, NEW j \in I, i < j
    PROVE  Rank(I, i) < Rank(I, j)
<1> DEFINE low == {k \in I : k <= i}
           high == {k \in I : k <= j}
<1>1. IsFiniteSet(high)
  BY FS_Subset, high \in SUBSET I
<1>2. low \in SUBSET high
  <2>1. \A k \in I : k \in Nat
    OBVIOUS
  <2>2. \A k \in I : k <= i => k <= j
    BY <2>1
  <2> QED
    BY <2>2
<1>3. low # high
  BY j \in high, j \notin low
<1>4. Cardinality(low) <= Cardinality(high) /\ Cardinality(low) # Cardinality(high) /\ IsFiniteSet(low)
  BY <1>1, <1>2, <1>3, FS_Subset
<1>5. Cardinality(low) \in Nat /\ Cardinality(high) \in Nat
  BY <1>1, <1>4, FS_CardinalityType
<1> QED
  BY <1>4, <1>5 DEF Rank

(* Every rank belongs to exactly one chosen position.                      *)
LEMMA RankBijection ==
    ASSUME NEW I \in SUBSET Nat, IsFiniteSet(I)
    PROVE  /\ Cardinality(I) \in Nat
           /\ \A k \in 1..Cardinality(I) : \E i \in I : Rank(I, i) = k
           /\ \A i, j \in I : Rank(I, i) = Rank(I, j) => i = j
<1> DEFINE n == Cardinality(I)
           rank == [i \in I |-> Rank(I, i)]
<1>1. n \in Nat
  BY FS_CardinalityType
<1>2. \A i \in I : Rank(I, i) \in 1..n
  BY RankType
<1>3. \A i, j \in I : Rank(I, i) = Rank(I, j) => i = j
  <2> SUFFICES ASSUME NEW i \in I, NEW j \in I, Rank(I, i) = Rank(I, j)
               PROVE  i = j
    OBVIOUS
  <2>1. ~(i < j) /\ ~(j < i)
    BY RankMonotonic, <1>1, <1>2
  <2> QED
    BY <2>1
<1>4. rank \in Injection(I, 1..n)
  BY <1>2, <1>3 DEF Injection, IsInjective
<1>5. IsFiniteSet(1..n) /\ Cardinality(1..n) = n
  BY <1>1, FS_Interval
<1>6. rank \in Surjection(I, 1..n)
  BY <1>4, <1>5, FS_Injection
<1> QED
  BY <1>1, <1>3, <1>6 DEF Surjection

(* Keep returns a sequence of the chosen elements: as many as positions,   *)
(* each chosen element occurring, in the order of the positions.           *)
LEMMA KeepProperties ==
    ASSUME NEW S, NEW s \in Seq(S), NEW I \in SUBSET (DOMAIN s)
    PROVE  /\ IsFiniteSet(I)
           /\ Keep(s, I) \in Seq(S)
           /\ Len(Keep(s, I)) = Cardinality(I)
           /\ \A i \in I : /\ Rank(I, i) \in 1..Cardinality(I)
                          /\ Keep(s, I)[Rank(I, i)] = s[i]
           /\ \A k \in 1..Cardinality(I) :
                 \E i \in I : Rank(I, i) = k /\ Keep(s, I)[k] = s[i]
<1> DEFINE n == Cardinality(I)
           at(k) == CHOOSE i \in I : Rank(I, i) = k
<1>1. Len(s) \in Nat /\ DOMAIN s = 1..Len(s) /\ \A i \in I : s[i] \in S
  BY LenProperties, ElementOfSeq
<1>2. IsFiniteSet(I) /\ I \in SUBSET Nat
  <2>1. IsFiniteSet(1..Len(s))
    BY <1>1, FS_Interval
  <2>2. I \in SUBSET (1..Len(s))
    BY <1>1
  <2> QED
    BY <2>1, <2>2, FS_Subset
<1>3. /\ n \in Nat
      /\ \A k \in 1..n : \E i \in I : Rank(I, i) = k
      /\ \A i, j \in I : Rank(I, i) = Rank(I, j) => i = j
      /\ \A i \in I : Rank(I, i) \in 1..n
  BY <1>2, RankBijection, RankType
<1>4. \A k \in 1..n : at(k) \in I /\ Rank(I, at(k)) = k
  BY <1>3
<1>5. \A i \in I : at(Rank(I, i)) = i
  BY <1>3, <1>4
<1>6. Keep(s, I) = [k \in 1..n |-> s[at(k)]]
  BY DEF Keep
<1>7. \A k \in 1..n : s[at(k)] \in S
  BY <1>1, <1>4
<1>8. Keep(s, I) \in [1..n -> S]
  BY <1>6, <1>7
<1>9. Keep(s, I) \in Seq(S) /\ Len(Keep(s, I)) = n
  BY <1>3, <1>8, SeqDef
<1>10. \A i \in I : Keep(s, I)[Rank(I, i)] = s[i]
  BY <1>3, <1>5, <1>6
<1> QED
  BY <1>2, <1>3, <1>4, <1>6, <1>9, <1>10

(* Keeping every position changes nothing.                                 *)
LEMMA KeepAll ==
    ASSUME NEW S, NEW s \in Seq(S)
    PROVE  Keep(s, DOMAIN s) = s
<1> DEFINE n == Len(s)
<1>1. n \in Nat /\ DOMAIN s = 1..n /\ s \in [1..n -> S]
  BY LenProperties
<1>2. Cardinality(1..n) = n
  BY <1>1, FS_Interval
<1>3. ASSUME NEW i \in 1..n PROVE Rank(1..n, i) = i
  <2>1. {j \in 1..n : j <= i} = 1..i
    BY <1>1
  <2>2. Cardinality(1..i) = i
    BY <1>1, FS_Interval
  <2> QED
    BY <2>1, <2>2 DEF Rank
<1>4. Len(Keep(s, 1..n)) = n /\ Keep(s, 1..n) \in Seq(S)
  BY <1>1, <1>2, KeepProperties
<1>5. \A i \in 1..n : Keep(s, 1..n)[i] = s[i]
  BY <1>1, <1>3, KeepProperties
<1> QED
  BY <1>1, <1>4, <1>5, SeqEqual

(* Distinct values at the kept positions give a result without duplicates. *)
LEMMA KeepInjective ==
    ASSUME NEW S, NEW s \in Seq(S), NEW I \in SUBSET (DOMAIN s),
           \A i, j \in I : s[i] = s[j] => i = j
    PROVE  IsInjective(Keep(s, I))
<1>1. /\ Keep(s, I) \in Seq(S)
      /\ Len(Keep(s, I)) = Cardinality(I)
      /\ \A k \in 1..Cardinality(I) :
            \E i \in I : Rank(I, i) = k /\ Keep(s, I)[k] = s[i]
  BY KeepProperties
<1>2. DOMAIN Keep(s, I) = 1..Cardinality(I)
  BY <1>1, LenProperties
<1> QED
  BY <1>1, <1>2 DEF IsInjective

(* A finite set of positions that is not empty has a least one.            *)
LEMMA LeastPosition ==
    ASSUME NEW I \in SUBSET Nat, IsFiniteSet(I), NEW i \in I
    PROVE  \E j \in I : \A k \in I : j <= k
<1>1. Cardinality(I) \in Nat /\ Rank(I, i) \in 1..Cardinality(I)
  BY RankType, FS_CardinalityType
<1>2. 1 \in 1..Cardinality(I)
  BY <1>1
<1>3. PICK j \in I : Rank(I, j) = 1
  BY <1>2, RankBijection
<1>4. ASSUME NEW k \in I PROVE j <= k
  <2>1. j \in Nat /\ k \in Nat /\ Rank(I, k) \in 1..Cardinality(I)
    BY RankType
  <2>2. ~(k < j)
    BY <1>1, <1>3, <2>1, RankMonotonic
  <2> QED
    BY <2>1, <2>2
<1> QED
  BY <1>4

(* Every value of a sequence has a first occurrence.                       *)
LEMMA FirstOccurrenceExists ==
    ASSUME NEW S, NEW s \in Seq(S), NEW i \in DOMAIN s
    PROVE  \E j \in FirstOccurrences(s) : s[j] = s[i]
<1> DEFINE same == {j \in DOMAIN s : s[j] = s[i]}
<1>1. DOMAIN s = 1..Len(s) /\ Len(s) \in Nat
  BY LenProperties
<1>2. IsFiniteSet(same) /\ same \in SUBSET Nat
  <2>1. IsFiniteSet(1..Len(s))
    BY <1>1, FS_Interval
  <2>2. same \in SUBSET (1..Len(s))
    BY <1>1
  <2> QED
    BY <2>1, <2>2, FS_Subset
<1>3. PICK j \in same : \A k \in same : j <= k
  <2>1. i \in same
    OBVIOUS
  <2> HIDE DEF same
  <2> QED
    BY <1>2, <2>1, LeastPosition
<1> QED
  BY <1>3 DEF FirstOccurrences

(* dict.fromkeys: the same values, none of them twice.                     *)
LEMMA UniqueProperties ==
    ASSUME NEW S, NEW s \in Seq(S)
    PROVE  /\ Unique(s) \in Seq(S)
           /\ IsInjective(Unique(s))
           /\ Range(Unique(s)) = Range(s)
<1> DEFINE I == FirstOccurrences(s)
<1>1. I \in SUBSET (DOMAIN s) /\ DOMAIN s = 1..Len(s) /\ Len(s) \in Nat
  BY LenProperties DEF FirstOccurrences
<1>2. \A i, j \in I : s[i] = s[j] => i = j
  BY <1>1 DEF FirstOccurrences
<1>3. Unique(s) = Keep(s, I)
  BY DEF Unique
<1>4. IsInjective(Keep(s, I))
  BY <1>1, <1>2, KeepInjective
<1>5. /\ Keep(s, I) \in Seq(S)
      /\ Len(Keep(s, I)) = Cardinality(I)
      /\ \A i \in I : /\ Rank(I, i) \in 1..Cardinality(I)
                     /\ Keep(s, I)[Rank(I, i)] = s[i]
      /\ \A k \in 1..Cardinality(I) :
            \E i \in I : Rank(I, i) = k /\ Keep(s, I)[k] = s[i]
  BY <1>1, KeepProperties
<1>6. DOMAIN Keep(s, I) = 1..Cardinality(I)
  BY <1>5, LenProperties
<1>7. Range(Keep(s, I)) \subseteq Range(s)
  BY <1>1, <1>5, <1>6 DEF Range
<1>8. ASSUME NEW i \in DOMAIN s PROVE s[i] \in Range(Keep(s, I))
  <2>1. PICK j \in I : s[j] = s[i]
    BY FirstOccurrenceExists
  <2> QED
    BY <1>5, <1>6, <2>1 DEF Range
<1>9. Range(s) \subseteq Range(Keep(s, I))
  BY <1>8 DEF Range
<1> QED
  BY <1>3, <1>4, <1>5, <1>7, <1>9

(* dict.fromkeys leaves a list without duplicates as it is.                *)
LEMMA UniqueOfInjective ==
    ASSUME NEW S, NEW s \in Seq(S), IsInjective(s)
    PROVE  Unique(s) = s
<1>1. DOMAIN s = 1..Len(s) /\ Len(s) \in Nat
  BY LenProperties
<1>2. FirstOccurrences(s) = DOMAIN s
  BY <1>1 DEF FirstOccurrences, IsInjective
<1> QED
  BY <1>2, KeepAll DEF Unique

(* Excluding nothing leaves the list as it is.                             *)
LEMMA WithoutNothing ==
    ASSUME NEW S, NEW s \in Seq(S)
    PROVE  Without(s, {}) = s
<1>1. {i \in DOMAIN s : s[i] \notin {}} = DOMAIN s
  OBVIOUS
<1> QED
  BY <1>1, KeepAll DEF Without
-----------------------------------------------------------------------------
(* Numbers up to a bound: there is a least one among any of them.          *)
LEMMA LeastUpTo ==
    ASSUME NEW bound \in Nat, NEW N \in SUBSET (0..bound), N # {}
    PROVE  \E n \in N : \A k \in N : n <= k
<1>1. IsFiniteSet(0..bound)
  BY FS_Interval
<1>2. IsFiniteSet(N)
  BY <1>1, FS_Subset
<1>3. N \in SUBSET Nat
  OBVIOUS
<1> QED
  BY <1>2, <1>3, LeastPosition

(* A set of subsets that holds the empty one and each subset of which it   *)
(* holds what is left without its chosen element holds them all.           *)
LEMMA SubsetsByRemoval ==
    ASSUME NEW S, IsFiniteSet(S), NEW Q, {} \in Q,
           \A s \in SUBSET S : s # {} /\ s \ {CHOOSE x \in s : TRUE} \in Q => s \in Q
    PROVE  \A s \in SUBSET S : s \in Q
<1> DEFINE size == Cardinality(S)
           Missed(n) == \E s \in SUBSET S : Cardinality(s) = n /\ s \notin Q
           missed == {n \in 0..size : Missed(n)}
<1>1. size \in Nat
  BY FS_CardinalityType
<1>2. \A s \in SUBSET S : IsFiniteSet(s) /\ Cardinality(s) \in 0..size
  BY <1>1, FS_Subset, FS_CardinalityType
<1> SUFFICES ASSUME missed # {} PROVE FALSE
  BY <1>2
<1>3. missed \in SUBSET (0..size)
  OBVIOUS
<1>4. PICK n \in missed : \A k \in missed : n <= k
  <2> HIDE DEF missed
  <2> QED
    BY <1>1, <1>3, LeastUpTo
<1>5. PICK s \in SUBSET S : Cardinality(s) = n /\ s \notin Q
  BY <1>4
<1> DEFINE x == CHOOSE y \in s : TRUE
           rest == s \ {x}
<1>6. s # {} /\ x \in s
  BY <1>5
<1>7. rest \in SUBSET S /\ Cardinality(rest) = n - 1
  BY <1>2, <1>5, <1>6, FS_RemoveElement
<1>8. n - 1 \in 0..size /\ n \in Nat
  BY <1>2, <1>5, <1>7
<1>9. rest \in Q
  BY <1>4, <1>7, <1>8
<1> QED
  BY <1>5, <1>6, <1>9

(* One step of the fold: g is what its own right-hand side says.           *)
IsSummation(f, S, g) ==
    g = [s \in SUBSET S |->
            IF s = {} THEN 0
            ELSE f[CHOOSE x \in s : TRUE] + g[s \ {CHOOSE x \in s : TRUE}]]

Summation(f, S) == CHOOSE g : IsSummation(f, S, g)

(* The fold exists: approximations of it agree on ever larger subsets.     *)
LEMMA SummationExists ==
    ASSUME NEW f, NEW S, IsFiniteSet(S)
    PROVE  IsSummation(f, S, Summation(f, S))
<1> DEFINE size == Cardinality(S)
           Value(g, s) == IF s = {} THEN 0
                          ELSE f[CHOOSE x \in s : TRUE] + g[s \ {CHOOSE x \in s : TRUE}]
           UpTo(n) == \E g : \A s \in SUBSET S : Cardinality(s) <= n => g[s] = Value(g, s)
           missed == {n \in 0..size : ~UpTo(n)}
<1>1. size \in Nat
  BY FS_CardinalityType
<1>2. \A s \in SUBSET S : IsFiniteSet(s) /\ Cardinality(s) \in 0..size
  BY <1>1, FS_Subset, FS_CardinalityType
<1>3. UpTo(size)
  <2> HIDE DEF UpTo
  <2> SUFFICES ASSUME missed # {} PROVE FALSE
    BY <1>1
  <2>1. missed \in SUBSET (0..size)
    OBVIOUS
  <2>2. PICK n \in missed : \A k \in missed : n <= k
    <3> HIDE DEF missed
    <3> QED
      BY <1>1, <2>1, LeastUpTo
  <2>3. n \in 0..size /\ ~UpTo(n)
    BY <2>2
  <2>4. CASE n = 0
    <3> DEFINE g == [s \in SUBSET S |-> 0]
    <3>1. \A s \in SUBSET S : Cardinality(s) <= 0 => s = {}
      BY <1>2, FS_EmptySet
    <3>2. \A s \in SUBSET S : Cardinality(s) <= n => g[s] = Value(g, s)
      BY <2>4, <3>1
    <3> QED
      BY <2>3, <3>2 DEF UpTo
  <2>5. CASE n # 0
    <3>1. n - 1 \in 0..size /\ n \in Nat
      BY <1>1, <2>3, <2>5
    <3>2. UpTo(n - 1)
      <4>1. n - 1 \notin missed
        <5> HIDE DEF missed
        <5> QED
          BY <2>2, <3>1
      <4> QED
        BY <3>1, <4>1
    <3>3. PICK g : \A s \in SUBSET S : Cardinality(s) <= n - 1 => g[s] = Value(g, s)
      BY <3>2 DEF UpTo
    <3> DEFINE next == [s \in SUBSET S |-> Value(g, s)]
    <3>4. ASSUME NEW s \in SUBSET S, Cardinality(s) <= n PROVE next[s] = Value(next, s)
      <4>1. CASE s = {}
        BY <4>1
      <4>2. CASE s # {}
        <5> DEFINE x == CHOOSE y \in s : TRUE
                   rest == s \ {x}
        <5>1. rest \in SUBSET S /\ Cardinality(rest) = Cardinality(s) - 1
          BY <1>2, <4>2, FS_RemoveElement, x \in s
        <5>2. Cardinality(rest) <= n - 1
          BY <1>2, <3>1, <3>4, <5>1
        <5>3. g[rest] = Value(g, rest) /\ next[rest] = Value(g, rest)
          BY <3>3, <5>1, <5>2
        <5>4. next[rest] = g[rest]
          BY <5>3
        <5> HIDE DEF next
        <5>5. Value(next, s) = Value(g, s)
          BY <4>2, <5>4
        <5> QED
          BY <5>5 DEF next
      <4> QED
        BY <4>1, <4>2
    <3>5. UpTo(n)
      BY <3>4 DEF UpTo
    <3> QED
      BY <2>3, <3>5
  <2> QED
    BY <2>4, <2>5
<1>4. PICK g : \A s \in SUBSET S : Cardinality(s) <= size => g[s] = Value(g, s)
  BY <1>3
<1>5. \A s \in SUBSET S : g[s] = Value(g, s)
  BY <1>2, <1>4
<1> DEFINE whole == [s \in SUBSET S |-> Value(g, s)]
<1>6. \A s \in SUBSET S : Value(whole, s) = Value(g, s)
  BY <1>5
<1>7. IsSummation(f, S, whole)
  BY <1>6 DEF IsSummation
<1> QED
  BY <1>7 DEF Summation

LEMMA SumIsSummation ==
    ASSUME NEW f, NEW S
    PROVE  MapThenSumSet(LAMBDA i : f[i], S) = Summation(f, S)[S]
BY DEF MapThenSumSet, MapThenFoldSet, Summation, IsSummation

(* What the fold is for each subset.                                       *)
LEMMA SummationStep ==
    ASSUME NEW f, NEW S, IsFiniteSet(S)
    PROVE  /\ Summation(f, S)[{}] = 0
           /\ \A s \in SUBSET S : s # {} =>
                 Summation(f, S)[s] = f[CHOOSE x \in s : TRUE]
                                      + Summation(f, S)[s \ {CHOOSE x \in s : TRUE}]
<1> DEFINE g == Summation(f, S)
           Value(s) == IF s = {} THEN 0
                       ELSE f[CHOOSE x \in s : TRUE] + g[s \ {CHOOSE x \in s : TRUE}]
<1>0. IsSummation(f, S, g)
  BY SummationExists
<1> HIDE DEF g
<1>1. g = [s \in SUBSET S |-> Value(s)]
  BY <1>0 DEF IsSummation
<1>2. \A s \in SUBSET S : g[s] = Value(s)
  BY <1>1
<1> QED
  BY <1>2 DEF g

LEMMA SumFunctionIsSummation ==
    ASSUME NEW f PROVE SumFunction(f) = Summation(f, DOMAIN f)[DOMAIN f]
BY DEF SumFunction, SumFunctionOnSet, FoldFunctionOnSet, MapThenFoldSet, Summation, IsSummation

(* A sum of natural numbers is one, and it is zero when they all are.      *)
LEMMA SumOfNaturals ==
    ASSUME NEW f, NEW S, IsFiniteSet(S), \A x \in S : f[x] \in Nat
    PROVE  /\ Summation(f, S)[S] \in Nat
           /\ (\A x \in S : f[x] = 0) => Summation(f, S)[S] = 0
<1> DEFINE total == Summation(f, S)
           Natural == {s \in SUBSET S : total[s] \in Nat}
           Zero == {s \in SUBSET S : total[s] = 0}
<1>1. /\ total[{}] = 0
      /\ \A s \in SUBSET S : s # {} =>
            total[s] = f[CHOOSE x \in s : TRUE] + total[s \ {CHOOSE x \in s : TRUE}]
  BY SummationStep
<1> HIDE DEF total
<1>2. \A s \in SUBSET S : s # {} => (CHOOSE x \in s : TRUE) \in s
  OBVIOUS
<1>3. \A s \in SUBSET S : s \in Natural
  <2>1. {} \in Natural
    BY <1>1
  <2>2. \A s \in SUBSET S : s # {} /\ s \ {CHOOSE x \in s : TRUE} \in Natural => s \in Natural
    BY <1>1, <1>2
  <2> HIDE DEF Natural
  <2> QED
    BY <2>1, <2>2, SubsetsByRemoval
<1>4. ASSUME \A x \in S : f[x] = 0 PROVE \A s \in SUBSET S : s \in Zero
  <2>1. {} \in Zero
    BY <1>1
  <2>2. ASSUME NEW s \in SUBSET S, s # {}, s \ {CHOOSE x \in s : TRUE} \in Zero
        PROVE  s \in Zero
    <3>1. f[CHOOSE x \in s : TRUE] = 0
      BY <1>2, <1>4, <2>2
    <3>2. total[s] = 0 + 0
      BY <1>1, <2>2, <3>1
    <3> QED
      BY <3>2
  <2> HIDE DEF Zero
  <2> QED
    BY <2>1, <2>2, SubsetsByRemoval
<1> QED
  BY <1>3, <1>4 DEF total

(* No number is greater than the sum it is in.                             *)
LEMMA SumIsAtLeast ==
    ASSUME NEW f, NEW S, IsFiniteSet(S), \A x \in S : f[x] \in Nat
    PROVE  \A x \in S : f[x] <= Summation(f, S)[S]
<1> DEFINE total == Summation(f, S)
           Bounded == {s \in SUBSET S : total[s] \in Nat /\ \A x \in s : f[x] <= total[s]}
<1>1. /\ total[{}] = 0
      /\ \A s \in SUBSET S : s # {} =>
            total[s] = f[CHOOSE x \in s : TRUE] + total[s \ {CHOOSE x \in s : TRUE}]
  BY SummationStep
<1> HIDE DEF total
<1>2. {} \in Bounded
  BY <1>1
<1>3. ASSUME NEW s \in SUBSET S, s # {}, s \ {CHOOSE x \in s : TRUE} \in Bounded
      PROVE  s \in Bounded
  <2> DEFINE x == CHOOSE y \in s : TRUE
             rest == s \ {x}
  <2>1. x \in s /\ f[x] \in Nat /\ total[s] = f[x] + total[rest]
    BY <1>1, <1>3
  <2>2. total[rest] \in Nat /\ \A y \in rest : f[y] <= total[rest]
    BY <1>3
  <2>3. rest = s \ {x}
    OBVIOUS
  <2> HIDE DEF x, rest
  <2>4. total[s] \in Nat /\ f[x] <= total[s] /\ total[rest] <= total[s]
    BY <2>1, <2>2
  <2>5. \A y \in s : f[y] <= total[s]
    <3> SUFFICES ASSUME NEW y \in s PROVE f[y] <= total[s]
      OBVIOUS
    <3>1. f[y] \in Nat
      OBVIOUS
    <3>2. CASE y = x
      BY <2>4, <3>2
    <3>3. CASE y # x
      BY <2>2, <2>3, <2>4, <3>1, <3>3
    <3> QED
      BY <3>2, <3>3
  <2> QED
    BY <2>4, <2>5
<1> HIDE DEF Bounded
<1>4. \A s \in SUBSET S : s \in Bounded
  BY <1>2, <1>3, SubsetsByRemoval
<1> QED
  BY <1>4 DEF Bounded, total

(* What one of the numbers grows by, their sum grows by.                   *)
LEMMA SumIncrement ==
    ASSUME NEW f, NEW more, NEW S, IsFiniteSet(S), \A x \in S : f[x] \in Int,
           NEW k \in S, NEW d \in Int, more[k] = f[k] + d, \A x \in S \ {k} : more[x] = f[x]
    PROVE  /\ Summation(f, S)[S] \in Int
           /\ Summation(more, S)[S] = Summation(f, S)[S] + d
<1> DEFINE before == Summation(f, S)
           after == Summation(more, S)
           Agree == {s \in SUBSET S : /\ before[s] \in Int
                                      /\ after[s] = before[s] + (IF k \in s THEN d ELSE 0)}
<1>1. /\ before[{}] = 0
      /\ \A s \in SUBSET S : s # {} =>
            before[s] = f[CHOOSE x \in s : TRUE] + before[s \ {CHOOSE x \in s : TRUE}]
  BY SummationStep
<1>2. /\ after[{}] = 0
      /\ \A s \in SUBSET S : s # {} =>
            after[s] = more[CHOOSE x \in s : TRUE] + after[s \ {CHOOSE x \in s : TRUE}]
  BY ONLY SummationStep, IsFiniteSet(S)
<1> HIDE DEF before, after
<1>3. {} \in Agree
  BY <1>1, <1>2
<1>4. ASSUME NEW s \in SUBSET S, s # {}, s \ {CHOOSE x \in s : TRUE} \in Agree
      PROVE  s \in Agree
  <2> DEFINE x == CHOOSE y \in s : TRUE
             rest == s \ {x}
  <2>1. x \in s /\ x \in S /\ f[x] \in Int
    BY <1>4
  <2>2. before[s] = f[x] + before[rest] /\ after[s] = more[x] + after[rest]
    BY <1>1, <1>2, <1>4
  <2>3. before[rest] \in Int /\ after[rest] = before[rest] + (IF k \in rest THEN d ELSE 0)
    BY <1>4
  <2>4. rest = s \ {x}
    OBVIOUS
  <2> HIDE DEF x, rest
  <2>5. CASE x = k
    <3>1. more[x] = f[x] + d /\ k \in s /\ k \notin rest
      BY <2>1, <2>4, <2>5
    <3> QED
      BY <2>1, <2>2, <2>3, <3>1
  <2>6. CASE x # k
    <3>1. more[x] = f[x] /\ (k \in s <=> k \in rest)
      BY <2>1, <2>4, <2>6
    <3> QED
      BY <2>1, <2>2, <2>3, <3>1
  <2> QED
    BY <2>5, <2>6
<1>5. \A s \in SUBSET S : s \in Agree
  <2> HIDE DEF Agree
  <2> QED
    BY <1>3, <1>4, SubsetsByRemoval
<1>6. S \in Agree
  BY <1>5
<1> QED
  BY <1>6 DEF before, after
=============================================================================
