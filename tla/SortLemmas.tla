----------------------------- MODULE SortLemmas -----------------------------
(***************************************************************************)
(* Lemmas on sorting a sequence of distinct naturals.  The model defines   *)
(* the result of std::sort by CHOOSE, as an ascending sequence of the      *)
(* sequence's elements of the same length; the CHOOSE says nothing unless  *)
(* such a sequence exists.  One does: put the element of rank r (the       *)
(* number of smaller elements plus one) at position r.                     *)
(***************************************************************************)
EXTENDS Naturals, Sequences, FiniteSets, FiniteSetTheorems,
        FunctionTheorems, SequenceTheorems, TLAPS

\* The positions of s whose element is smaller than the one at k.
Below(s, k) == {j \in 1..Len(s) : s[j] < s[k]}

\* The rank of each position: one more than the number of smaller elements.
Rank(s) == [k \in 1..Len(s) |-> Cardinality(Below(s, k)) + 1]

\* The position holding the element of rank i.
RankInverse(s) == [i \in 1..Len(s) |-> CHOOSE k \in 1..Len(s) : Rank(s)[k] = i]

\* 1..n has n elements.
LEMMA IntervalSize ==
  ASSUME NEW n \in Nat
  PROVE  IsFiniteSet(1..n) /\ Cardinality(1..n) = n
<1>1. IsFiniteSet(1..n) /\ Cardinality(1..n) = IF 1 > n THEN 0 ELSE n - 1 + 1
  BY FS_Interval
<1>2. QED
  BY <1>1

\* Below(s, k) counts at most the other positions.
LEMMA BelowBound ==
  ASSUME NEW s \in Seq(Nat), NEW k \in 1..Len(s)
  PROVE  /\ IsFiniteSet(Below(s, k))
         /\ Cardinality(Below(s, k)) \in 0..Len(s) - 1
<1>1. Len(s) \in Nat /\ s[k] \in Nat
  BY LenProperties
<1>2. IsFiniteSet(1..Len(s) \ {k}) /\ Cardinality(1..Len(s) \ {k}) = Len(s) - 1
  <2>1. IsFiniteSet(1..Len(s)) /\ Cardinality(1..Len(s)) = Len(s)
    BY <1>1, IntervalSize
  <2>2. QED
    BY <2>1, FS_RemoveElement
<1>3. Below(s, k) \subseteq 1..Len(s) \ {k}
  BY <1>1 DEF Below
<1>4. QED
  BY <1>2, <1>3, FS_Subset, FS_CardinalityType

\* A smaller element has a smaller rank.
LEMMA RankMonotone ==
  ASSUME NEW s \in Seq(Nat), NEW k \in 1..Len(s), NEW m \in 1..Len(s),
         s[k] < s[m]
  PROVE  Cardinality(Below(s, k)) < Cardinality(Below(s, m))
<1>1. \A j \in 1..Len(s) : s[j] \in Nat
  BY LenProperties
<1>2. Below(s, k) \subseteq Below(s, m)
  BY <1>1 DEF Below
<1>3. k \in Below(s, m) /\ k \notin Below(s, k)
  BY <1>1 DEF Below
<1>4. /\ IsFiniteSet(Below(s, m))
      /\ Cardinality(Below(s, k)) \in Nat /\ Cardinality(Below(s, m)) \in Nat
  BY BelowBound
<1>5. /\ Cardinality(Below(s, k)) <= Cardinality(Below(s, m))
      /\ Cardinality(Below(s, m)) = Cardinality(Below(s, k))
           => Below(s, m) = Below(s, k)
  BY <1>2, <1>4, FS_Subset
<1>6. QED
  BY <1>3, <1>4, <1>5

\* For distinct elements the ranks number the positions one to one.
LEMMA RankBijective ==
  ASSUME NEW s \in Seq(Nat),
         \A i, j \in 1..Len(s) : i # j => s[i] # s[j]
  PROVE  /\ Rank(s) \in Injection(1..Len(s), 1..Len(s))
         /\ Rank(s) \in Surjection(1..Len(s), 1..Len(s))
<1>1. Len(s) \in Nat /\ \A j \in 1..Len(s) : s[j] \in Nat
  BY LenProperties
<1>2. Rank(s) \in [1..Len(s) -> 1..Len(s)]
  BY <1>1, BelowBound DEF Rank
<1>3. \A k, m \in 1..Len(s) : k # m => Rank(s)[k] # Rank(s)[m]
  <2> SUFFICES ASSUME NEW k \in 1..Len(s), NEW m \in 1..Len(s), k # m
               PROVE  Rank(s)[k] # Rank(s)[m]
    OBVIOUS
  <2>1. s[k] < s[m] \/ s[m] < s[k]
    BY <1>1
  <2>2. Cardinality(Below(s, k)) # Cardinality(Below(s, m))
    <3>1. CASE s[k] < s[m]
      <4>1. Cardinality(Below(s, k)) < Cardinality(Below(s, m))
        BY <3>1, RankMonotone
      <4>2. QED
        BY <4>1, BelowBound
    <3>2. CASE s[m] < s[k]
      <4>1. Cardinality(Below(s, m)) < Cardinality(Below(s, k))
        BY <3>2, RankMonotone
      <4>2. QED
        BY <4>1, BelowBound
    <3>3. QED
      BY <2>1, <3>1, <3>2
  <2>3. QED
    BY <2>2, BelowBound DEF Rank
<1>4. Rank(s) \in Injection(1..Len(s), 1..Len(s))
  BY <1>2, <1>3 DEF Injection, IsInjective
<1>5. IsFiniteSet(1..Len(s))
  BY <1>1, IntervalSize
<1>6. QED
  BY <1>4, <1>5, FS_Injection

\* RankInverse(s) maps positions to positions and sorts s strictly.
LEMMA RankInverseSorts ==
  ASSUME NEW s \in Seq(Nat),
         \A i, j \in 1..Len(s) : i # j => s[i] # s[j]
  PROVE  /\ RankInverse(s) \in [1..Len(s) -> 1..Len(s)]
         /\ \A i, j \in 1..Len(s) :
              i < j => s[RankInverse(s)[i]] < s[RankInverse(s)[j]]
<1> DEFINE p == RankInverse(s)
           D == 1..Len(s)
<1>1. Len(s) \in Nat /\ \A j \in D : s[j] \in Nat
  BY LenProperties
<1>2. Rank(s) \in Surjection(D, D)
  BY RankBijective
<1>3. \A i \in D : p[i] \in D /\ Rank(s)[p[i]] = i
  BY <1>2 DEF Surjection, RankInverse
<1>4. p \in [D -> D]
  BY <1>3 DEF RankInverse
<1>5. ASSUME NEW i \in D, NEW j \in D, i < j PROVE s[p[i]] < s[p[j]]
  <2>1. p[i] \in D /\ p[j] \in D /\ Rank(s)[p[i]] = i /\ Rank(s)[p[j]] = j
    BY <1>3
  <2>2. p[i] # p[j]
    BY <2>1, <1>5
  <2>3. s[p[i]] # s[p[j]]
    BY <2>1, <2>2
  <2>4. ~(s[p[j]] < s[p[i]])
    <3> SUFFICES ASSUME s[p[j]] < s[p[i]] PROVE FALSE
      OBVIOUS
    <3>1. Cardinality(Below(s, p[j])) < Cardinality(Below(s, p[i]))
      BY <2>1, RankMonotone
    <3>2. /\ Rank(s)[p[i]] = Cardinality(Below(s, p[i])) + 1
          /\ Rank(s)[p[j]] = Cardinality(Below(s, p[j])) + 1
      BY <2>1 DEF Rank
    <3>3. Cardinality(Below(s, p[i])) \in Nat /\ Cardinality(Below(s, p[j])) \in Nat
      BY <2>1, BelowBound
    <3>4. QED
      BY <1>5, <2>1, <3>1, <3>2, <3>3
  <2>5. QED
    BY <1>1, <2>1, <2>3, <2>4
<1>6. QED
  BY <1>4, <1>5

(***************************************************************************)
(* A sequence of distinct naturals has an ascending arrangement: a         *)
(* sequence of the same length, over its elements, strictly increasing.   *)
(* This is what makes the CHOOSE that models std::sort well defined.       *)
(***************************************************************************)
LEMMA AscendingExists ==
  ASSUME NEW s \in Seq(Nat),
         \A i, j \in 1..Len(s) : i # j => s[i] # s[j]
  PROVE  \E t \in [1..Len(s) -> Range(s)] :
           \A i, j \in 1..Len(s) : i < j => t[i] < t[j]
<1> DEFINE p == RankInverse(s)
           t == [i \in 1..Len(s) |-> s[p[i]]]
<1>1. p \in [1..Len(s) -> 1..Len(s)]
      /\ \A i, j \in 1..Len(s) : i < j => s[p[i]] < s[p[j]]
  BY RankInverseSorts
<1>2. DOMAIN s = 1..Len(s)
  BY LenProperties
<1>3. t \in [1..Len(s) -> Range(s)]
  BY <1>1, <1>2 DEF Range
<1>4. QED
  BY <1>1, <1>3
=============================================================================
