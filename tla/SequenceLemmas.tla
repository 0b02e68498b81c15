--------------------------- MODULE SequenceLemmas ---------------------------
(***************************************************************************)
(* Facts about least and greatest members and about sequences that the     *)
(* proofs of the components use.                                           *)
(***************************************************************************)
EXTENDS FiniteSetsExt, SequencesExt, SequenceTheorems, FiniteSetTheorems,
        WellFoundedInduction, TLAPS

\* A set of naturals that is not empty has a least member: the least under
\* strict inclusion among the finite sets 0..n for its members n.
LEMMA MinOfNat ==
    ASSUME NEW S \in SUBSET Nat, S # {}
    PROVE  Min(S) \in S /\ \A x \in S : Min(S) <= x
<1> DEFINE T == {0..n : n \in S}
<1>1. T \subseteq FiniteSubsetsOf(Nat) /\ T # {}
  <2>1. \A n \in S : 0..n \subseteq Nat /\ IsFiniteSet(0..n)
    BY FS_Interval
  <2> QED BY <2>1 DEF FiniteSubsetsOf
<1>2. PICK t \in T : \A u \in T : <<u, t>> \notin StrictSubsetOrdering(Nat)
  BY <1>1, FS_StrictSubsetOrderingWellFounded, WFMin
<1>3. PICK m \in S : t = 0..m
  OBVIOUS
<1>4. \A x \in S : m <= x
  <2> SUFFICES ASSUME NEW x \in S, x < m
               PROVE  FALSE
    BY SMT
  <2>1. 0..x \in T /\ 0..x \subseteq 0..m /\ m \in 0..m /\ m \notin 0..x
    BY SMT
  <2>2. <<0..x, 0..m>> \in StrictSubsetOrdering(Nat)
    BY <2>1 DEF StrictSubsetOrdering
  <2> QED BY <1>2, <1>3, <2>1, <2>2
<1> QED BY <1>4 DEF Min

\* A bounded set of naturals that is not empty has a greatest member.
LEMMA MaxOfNat ==
    ASSUME NEW S \in SUBSET Nat, S # {}, NEW bound \in Nat,
           \A x \in S : x <= bound
    PROVE  Max(S) \in S /\ \A x \in S : Max(S) >= x
<1> DEFINE T == {bound - x : x \in S}
<1>1. T \in SUBSET Nat /\ T # {}
  <2>1. ASSUME NEW x \in S PROVE bound - x \in Nat
    <3>1. x \in Nat /\ x <= bound
      OBVIOUS
    <3> HIDE DEF T
    <3> QED BY <3>1, SMT
  <2>2. T # {}
    BY Zenon DEF T
  <2> QED BY <2>1, <2>2, Zenon DEF T
<1> HIDE DEF T
<1>2. Min(T) \in T /\ \A y \in T : Min(T) <= y
  BY <1>1, MinOfNat
<1>3. PICK m \in S : Min(T) = bound - m
  BY <1>2 DEF T
<1>4. \A x \in S : m >= x
  <2> TAKE x \in S
  <2>1. bound - m <= bound - x
    BY <1>2, <1>3 DEF T
  <2>2. m \in Nat /\ x \in Nat
    OBVIOUS
  <2> QED BY <2>1, <2>2
<1> QED BY <1>4 DEF Max

\* SubSeq from the front keeps the members it keeps.
LEMMA PrefixType ==
    ASSUME NEW S, NEW s \in Seq(S), NEW n \in Nat, n <= Len(s)
    PROVE  /\ SubSeq(s, 1, n) \in Seq(S)
           /\ Len(SubSeq(s, 1, n)) = n
           /\ \A i \in 1..n : SubSeq(s, 1, n)[i] = s[i]
<1>1. \A i \in 1..n : s[i] \in S
  BY ElementOfSeq, LenProperties
<1> QED BY <1>1, SubSeqProperties

\* Front and Last of a sequence that is not empty.
LEMMA FrontLastType ==
    ASSUME NEW S, NEW s \in Seq(S), s # <<>>
    PROVE  Front(s) \in Seq(S) /\ Last(s) \in S /\ Len(s) \in DOMAIN s
<1>1. Len(s) \in 1..Len(s)
  BY EmptySeq
<1> QED BY <1>1, PrefixType, ElementOfSeq, LenProperties DEF Front, Last

\* A sequence has its first member and those of the rest.
LEMMA HeadTailMembers ==
    ASSUME NEW S, NEW s \in Seq(S), s # <<>>
    PROVE  /\ Head(s) \in S /\ Tail(s) \in Seq(S)
           /\ Head(s) \in Range(s)
           /\ Range(s) = {Head(s)} \cup Range(Tail(s))
<1>1. /\ Head(s) \in S /\ Tail(s) \in Seq(S)
      /\ Head(s) = s[1] /\ Len(Tail(s)) = Len(s) - 1 /\ Len(s) \in Nat \ {0}
      /\ \A i \in 1..Len(Tail(s)) : Tail(s)[i] = s[i + 1]
  BY HeadTailProperties, EmptySeq
<1>2. DOMAIN s = 1..Len(s) /\ DOMAIN Tail(s) = 1..(Len(s) - 1)
  BY <1>1
<1>3. ASSUME NEW i \in 1..Len(s)
      PROVE  s[i] \in {Head(s)} \cup Range(Tail(s))
  <2>1. CASE i = 1
    BY <1>1, <2>1
  <2>2. CASE i # 1
    <3>1. i - 1 \in 1..(Len(s) - 1) /\ Tail(s)[i - 1] = s[i]
      BY <1>1, <2>2
    <3> QED BY <1>2, <3>1 DEF Range
  <2> QED BY <2>1, <2>2
<1>4. ASSUME NEW i \in 1..(Len(s) - 1)
      PROVE  Tail(s)[i] \in Range(s)
  <2>1. i + 1 \in 1..Len(s) /\ Tail(s)[i] = s[i + 1]
    BY <1>1
  <2> QED BY <1>2, <2>1 DEF Range
<1>5. 1 \in 1..Len(s)
  BY <1>1
<1> QED BY <1>1, <1>2, <1>3, <1>4, <1>5 DEF Range

\* The members of a sequence are finitely many.
LEMMA FiniteRange ==
    ASSUME NEW S, NEW s \in Seq(S)
    PROVE  IsFiniteSet(Range(s)) /\ Range(s) \subseteq S
<1>1. DOMAIN s = 1..Len(s) /\ Len(s) \in Nat
  BY LenProperties
<1>2. IsFiniteSet(DOMAIN s)
  BY <1>1, FS_Interval
<1>3. s \in [DOMAIN s -> Range(s)]
  BY <1>1 DEF Range
<1>4. s \in Surjection(DOMAIN s, Range(s))
  BY <1>3 DEF Surjection, Range
<1>5. IsFiniteSet(Range(s))
  BY <1>2, <1>4, FS_Surjection
<1> QED BY <1>5, RangeOfSeq

\* SetToSeq lists every member of a finite set.
LEMMA SetToSeqMembers ==
    ASSUME NEW S, IsFiniteSet(S)
    PROVE  SetToSeq(S) \in Seq(S) /\ Range(SetToSeq(S)) = S
<1> DEFINE n == Cardinality(S)
<1>1. n \in Nat /\ ExistsBijection(1..n, S)
  BY FS_CardinalityType
<1>2. \E f \in [1..n -> S] : IsInjective(f)
  BY <1>1 DEF ExistsBijection, Bijection, Injection
<1>3. SetToSeq(S) \in [1..n -> S] /\ IsInjective(SetToSeq(S))
  BY <1>2 DEF SetToSeq
<1>4. SetToSeq(S) \in Seq(S)
  BY <1>1, <1>3
<1>5. SetToSeq(S) \in Injection(1..n, S)
  BY <1>3 DEF Injection
<1>6. Cardinality(1..n) = n /\ IsFiniteSet(1..n)
  BY <1>1, FS_Interval
<1>7. SetToSeq(S) \in Surjection(1..n, S)
  BY <1>5, <1>6, FS_Injection
<1>8. Range(SetToSeq(S)) = S
  BY <1>3, <1>7 DEF Surjection, Range
<1> QED BY <1>4, <1>8
\* A finite set of naturals can be listed from the least to the greatest: in a
\* least counterexample the least member could be put in front of the others.
LEMMA ListedRising ==
    ASSUME NEW S \in SUBSET Nat, IsFiniteSet(S)
    PROVE  \E s \in [1..Cardinality(S) -> S] :
              /\ ToSet(s) = S
              /\ \A j, k \in 1..Cardinality(S) : j < k => s[j] < s[k]
<1> DEFINE Listed(T) == \E s \in [1..Cardinality(T) -> T] :
                           /\ ToSet(s) = T
                           /\ \A j, k \in 1..Cardinality(T) : j < k => s[j] < s[k]
           Bad == {n \in Nat : \E T \in SUBSET S : Cardinality(T) = n /\ ~Listed(T)}
<1>1. SUFFICES ASSUME ~Listed(S) PROVE FALSE
  OBVIOUS
<1>2. \A T \in SUBSET S : IsFiniteSet(T) /\ Cardinality(T) \in Nat
  BY FS_Subset, FS_CardinalityType
<1>3. Cardinality(S) \in Bad
  BY <1>1, <1>2
<1>4. PICK n \in Bad : \A m \in Bad : n <= m
  BY <1>3, MinOfNat
<1>5. PICK T \in SUBSET S : Cardinality(T) = n /\ ~Listed(T)
  OBVIOUS
<1>6. T # {}
  <2> SUFFICES ASSUME T = {} PROVE Listed(T)
    BY <1>5
  <2>1. Cardinality(T) = 0 /\ 1..0 = {}
    BY FS_EmptySet
  <2> DEFINE s == [j \in 1..0 |-> 0]
  <2>2. s \in [1..0 -> T] /\ DOMAIN s = {}
    BY <2>1
  <2>3. ToSet(s) = T
    BY <2>2 DEF ToSet
  <2> QED BY <2>1, <2>2, <2>3
<1> DEFINE m == Min(T)
           U == T \ {m}
<1>7. m \in T /\ \A x \in T : m <= x
  BY <1>6, MinOfNat
<1> HIDE DEF m
<1>8. n \in Nat \ {0} /\ Cardinality(U) = n - 1 /\ U \in SUBSET S
  <2>1. Cardinality(U) = Cardinality(T) - 1
    BY <1>2, <1>7, FS_RemoveElement
  <2>2. U \in SUBSET S
    OBVIOUS
  <2>3. Cardinality(U) \in Nat /\ Cardinality(T) \in Nat
    BY <1>2, <2>2
  <2> HIDE DEF U
  <2>4. Cardinality(U) = n - 1 /\ n \in Nat
    BY <1>5, <2>1, <2>3
  <2> QED BY <2>2, <2>3, <2>4
<1>9. Listed(U)
  <2>1. n - 1 \notin Bad /\ n - 1 \in Nat
    BY <1>4, <1>8
  <2> QED BY <1>8, <2>1
<1>10. PICK s \in [1..(n - 1) -> U] :
          /\ ToSet(s) = U
          /\ \A j, k \in 1..(n - 1) : j < k => s[j] < s[k]
  BY <1>8, <1>9
<1> HIDE DEF Listed, Bad, U
<1> DEFINE t == [j \in 1..n |-> IF j = 1 THEN m ELSE s[j - 1]]
<1>11. U = T \ {m} /\ T = {m} \cup U /\ T \in SUBSET Nat
  BY <1>7 DEF U
<1>12. /\ 1 \in 1..n /\ t[1] = m
       /\ \A j \in 2..n : j \in 1..n /\ t[j] = s[j - 1] /\ s[j - 1] \in U
  BY <1>8, <1>10
<1>13. t \in [1..n -> T] /\ DOMAIN t = 1..n
  BY <1>8, <1>10, <1>11
<1> HIDE DEF t
<1>14. ToSet(t) = T
  <2>1. \A j \in 1..n : t[j] \in T
    BY <1>13
  <2>2. ASSUME NEW x \in U PROVE \E j \in 1..n : t[j] = x
    <3>1. PICK j \in 1..(n - 1) : s[j] = x
      BY <1>10 DEF ToSet
    <3>2. j + 1 \in 2..n /\ (j + 1) - 1 = j
      BY <1>8
    <3> QED BY <1>12, <3>1, <3>2
  <2>3. \A x \in T : \E j \in 1..n : t[j] = x
    BY <1>11, <1>12, <2>2
  <2> QED BY <1>13, <2>1, <2>3 DEF ToSet
<1>15. \A j, k \in 1..n : j < k => t[j] < t[k]
  <2> SUFFICES ASSUME NEW j \in 1..n, NEW k \in 1..n, j < k
               PROVE  t[j] < t[k]
    OBVIOUS
  <2>1. k \in 2..n /\ k - 1 \in 1..(n - 1)
    BY <1>8
  <2>2. CASE j = 1
    <3>1. t[k] \in U /\ t[k] # m /\ m \in Nat /\ t[k] \in Nat /\ m <= t[k]
      BY <1>7, <1>11, <1>12, <2>1
    <3> QED BY <1>12, <2>2, <3>1
  <2>3. CASE j # 1
    <3>1. j \in 2..n /\ j - 1 \in 1..(n - 1) /\ j - 1 < k - 1
      BY <1>8, <2>1, <2>3
    <3> QED BY <1>10, <1>12, <2>1, <3>1
  <2> QED BY <2>2, <2>3
<1>16. Listed(T)
  BY <1>5, <1>13, <1>14, <1>15 DEF Listed
<1> QED BY <1>5, <1>16

\* And from the greatest to the least.
LEMMA ListedFalling ==
    ASSUME NEW S \in SUBSET Nat, IsFiniteSet(S)
    PROVE  \E s \in [1..Cardinality(S) -> S] :
              /\ ToSet(s) = S
              /\ \A j, k \in 1..Cardinality(S) : j < k => s[j] > s[k]
<1> DEFINE n == Cardinality(S)
<1>1. n \in Nat
  BY FS_CardinalityType
<1>2. PICK s \in [1..n -> S] :
         ToSet(s) = S /\ \A j, k \in 1..n : j < k => s[j] < s[k]
  BY ListedRising
<1> HIDE DEF n
<1> DEFINE t == [j \in 1..n |-> s[n + 1 - j]]
<1>3. \A j \in 1..n : n + 1 - j \in 1..n /\ n + 1 - (n + 1 - j) = j
  BY <1>1
<1>4. t \in [1..n -> S] /\ DOMAIN t = 1..n /\ DOMAIN s = 1..n
  BY <1>2, <1>3
<1>5. \A j \in 1..n : t[j] = s[n + 1 - j] /\ t[n + 1 - j] = s[j]
  BY <1>3
<1> HIDE DEF t
<1>6. ToSet(t) = S
  BY <1>2, <1>3, <1>4, <1>5 DEF ToSet
<1>7. ASSUME NEW j \in 1..n, NEW k \in 1..n, j < k
      PROVE  t[j] > t[k]
  <2>1. n + 1 - k < n + 1 - j
    BY <1>1, <1>7
  <2>2. s[n + 1 - k] < s[n + 1 - j]
    BY <1>2, <1>3, <2>1
  <2>3. s[n + 1 - k] \in Nat /\ s[n + 1 - j] \in Nat
    BY <1>2, <1>3
  <2> QED BY <1>5, <2>2, <2>3
<1> QED BY <1>4, <1>6, <1>7 DEF n
=============================================================================
