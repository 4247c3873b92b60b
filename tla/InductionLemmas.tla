--------------------------- MODULE InductionLemmas ---------------------------
(* Induction as facts about sets: the least member of a set of numbers, the *)
(* first member of a finite set in the order of a rank, and the powers of   *)
(* two, for the proofs about the other modules.                             *)
EXTENDS Integers, FiniteSets, FiniteSetTheorems, WellFoundedInduction, TLAPS

(* A family of finite sets that has a member has a smallest one: one that   *)
(* no other member is a part of.                                            *)
LEMMA SmallestSet ==
  ASSUME NEW T, T # {}, \A X \in T : IsFiniteSet(X)
  PROVE  \E X \in T : \A Y \in T : Y \subseteq X => Y = X
<1> DEFINE S == UNION T
<1>1. T \subseteq FiniteSubsetsOf(S) BY DEF FiniteSubsetsOf
<1>2. IsWellFoundedOn(StrictSubsetOrdering(S), FiniteSubsetsOf(S))
  BY FS_StrictSubsetOrderingWellFounded
<1>3. PICK X \in T : \A Y \in T : <<Y, X>> \notin StrictSubsetOrdering(S)
  BY <1>1, <1>2, WFMin
<1>4. ASSUME NEW Y \in T, Y \subseteq X PROVE Y = X
  BY <1>3, <1>4 DEF StrictSubsetOrdering
<1> QED BY <1>4

(* Every set of numbers with a member has a least one.                      *)
LEMMA LeastNat ==
  ASSUME NEW S \in SUBSET Nat, S # {}
  PROVE  \E n \in S : \A m \in S : n <= m
<1> DEFINE T == {0..n : n \in S}
<1>1. T # {} OBVIOUS
<1>2. \A X \in T : IsFiniteSet(X)
  <2> TAKE X \in T
  <2>1. PICK n \in S : X = 0..n OBVIOUS
  <2>2. n \in Int /\ 0 \in Int OBVIOUS
  <2> QED BY <2>1, <2>2, FS_Interval
<1>3. \E X \in T : \A Y \in T : Y \subseteq X => Y = X
  <2> HIDE DEF T
  <2> QED BY <1>1, <1>2, SmallestSet
<1>4. PICK n \in S : \A Y \in T : Y \subseteq 0..n => Y = 0..n BY <1>3
<1>5. ASSUME NEW m \in S, m < n PROVE FALSE
  <2>1. 0..m \subseteq 0..n /\ n \in 0..n /\ n \notin 0..m BY <1>5
  <2> QED BY <1>4, <2>1
<1> QED BY <1>5

(* In a finite set the members of the lowest rank come first.               *)
LEMMA LeastRank ==
  ASSUME NEW S, S # {}, NEW rank, \A x \in S : rank[x] \in Nat
  PROVE  \E x \in S : \A y \in S : rank[x] <= rank[y]
<1>1. {rank[x] : x \in S} \in SUBSET Nat /\ {rank[x] : x \in S} # {}
  OBVIOUS
<1>2. PICK n \in {rank[x] : x \in S} : \A m \in {rank[x] : x \in S} : n <= m
  BY <1>1, LeastNat
<1> QED BY <1>2

(* The powers of two count the subsets, which is how they are doubled.      *)
LEMMA PowerOfTwo ==
  ASSUME NEW n \in Nat
  PROVE  2 ^ n \in Nat /\ 2 ^ (n + 1) = 2 * 2 ^ n
<1> DEFINE S == 1..n
           x == n + 1
           A == SUBSET S
           B == {X \cup {x} : X \in A}
<1>1. /\ IsFiniteSet(S) /\ Cardinality(S) = n
      /\ IsFiniteSet(1..(n + 1)) /\ Cardinality(1..(n + 1)) = n + 1
  BY FS_Interval
<1>2. /\ IsFiniteSet(A) /\ Cardinality(A) = 2 ^ n
      /\ Cardinality(SUBSET (1..(n + 1))) = 2 ^ (n + 1)
  BY <1>1, FS_SUBSET
<1>3. 2 ^ n \in Nat BY <1>2, FS_CardinalityType
<1>4. IsFiniteSet(B) /\ Cardinality(B) = Cardinality(A)
  <2> DEFINE f == [X \in A |-> X \cup {x}]
  <2>1. x \notin S OBVIOUS
  <2>2. f \in Bijection(A, B)
    <3>1. f \in [A -> B] OBVIOUS
    <3>2. ASSUME NEW X \in A, NEW Y \in A, f[X] = f[Y] PROVE X = Y
      <4>1. X = (X \cup {x}) \ {x} /\ Y = (Y \cup {x}) \ {x} BY <2>1
      <4> QED BY <3>2, <4>1
    <3>3. \A Y \in B : \E X \in A : f[X] = Y OBVIOUS
    <3> HIDE DEF f, A, B
    <3> QED BY <3>1, <3>2, <3>3 DEF Bijection, Injection, Surjection, IsInjective
  <2>3. ExistsBijection(A, B) BY <2>2 DEF ExistsBijection
  <2> HIDE DEF A, B
  <2> QED BY <1>2, <2>3, FS_Bijection
<1>5. SUBSET (1..(n + 1)) = A \cup B
  <2>1. ASSUME NEW X \in SUBSET (1..(n + 1)) PROVE X \in A \cup B
    <3>1. 1..(n + 1) = S \cup {x} OBVIOUS
    <3>2. CASE x \in X
      <4>1. X \ {x} \in A /\ X = (X \ {x}) \cup {x} BY <3>1, <3>2
      <4> QED BY <4>1
    <3>3. CASE x \notin X BY <3>1, <3>3
    <3> QED BY <3>2, <3>3
  <2>2. \A X \in A \cup B : X \in SUBSET (1..(n + 1)) OBVIOUS
  <2> QED BY <2>1, <2>2
<1>6. A \cap B = {} OBVIOUS
<1>7. Cardinality(A \cup B) = Cardinality(A) + Cardinality(B) - 0
  <2> HIDE DEF A, B
  <2>1. Cardinality(A \cup B)
          = Cardinality(A) + Cardinality(B) - Cardinality(A \cap B)
    BY <1>2, <1>4, FS_Union
  <2> QED BY <1>6, <2>1, FS_EmptySet
<1>8. 2 ^ (n + 1) = Cardinality(A) + Cardinality(A) - 0
  BY <1>2, <1>4, <1>5, <1>7
<1> HIDE DEF A
<1> QED BY <1>2, <1>3, <1>8

(* Two to the n is more than n.                                             *)
LEMMA PowerGrows ==
  ASSUME NEW n \in Nat
  PROVE  2 ^ n > n
<1> DEFINE S == {k \in Nat : ~(2 ^ k > k)}
<1>1. SUFFICES ASSUME S # {} PROVE FALSE
  <2>1. n \notin S => 2 ^ n > n OBVIOUS
  <2> QED BY <2>1
<1>2. PICK k \in S : \A m \in S : k <= m BY <1>1, LeastNat
<1>3. CASE k = 0
  <2>1. 2 ^ 0 = 1 OBVIOUS
  <2> QED BY <1>3, <2>1, <1>2
<1>4. CASE k # 0
  <2>1. k - 1 \in Nat /\ (k - 1) + 1 = k BY <1>4
  <2>2. 2 ^ (k - 1) > k - 1 BY <1>2, <2>1
  <2>3. 2 ^ (k - 1) \in Nat /\ 2 ^ k = 2 * 2 ^ (k - 1) BY <2>1, PowerOfTwo
  <2>4. 2 ^ k > k BY <2>1, <2>2, <2>3
  <2> QED BY <2>4, <1>2
<1> QED BY <1>3, <1>4
=============================================================================
