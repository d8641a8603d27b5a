--------------------------- MODULE SequenceLemmas ---------------------------
(* Facts about sequences the other proofs share.                             *)
EXTENDS Integers, Sequences, SequencesExt, Orders, SequenceTheorems, FiniteSetTheorems, TLAPS

(* Sequences over a set are sequences over a larger one.                     *)
LEMMA SeqGrows ==
  ASSUME NEW S, NEW T, S \subseteq T
  PROVE  Seq(S) \subseteq Seq(T)
  OBVIOUS

(* Removing the i-th element closes the gap.                                 *)
LEMMA RemoveAtProperties ==
  ASSUME NEW S, NEW s \in Seq(S), NEW i \in 1 .. Len(s)
  PROVE  /\ RemoveAt(s, i) \in Seq(S)
         /\ Len(RemoveAt(s, i)) = Len(s) - 1
         /\ \A k \in 1 .. Len(s) - 1 :
              RemoveAt(s, i)[k] = IF k < i THEN s[k] ELSE s[k + 1]
  <1> DEFINE front == SubSeq(s, 1, i - 1)
             back  == SubSeq(s, i + 1, Len(s))
  <1>1. /\ Len(s) \in Nat
        /\ \A k \in 1 .. Len(s) : s[k] \in S
    BY LenProperties
  <1>2. /\ front \in Seq(S) /\ Len(front) = i - 1
        /\ \A k \in 1 .. i - 1 : front[k] = s[k]
    <2>1. i - 1 \in Int /\ \A k \in 1 .. i - 1 : s[k] \in S
      BY <1>1
    <2> QED
      BY <1>1, <2>1, SubSeqProperties
  <1>3. /\ back \in Seq(S) /\ Len(back) = Len(s) - i
        /\ \A k \in 1 .. Len(s) - i : back[k] = s[i + k]
    <2>1. i + 1 \in Int /\ \A k \in i + 1 .. Len(s) : s[k] \in S
      BY <1>1
    <2> QED
      BY <1>1, <2>1, SubSeqProperties
  <1> HIDE DEF front, back
  <1>4. /\ front \o back \in Seq(S)
        /\ Len(front \o back) = Len(front) + Len(back)
        /\ \A k \in 1 .. Len(front) + Len(back) :
             (front \o back)[k] = IF k <= Len(front) THEN front[k]
                                 ELSE back[k - Len(front)]
    BY <1>2, <1>3, ConcatProperties
  <1>5. /\ i \in Int /\ 1 <= i /\ i <= Len(s)
        /\ Len(front) + Len(back) = Len(s) - 1
    BY <1>1, <1>2, <1>3
  <1>6. ASSUME NEW k \in 1 .. Len(s) - 1
        PROVE  (front \o back)[k] = IF k < i THEN s[k] ELSE s[k + 1]
    <2>1. CASE k < i
      BY <2>1, <1>1, <1>2, <1>4, <1>5
    <2>2. CASE ~(k < i)
      <3>1. k - Len(front) \in 1 .. Len(s) - i /\ i + (k - Len(front)) = k + 1
        BY <2>2, <1>1, <1>2, <1>5
      <3>2. (front \o back)[k] = back[k - Len(front)]
        BY <2>2, <1>1, <1>2, <1>4, <1>5
      <3>3. back[k - Len(front)] = s[i + (k - Len(front))]
        BY <3>1, <1>3
      <3> QED
        BY <2>2, <3>1, <3>2, <3>3
    <2> QED
      BY <2>1, <2>2
  <1> QED
    BY <1>4, <1>5, <1>6 DEF RemoveAt, front, back

-----------------------------------------------------------------------------
(* Induction over the naturals for a set, which the provers can instantiate. *)

LEMMA LeastNatural ==
  ASSUME NEW T, T \subseteq Nat, T # {}
  PROVE  \E x \in T : \A y \in T : x <= y
  <1>1. IsWellFoundedOn(OpToRel(<, Nat), Nat)
    BY NatLessThanWellFounded
  <1>2. PICK x \in T : \A y \in T : ~(<<y, x>> \in OpToRel(<, Nat))
    BY <1>1, WFMin
  <1>3. \A y \in T : ~(y < x)
    BY <1>2 DEF OpToRel
  <1> QED
    BY <1>3

LEMMA InductionOnSet ==
  ASSUME NEW S, 0 \in S, \A n \in Nat : n \in S => n + 1 \in S
  PROVE  Nat \subseteq S
  <1> DEFINE T == {n \in Nat : n \notin S}
  <1>1. ASSUME T # {}
        PROVE  FALSE
    <2>1. PICK x \in T : \A y \in T : x <= y
      BY <1>1, LeastNatural
    <2>2. x # 0 /\ x - 1 \in Nat /\ x - 1 \in S
      BY <2>1
    <2> QED
      BY <2>1, <2>2
  <1> QED
    BY <1>1

(* There is a function that adds up the first elements of a sequence.        *)
IsRunningSum(f, d, m) ==
  /\ f \in [0 .. m -> Nat]
  /\ f[0] = 0
  /\ \A k \in 1 .. m : f[k] = f[k - 1] + d[k]

LEMMA RunningSumExists ==
  ASSUME NEW n \in Nat, NEW d, \A k \in 1 .. n : d[k] \in Nat
  PROVE  \E f : IsRunningSum(f, d, n)
  <1> DEFINE S == {m \in Nat : m <= n => \E f : IsRunningSum(f, d, m)}
  <1>1. 0 \in S
    <2>1. IsRunningSum([k \in 0 .. 0 |-> 0], d, 0)
      BY DEF IsRunningSum
    <2> QED
      BY <2>1
  <1>2. ASSUME NEW m \in Nat, m \in S
        PROVE  m + 1 \in S
    <2>1. CASE m + 1 <= n
      <3>1. PICK f : IsRunningSum(f, d, m)
        BY <1>2, <2>1
      <3> DEFINE g == [k \in 0 .. m + 1 |-> IF k = m + 1 THEN f[m] + d[m + 1] ELSE f[k]]
      <3>2. d[m + 1] \in Nat /\ f[m] \in Nat /\ \A k \in 0 .. m : f[k] \in Nat
        BY <2>1, <3>1 DEF IsRunningSum
      <3>3. g \in [0 .. m + 1 -> Nat] /\ g[0] = 0
        BY <3>1, <3>2 DEF IsRunningSum
      <3>4. ASSUME NEW k \in 1 .. m + 1
            PROVE  g[k] = g[k - 1] + d[k]
        <4>1. CASE k = m + 1
          BY <4>1, <3>2
        <4>2. CASE k \in 1 .. m
          BY <4>2, <3>1 DEF IsRunningSum
        <4> QED
          BY <4>1, <4>2
      <3>5. IsRunningSum(g, d, m + 1)
        BY <3>3, <3>4 DEF IsRunningSum
      <3> QED
        BY <3>5
    <2> QED
      BY <2>1
  <1> HIDE DEF S
  <1>3. n \in S
    BY <1>1, <1>2, InductionOnSet
  <1> QED
    BY <1>3 DEF S

(* And it is the one its recursive definition names.                         *)
LEMMA RunningSumIs ==
  ASSUME NEW n \in Nat, NEW d, \A k \in 1 .. n : d[k] \in Nat,
         NEW f, f = [k \in 0 .. n |-> IF k = 0 THEN 0 ELSE f[k - 1] + d[k]]
  PROVE  IsRunningSum(f, d, n)
  <1>1. /\ f[0] = 0 /\ DOMAIN f = 0 .. n
        /\ \A k \in 1 .. n : f[k] = f[k - 1] + d[k]
    <2>1. \A k \in 0 .. n : f[k] = IF k = 0 THEN 0 ELSE f[k - 1] + d[k]
      OBVIOUS
    <2> QED
      BY <2>1
  <1> DEFINE S == {k \in Nat : k <= n => f[k] \in Nat}
  <1>2. 0 \in S
    BY <1>1
  <1>3. ASSUME NEW k \in Nat, k \in S
        PROVE  k + 1 \in S
    BY <1>1, <1>3
  <1>4. Nat \subseteq S
    <2> HIDE DEF S
    <2> QED
      BY <1>2, <1>3, InductionOnSet
  <1>5. \A k \in 0 .. n : f[k] \in Nat
    BY <1>4
  <1>6. f = [k \in 0 .. n |-> f[k]]
    BY <1>1
  <1> QED
    BY <1>1, <1>5, <1>6 DEF IsRunningSum

-----------------------------------------------------------------------------
(* Sets written as sequences.                                                *)

(* An injective sequence of as many elements as the set has leaves out none. *)
LEMMA InjectiveCovers ==
  ASSUME NEW S, IsFiniteSet(S), NEW s \in [1 .. Cardinality(S) -> S],
         \A j, k \in 1 .. Cardinality(S) : s[j] = s[k] => j = k
  PROVE  \A x \in S : \E k \in 1 .. Cardinality(S) : s[k] = x
  <1> DEFINE n == Cardinality(S)
  <1>1. n \in Nat
    BY FS_CardinalityType
  <1>2. IsFiniteSet(1 .. n) /\ Cardinality(1 .. n) = n
    <2>1. 1 \in Int /\ n \in Int
      BY <1>1
    <2> QED
      BY <1>1, <2>1, FS_Interval
  <1>3. s \in Injection(1 .. n, S)
    BY DEF Injection, IsInjective
  <1>4. s \in Surjection(1 .. n, S)
    BY <1>2, <1>3, FS_Injection
  <1> QED
    BY <1>4 DEF Surjection

LEMMA SetToSeqProperties ==
  ASSUME NEW S, IsFiniteSet(S)
  PROVE  /\ SetToSeq(S) \in Seq(S)
         /\ \A x \in S : \E k \in DOMAIN SetToSeq(S) : SetToSeq(S)[k] = x
  <1> DEFINE n == Cardinality(S)
             Fits(f) == f \in [1 .. n -> S] /\ IsInjective(f)
  <1>1. n \in Nat /\ \E f : Fits(f)
    <2>1. n \in Nat /\ ExistsBijection(1 .. n, S)
      BY FS_CardinalityType
    <2> HIDE DEF n
    <2> QED
      BY <2>1 DEF ExistsBijection, Bijection, Injection
  <1>2. SetToSeq(S) = CHOOSE f \in [1 .. n -> S] : IsInjective(f)
    BY DEF SetToSeq
  <1>3. Fits(SetToSeq(S))
    <2> HIDE DEF n
    <2> QED
      BY <1>1, <1>2
  <1>4. \A x \in S : \E k \in 1 .. n : SetToSeq(S)[k] = x
    <2> DEFINE f == SetToSeq(S)
    <2>1. f \in [1 .. n -> S] /\ \A j, k \in 1 .. n : f[j] = f[k] => j = k
      BY <1>3 DEF IsInjective
    <2> HIDE DEF f
    <2>2. \A x \in S : \E k \in 1 .. n : f[k] = x
      BY <2>1, InjectiveCovers
    <2> QED
      BY <2>2 DEF f
  <1> QED
    BY <1>1, <1>3, <1>4

(* A finite set of numbers can be written in ascending order.                *)
IsAscending(s, S) ==
  /\ s \in [1 .. Cardinality(S) -> S]
  /\ \A j, k \in 1 .. Cardinality(S) : j < k => s[j] < s[k]

LEMMA AscendingExists ==
  ASSUME NEW S \in SUBSET Nat, IsFiniteSet(S)
  PROVE  \E s : IsAscending(s, S)
  <1> DEFINE T == {n \in Nat : \A U \in SUBSET Nat :
                     IsFiniteSet(U) /\ Cardinality(U) = n => \E s : IsAscending(s, U)}
  <1>1. 0 \in T
    <2>1. ASSUME NEW U \in SUBSET Nat, IsFiniteSet(U), Cardinality(U) = 0
          PROVE  IsAscending([k \in 1 .. 0 |-> 0], U)
      <3>1. U = {}
        BY <2>1, FS_EmptySet
      <3> QED
        BY <2>1, <3>1 DEF IsAscending
    <2> QED
      BY <2>1
  <1>2. ASSUME NEW n \in Nat, n \in T
        PROVE  n + 1 \in T
    <2>1. ASSUME NEW U \in SUBSET Nat, IsFiniteSet(U), Cardinality(U) = n + 1
          PROVE  \E s : IsAscending(s, U)
      <3>1. U # {}
        BY <2>1, FS_EmptySet
      <3>2. PICK m \in U : \A x \in U : m <= x
        BY <3>1, LeastNatural
      <3> DEFINE V == U \ {m}
      <3>3. IsFiniteSet(V) /\ Cardinality(V) = n /\ V \in SUBSET Nat
        <4>1. IsFiniteSet(V) /\ Cardinality(V) = Cardinality(U) - 1
          BY <2>1, FS_RemoveElement
        <4> QED
          BY <2>1, <4>1
      <3>4. PICK s : IsAscending(s, V)
        BY <1>2, <3>3
      <3> DEFINE t == [k \in 1 .. n + 1 |-> IF k = 1 THEN m ELSE s[k - 1]]
      <3>5. /\ \A k \in 1 .. n : s[k] \in U /\ s[k] \in Nat /\ m < s[k]
            /\ \A j, k \in 1 .. n : j < k => s[j] < s[k]
        <4>1. /\ s \in [1 .. n -> V]
              /\ \A j, k \in 1 .. n : j < k => s[j] < s[k]
          BY <3>3, <3>4 DEF IsAscending
        <4>2. \A x \in V : x \in U /\ x \in Nat /\ m < x
          BY <2>1, <3>2
        <4> QED
          BY <4>1, <4>2
      <3>6. t \in [1 .. n + 1 -> U]
        BY <3>5
      <3>7. ASSUME NEW j \in 1 .. n + 1, NEW k \in 1 .. n + 1, j < k
            PROVE  t[j] < t[k]
        <4>1. k # 1 /\ k - 1 \in 1 .. n /\ t[k] = s[k - 1]
          BY <3>7
        <4>2. CASE j = 1
          BY <3>5, <4>1, <4>2
        <4>3. CASE j # 1
          <5>1. j - 1 \in 1 .. n /\ t[j] = s[j - 1] /\ j - 1 < k - 1
            BY <3>7, <4>3
          <5> QED
            BY <3>5, <4>1, <5>1
        <4> QED
          BY <4>2, <4>3
      <3>8. IsAscending(t, U)
        BY <2>1, <3>6, <3>7 DEF IsAscending
      <3> QED
        BY <3>8
    <2> QED
      BY <2>1
  <1>3. Nat \subseteq T
    <2> HIDE DEF T
    <2> QED
      BY <1>1, <1>2, InductionOnSet
  <1>4. Cardinality(S) \in Nat
    BY FS_CardinalityType
  <1> QED
    BY <1>3, <1>4

LEMMA AscendingProperties ==
  ASSUME NEW S \in SUBSET Nat, IsFiniteSet(S)
  PROVE  /\ Ascending(S) \in Seq(S)
         /\ Len(Ascending(S)) = Cardinality(S)
         /\ \A j, k \in DOMAIN Ascending(S) : j < k => Ascending(S)[j] < Ascending(S)[k]
         /\ \A x \in S : \E k \in DOMAIN Ascending(S) : Ascending(S)[k] = x
  <1> DEFINE s == Ascending(S)
             n == Cardinality(S)
  <1>1. n \in Nat
    BY FS_CardinalityType
  <1>2. IsAscending(s, S)
    <2>1. \E t : IsAscending(t, S)
      BY AscendingExists
    <2> QED
      BY <2>1 DEF Ascending, IsAscending
  <1> HIDE DEF s
  <1>3. \A j, k \in 1 .. n : s[j] = s[k] => j = k
    <2>1. /\ \A k \in 1 .. n : s[k] \in Nat
          /\ \A j, k \in 1 .. n : j < k => s[j] < s[k]
      BY <1>2 DEF IsAscending
    <2> HIDE DEF n
    <2>2. ASSUME NEW j \in 1 .. n, NEW k \in 1 .. n, s[j] = s[k]
          PROVE  j = k
      <3>1. ~(j < k) /\ ~(k < j)
        BY <2>1, <2>2
      <3> QED
        BY <1>1, <3>1
    <2> QED
      BY <2>2
  <1>4. \A x \in S : \E k \in 1 .. n : s[k] = x
    BY <1>2, <1>3, InjectiveCovers DEF IsAscending
  <1>5. s \in Seq(S) /\ Len(s) = n /\ DOMAIN s = 1 .. n
    BY <1>1, <1>2 DEF IsAscending
  <1> QED
    BY <1>2, <1>4, <1>5 DEF IsAscending, s
=============================================================================
