------------------------------ MODULE ListFacts ------------------------------
(* Facts about data that the proofs about several modules rest on:         *)
(* induction and recursion over the naturals, and sequences.               *)
EXTENDS SequencesExt, SequenceTheorems, FiniteSetTheorems, TLAPS

\* A set of naturals with 0 that has the successor of each of its elements
\* has all naturals.  (The library's induction theorems are about operators,
\* which the provers do not instantiate; this one is about a set.)
LEMMA SetInduction ==
  ASSUME NEW S, 0 \in S, \A n \in Nat : n \in S => n + 1 \in S
  PROVE  \A n \in Nat : n \in S
<1> DEFINE R == OpToRel(<, Nat)
           T == Nat \ S
<1>1. IsWellFoundedOn(R, Nat)
  BY Zenon, NatLessThanWellFounded
<1>2. SUFFICES ASSUME T # {} PROVE FALSE
  OBVIOUS
<1>3. T \subseteq Nat
  OBVIOUS
<1>4. \A x \in Nat, y \in Nat : x < y => <<x, y>> \in R
  BY Zenon DEF OpToRel
<1> HIDE DEF R, T
<1>5. PICK x \in T : \A y \in T : ~ (<<y, x>> \in R)
  BY Zenon, <1>1, <1>2, <1>3, WFMin
<1>6. x \in Nat /\ x # 0 /\ x \notin S
  BY DEF T
<1>7. x - 1 \in Nat /\ x - 1 \in T /\ x - 1 < x
  BY <1>6 DEF T
<1> QED
  BY Zenon, <1>4, <1>5, <1>6, <1>7

\* A set that has a number whenever it has all smaller ones has all.
LEMMA StrongInduction ==
  ASSUME NEW S, \A n \in Nat : (\A m \in 0 .. n - 1 : m \in S) => n \in S
  PROVE  \A n \in Nat : n \in S
<1> DEFINE T == {n \in Nat : \A m \in 0 .. n - 1 : m \in S}
<1>1. 0 \in T
  OBVIOUS
<1>2. ASSUME NEW n \in Nat, n \in T
      PROVE  n + 1 \in T
  <2>1. n \in S
    BY <1>2
  <2>2. \A m \in 0 .. (n + 1) - 1 : m = n \/ m \in 0 .. n - 1
    OBVIOUS
  <2> QED
    BY <1>2, <2>1, <2>2
<1>3. \A n \in Nat : n \in T => n \in S
  OBVIOUS
<1> HIDE DEF T
<1>4. \A n \in Nat : n \in T
  BY Zenon, <1>1, <1>2, SetInduction
<1> QED
  BY <1>3, <1>4

\* A set of naturals has a least element.
LEMMA Least ==
  ASSUME NEW S \in SUBSET Nat, S # {}
  PROVE  \E k \in S : \A j \in S : k <= j
<1> DEFINE T == {n \in Nat : n \in S => \E k \in S : \A j \in S : k <= j}
<1>1. ASSUME NEW n \in Nat, \A m \in 0 .. n - 1 : m \in T
      PROVE  n \in T
  <2> SUFFICES ASSUME n \in S
               PROVE  \E k \in S : \A j \in S : k <= j
    OBVIOUS
  <2>1. CASE \E j \in S : j < n
    <3>1. PICK j \in S : j < n
      BY <2>1
    <3>2. j \in 0 .. n - 1
      BY <3>1
    <3> QED
      BY <1>1, <3>1, <3>2
  <2>2. CASE \A j \in S : ~ (j < n)
    <3>1. \A j \in S : n <= j
      BY <2>2
    <3> QED
      BY <3>1
  <2> QED
    BY <2>1, <2>2
<1> HIDE DEF T
<1>2. \A n \in Nat : n \in T
  BY Zenon, <1>1, StrongInduction
<1>3. PICK n : n \in S
  OBVIOUS
<1> QED
  BY <1>2, <1>3 DEF T

\* A set of naturals up to n has a greatest, the one the community module names.
LEMMA Largest ==
  ASSUME NEW n \in Nat, NEW S \in SUBSET (1 .. n), S # {}
  PROVE  /\ \E k \in S : \A j \in S : j <= k
         /\ Max(S) \in S /\ \A j \in S : j <= Max(S)
<1> DEFINE R == {n - k : k \in S}
<1>1. R \in SUBSET Nat /\ R # {}
  <2>1. ASSUME NEW k \in S
        PROVE  n - k \in Nat
    OBVIOUS
  <2> QED
    BY <2>1
<1> HIDE DEF R
<1>2. PICK m \in R : \A j \in R : m <= j
  BY <1>1, Least
<1> USE DEF R
<1>3. PICK k \in S : m = n - k
  OBVIOUS
<1>4. \A j \in S : n - j \in R
  OBVIOUS
<1> HIDE DEF R
<1>5. ASSUME NEW j \in S
      PROVE  j <= k
  <2>1. n - k <= n - j
    BY <1>2, <1>3, <1>4
  <2>2. j \in Int /\ k \in Int
    OBVIOUS
  <2> QED
    BY <2>1, <2>2
<1>6. \E x \in S : \A y \in S : y <= x
  BY <1>5
<1>7. \E x \in S : \A y \in S : x >= y
  BY <1>5
<1>8. Max(S) \in S /\ \A y \in S : Max(S) >= y
  BY Zenon, <1>7 DEF Max
<1>9. \A y \in S : y <= Max(S)
  BY <1>8
<1> QED
  BY <1>6, <1>8, <1>9

\* A value can be carried through n steps.
LEMMA Recursion ==
  ASSUME NEW S, NEW x \in S, NEW n \in Nat, NEW F \in [1 .. n -> [S -> S]]
  PROVE  \E f \in [0 .. n -> S] :
           f[0] = x /\ \A k \in 1 .. n : f[k] = F[k][f[k - 1]]
<1> DEFINE Does(f, m) == /\ f \in [0 .. m -> S]
                         /\ f[0] = x
                         /\ \A k \in 1 .. m : f[k] = F[k][f[k - 1]]
           T == {m \in Nat : m <= n => \E f : Does(f, m)}
<1>1. 0 \in T
  <2>1. Does([k \in 0 .. 0 |-> x], 0)
    OBVIOUS
  <2> QED
    BY <2>1
<1>2. ASSUME NEW m \in Nat, m \in T
      PROVE  m + 1 \in T
  <2> SUFFICES ASSUME m + 1 <= n
               PROVE  \E f : Does(f, m + 1)
    OBVIOUS
  <2>1. PICK f : Does(f, m)
    BY <1>2
  <2>2. m + 1 \in 1 .. n /\ f[m] \in S
    BY <2>1
  <2>3. F[m + 1][f[m]] \in S
    BY <2>2
  <2> DEFINE g == [k \in 0 .. m + 1 |-> IF k = m + 1 THEN F[m + 1][f[m]] ELSE f[k]]
  <2>4. g \in [0 .. m + 1 -> S] /\ g[0] = x
    BY <2>1, <2>3
  <2>5. ASSUME NEW k \in 1 .. m + 1
        PROVE  g[k] = F[k][g[k - 1]]
    <3>1. CASE k = m + 1
      BY <3>1
    <3>2. CASE k # m + 1
      <4>1. k \in 1 .. m /\ k - 1 \in 0 .. m
        BY <3>2
      <4>2. g[k] = f[k] /\ g[k - 1] = f[k - 1]
        BY <4>1
      <4> QED
        BY <2>1, <4>1, <4>2
    <3> QED
      BY <3>1, <3>2
  <2> HIDE DEF g
  <2>6. Does(g, m + 1)
    BY <2>4, <2>5
  <2> QED
    BY <2>6
<1> HIDE DEF T
<1>3. \A m \in Nat : m \in T
  BY Zenon, <1>1, <1>2, SetInduction
<1>4. n \in T
  BY <1>3
<1> QED
  BY <1>4 DEF T

\* A finite set, listed: each element once.
LEMMA Listed ==
  ASSUME NEW S, IsFiniteSet(S)
  PROVE  /\ SetToSeq(S) \in Seq(S)
         /\ Len(SetToSeq(S)) = Cardinality(S) /\ Cardinality(S) \in Nat
         /\ IsInjective(SetToSeq(S))
         /\ ToSet(SetToSeq(S)) = S
<1> DEFINE n == Cardinality(S)
           f == SetToSeq(S)
<1>1. n \in Nat /\ ExistsBijection(1 .. n, S)
  BY Zenon, FS_CardinalityType
<1>2. \E g \in [1 .. n -> S] : IsInjective(g)
  BY Zenon, <1>1 DEF ExistsBijection, Bijection, Injection
<1>3. f \in [1 .. n -> S] /\ IsInjective(f)
  BY Zenon, <1>2 DEF SetToSeq
<1> HIDE DEF f
<1>4. f \in Injection(1 .. n, S)
  BY Zenon, <1>3 DEF Injection
<1>5. IsFiniteSet(1 .. n) /\ Cardinality(1 .. n) = n
  BY <1>1, FS_Interval
<1>6. f \in Surjection(1 .. n, S)
  BY Zenon, <1>4, <1>5, FS_Injection
<1>7. ToSet(f) = S
  <2>1. \A t \in S : \E k \in 1 .. n : f[k] = t
    BY Zenon, <1>6 DEF Surjection
  <2> QED
    BY <1>3, <2>1 DEF ToSet
<1>8. f \in Seq(S) /\ Len(f) = n
  BY <1>1, <1>3
<1> QED
  BY Zenon, <1>1, <1>3, <1>7, <1>8 DEF f

\* A sequence, item by item.
LEMMA ListOf ==
  ASSUME NEW S, NEW n \in Nat, NEW e, DOMAIN e = 1 .. n,
         e = [k \in 1 .. n |-> e[k]],
         \A k \in 1 .. n : e[k] \in S
  PROVE  e \in Seq(S) /\ Len(e) = n
<1>1. e \in [1 .. n -> S]
  OBVIOUS
<1> QED
  BY <1>1

\* A finite set in an order of somebody's choice: each element once.
LEMMA Ordered ==
  ASSUME NEW S, IsFiniteSet(S), NEW f \in SetToSeqs(S)
  PROVE  f \in Seq(S) /\ IsInjective(f) /\ ToSet(f) = S
<1> DEFINE n == Cardinality(S)
<1>1. n \in Nat
  BY FS_CardinalityType
<1>2. f \in [1 .. n -> S] /\ \A i, j \in 1 .. n : i # j => f[i] # f[j]
  BY DEF SetToSeqs
<1>3. IsInjective(f)
  BY <1>2 DEF IsInjective
<1>4. f \in Injection(1 .. n, S)
  BY Zenon, <1>2, <1>3 DEF Injection
<1>5. IsFiniteSet(1 .. n) /\ Cardinality(1 .. n) = n
  BY <1>1, FS_Interval
<1>6. f \in Surjection(1 .. n, S)
  BY Zenon, <1>4, <1>5, FS_Injection
<1>7. \A t \in S : \E k \in 1 .. n : f[k] = t
  BY Zenon, <1>6 DEF Surjection
<1> QED
  BY <1>1, <1>2, <1>3, <1>7 DEF ToSet

\* An element added behind the others.
LEMMA OneMore ==
  ASSUME NEW S, NEW s \in Seq(S), NEW x \in S
  PROVE  /\ ToSet(Append(s, x)) = ToSet(s) \cup {x}
         /\ IsInjective(s) /\ x \notin ToSet(s) => IsInjective(Append(s, x))
<1> DEFINE t == Append(s, x)  n == Len(s)
<1>1. /\ n \in Nat /\ DOMAIN s = 1 .. n /\ DOMAIN t = 1 .. n + 1
      /\ t[n + 1] = x /\ \A k \in 1 .. n : t[k] = s[k]
  OBVIOUS
<1> HIDE DEF t, n
<1>2. ToSet(t) = ToSet(s) \cup {x}
  BY <1>1 DEF ToSet
<1>3. ASSUME IsInjective(s), x \notin ToSet(s)
      PROVE  IsInjective(t)
  BY <1>1, <1>3 DEF IsInjective, ToSet
<1> QED
  BY <1>2, <1>3 DEF t

\* Adding an element behind the second of two lists, or behind both.
LEMMA AppendAfter ==
  ASSUME NEW S, NEW g \in Seq(S), NEW b \in Seq(S), NEW v \in S
  PROVE  g \o Append(b, v) = Append(g \o b, v)
<1> DEFINE last == <<v>>
<1>1. last \in Seq(S)
  OBVIOUS
<1>2. Append(b, v) = b \o last
  BY AppendIsConcat
<1>3. g \o b \in Seq(S)
  BY ConcatProperties
<1>4. Append(g \o b, v) = (g \o b) \o last
  BY <1>3, AppendIsConcat
<1> HIDE DEF last
<1>5. g \o (b \o last) = (g \o b) \o last
  BY <1>1, ConcatAssociative
<1> QED
  BY <1>2, <1>4, <1>5
=============================================================================
