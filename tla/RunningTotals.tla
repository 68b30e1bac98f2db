---------------------------- MODULE RunningTotals ---------------------------
(* Sums of lists of amounts, as recursive functions: a sum exists, it is the   *)
(* only one, and it moves by what one amount moves.  The points of the task    *)
(* market and of the shop are such sums.  And the rank of a number in a set,   *)
(* by which Lists filters and sorts.                                           *)
EXTENDS Integers, Lists, WellFoundedInduction, FiniteSetTheorems, TLAPS

(* A set of numbers that is not empty has a smallest one.                      *)
LEMMA SmallestOf ==
    ASSUME NEW T \in SUBSET Nat, T # {}
    PROVE  \E n \in T : \A m \in T : n <= m
<1> DEFINE R == {ss \in Nat \X Nat : ss[1] < ss[2]}
<1>1. IsWellFoundedOn(R, Nat)
  BY NatLessThanWellFounded DEF OpToRel
<1>2. PICK n \in T : \A m \in T : <<m, n>> \notin R
  <2> HIDE DEF R
  <2> QED  BY <1>1, WFMin
<1>3. \A m \in T : ~ (m < n)
  BY <1>2
<1> QED  BY <1>3

(* Running totals.  The library's induction theorems cannot be used (they take *)
(* the property as an operator), so each fact is proved by way of a smallest   *)
(* number for which it fails.                                                  *)
Runs(f, n, d) ==
    f = [a \in 0 .. n |-> IF a = 0 THEN 0 ELSE f[a - 1] + d[a]]

(* Every list of amounts has a running total.                                  *)
LEMMA RunningTotal ==
    ASSUME NEW N \in Nat, NEW d \in [1 .. N -> Int], NEW n \in 0 .. N
    PROVE  \E f \in [0 .. n -> Int] : Runs(f, n, d)
<1> DEFINE T == {k \in Nat : k <= N /\ ~ \E f \in [0 .. k -> Int] : Runs(f, k, d)}
<1>1. SUFFICES ASSUME T # {} PROVE FALSE
  <2>1. n \in Nat /\ n <= N
    OBVIOUS
  <2>2. T = {}
    BY <1>1
  <2> QED  BY <2>1, <2>2
<1>2. PICK k \in T : \A j \in T : k <= j
  <2> HIDE DEF T
  <2>1. T \in SUBSET Nat
    BY DEF T
  <2> QED  BY <1>1, <2>1, SmallestOf
<1>3. k \in Nat /\ k <= N /\ ~ \E f \in [0 .. k -> Int] : Runs(f, k, d)
  BY <1>2
<1>4. CASE k = 0
  <2> DEFINE f == [a \in 0 .. 0 |-> 0]
  <2>1. f \in [0 .. 0 -> Int] /\ f = [a \in 0 .. 0 |-> IF a = 0 THEN 0 ELSE f[a - 1] + d[a]]
    OBVIOUS
  <2> QED  BY <1>3, <1>4, <2>1 DEF Runs
<1>5. CASE k # 0
  <2>1. k - 1 \in Nat /\ k - 1 \notin T
    BY <1>2, <1>3, <1>5
  <2>2. PICK g \in [0 .. (k - 1) -> Int] : Runs(g, k - 1, d)
    BY <1>3, <2>1
  <2> DEFINE f == [a \in 0 .. k |-> IF a = k THEN g[k - 1] + d[k] ELSE g[a]]
  <2>3. f \in [0 .. k -> Int]
    BY <1>3, <1>5
  <2>4. ASSUME NEW a \in 0 .. k PROVE f[a] = IF a = 0 THEN 0 ELSE f[a - 1] + d[a]
    <3>1. CASE a = k
      BY <1>3, <1>5, <3>1
    <3>2. CASE a # k
      <4>1. a \in 0 .. (k - 1) /\ f[a] = g[a] /\ (a # 0 => f[a - 1] = g[a - 1])
        BY <1>3, <3>2
      <4>2. g[a] = IF a = 0 THEN 0 ELSE g[a - 1] + d[a]
        BY <2>2, <4>1 DEF Runs
      <4> QED  BY <4>1, <4>2
    <3> QED  BY <3>1, <3>2
  <2>5. f = [a \in 0 .. k |-> IF a = 0 THEN 0 ELSE f[a - 1] + d[a]]
    <3>1. f = [a \in 0 .. k |-> f[a]]
      OBVIOUS
    <3> HIDE DEF f
    <3> QED  BY <2>4, <3>1
  <2> HIDE DEF f
  <2> QED  BY <1>3, <2>3, <2>5 DEF Runs
<1> QED  BY <1>4, <1>5

(* Two running totals over amounts that differ by x in one place differ by x   *)
(* from there on.                                                              *)
LEMMA RunningChange ==
    ASSUME NEW N \in Nat, NEW d \in [1 .. N -> Int], NEW e \in [1 .. N -> Int],
           NEW b \in 1 .. N, NEW x \in Int, e[b] = d[b] + x,
           \A a \in 1 .. N : a # b => e[a] = d[a],
           NEW f \in [0 .. N -> Int], Runs(f, N, d),
           NEW g \in [0 .. N -> Int], Runs(g, N, e)
    PROVE  g[N] = f[N] + x
<1> DEFINE Right(a) == g[a] = f[a] + (IF a >= b THEN x ELSE 0)
           T == {a \in Nat : a <= N /\ ~Right(a)}
<1>1. CASE T = {}
  <2>1. N \in Nat /\ N <= N
    OBVIOUS
  <2>2. Right(N)
    <3> HIDE DEF Right
    <3> QED  BY <1>1, <2>1
  <2> QED  BY <2>2
<1>2. CASE T # {}
  <2>1. PICK k \in T : \A j \in T : k <= j
    <3> HIDE DEF T
    <3>1. T \in SUBSET Nat
      BY DEF T
    <3> QED  BY <1>2, <3>1, SmallestOf
  <2>2. k \in Nat /\ k <= N /\ ~Right(k)
    BY <2>1
  <2>3. /\ g[k] = IF k = 0 THEN 0 ELSE g[k - 1] + e[k]
        /\ f[k] = IF k = 0 THEN 0 ELSE f[k - 1] + d[k]
    BY <2>2 DEF Runs
  <2>4. CASE k = 0
    BY <2>2, <2>3, <2>4
  <2>5. CASE k # 0
    <3>1. k - 1 \in Nat /\ k - 1 <= N /\ k - 1 \notin T
      <4> HIDE DEF T
      <4> QED  BY <2>1, <2>2, <2>5
    <3>2. Right(k - 1)
      <4> HIDE DEF Right
      <4> QED  BY <3>1
    <3>3. /\ f[k - 1] \in Int /\ f[k] \in Int /\ d[k] \in Int /\ e[k] \in Int
          /\ g[k] = g[k - 1] + e[k] /\ f[k] = f[k - 1] + d[k]
      BY <2>2, <2>3, <2>5, <3>1
    <3>4. e[k] = IF k = b THEN d[k] + x ELSE d[k]
      BY <2>2, <2>5
    <3>5. Right(k)
      <4>1. CASE k < b
        BY <2>2, <3>2, <3>3, <3>4, <4>1
      <4>2. CASE k = b
        BY <2>2, <3>2, <3>3, <3>4, <4>2
      <4>3. CASE k > b
        <5>1. k - 1 >= b /\ k >= b /\ k # b
          BY <2>2, <4>3
        <5>2. g[k - 1] = f[k - 1] + x /\ e[k] = d[k]
          BY <3>2, <3>4, <5>1
        <5>3. g[k] = f[k] + x
          BY ONLY <3>3, <5>2, x \in Int
        <5> QED  BY <5>1, <5>3
      <4> QED  BY <2>2, <4>1, <4>2, <4>3
    <3> QED  BY <2>2, <3>5
  <2> QED  BY <2>4, <2>5
<1> QED  BY <1>1, <1>2

(* A list of amounts has only one running total.                               *)
LEMMA RunningSame ==
    ASSUME NEW N \in Nat, NEW d \in [1 .. N -> Int],
           NEW f \in [0 .. N -> Int], Runs(f, N, d),
           NEW g, Runs(g, N, d)
    PROVE  g = f
<1> DEFINE T == {a \in Nat : a <= N /\ g[a] # f[a]}
<1>1. CASE T = {}
  <2>1. \A a \in 0 .. N : g[a] = f[a]
    BY <1>1
  <2>2. g = [a \in 0 .. N |-> g[a]]
    BY DEF Runs
  <2> QED  BY <2>1, <2>2
<1>2. CASE T # {}
  <2>1. PICK k \in T : \A j \in T : k <= j
    <3> HIDE DEF T
    <3>1. T \in SUBSET Nat
      BY DEF T
    <3> QED  BY <1>2, <3>1, SmallestOf
  <2>2. k \in Nat /\ k <= N /\ g[k] # f[k]
    BY <2>1
  <2>3. /\ g[k] = IF k = 0 THEN 0 ELSE g[k - 1] + d[k]
        /\ f[k] = IF k = 0 THEN 0 ELSE f[k - 1] + d[k]
    BY <2>2 DEF Runs
  <2>4. k # 0
    BY <2>2, <2>3
  <2>5. k - 1 \in Nat /\ k - 1 \notin T
    BY <2>1, <2>2, <2>4
  <2> QED  BY <2>2, <2>3, <2>4, <2>5
<1> QED  BY <1>1, <1>2

(* A number of a finite set stands behind as many as come before it.           *)
LEMMA RankGrows ==
    ASSUME NEW I \in SUBSET Nat, IsFiniteSet(I)
    PROVE  /\ Cardinality(I) \in Nat
           /\ \A i \in I : Rank(i, I) \in 1 .. Cardinality(I)
           /\ \A i, j \in I : i < j => Rank(i, I) < Rank(j, I)
           /\ \A i, j \in I : Rank(i, I) = Rank(j, I) => i = j
           /\ \A k \in 1 .. Cardinality(I) : \E i \in I : Rank(i, I) = k
<1> DEFINE Upto(i) == {j \in I : j <= i}
           c == Cardinality(I)
           f == [i \in I |-> Rank(i, I)]
<1>1. c \in Nat
  BY FS_CardinalityType
<1>2. ASSUME NEW i \in I
      PROVE  /\ Upto(i) \in SUBSET I /\ IsFiniteSet(Upto(i)) /\ Cardinality(Upto(i)) \in Nat
             /\ Cardinality(Upto(i)) <= Cardinality(I) /\ Cardinality(Upto(i)) # 0
  <2>1. Upto(i) \in SUBSET I /\ i \in Upto(i)
    BY <1>2
  <2> HIDE DEF Upto
  <2>2. IsFiniteSet(Upto(i)) /\ Cardinality(Upto(i)) <= Cardinality(I)
    BY <2>1, FS_Subset
  <2> QED  BY <2>1, <2>2, FS_CardinalityType, FS_EmptySet
<1>3. ASSUME NEW i \in I, NEW j \in I, i < j
      PROVE  Cardinality(Upto(i)) < Cardinality(Upto(j))
  <2>1. i \in Int /\ j \in Int
    OBVIOUS
  <2>2. Upto(i) \in SUBSET Upto(j) /\ j \in Upto(j) /\ j \notin Upto(i)
    <3>1. \A l \in Upto(i) : l \in I /\ l \in Int /\ l <= j
      BY <1>3, <2>1
    <3>2. \A l \in I : l <= j => l \in Upto(j)
      OBVIOUS
    <3>3. j \in Upto(j)
      BY <2>1
    <3>4. j \notin Upto(i)
      BY <1>3, <2>1
    <3> QED  BY <3>1, <3>2, <3>3, <3>4
  <2>3. IsFiniteSet(Upto(j)) /\ Cardinality(Upto(i)) \in Nat /\ Cardinality(Upto(j)) \in Nat
    BY <1>2
  <2> HIDE DEF Upto
  <2>4. /\ Cardinality(Upto(i)) <= Cardinality(Upto(j))
        /\ Cardinality(Upto(j)) = Cardinality(Upto(i)) => Upto(j) = Upto(i)
    BY <2>2, <2>3, FS_Subset
  <2> QED  BY <2>2, <2>3, <2>4
<1>4. \A i : Rank(i, I) = Cardinality(Upto(i))
  BY DEF Rank
<1> HIDE DEF Upto, c
<1>5. /\ \A i \in I : Rank(i, I) \in 1 .. c
      /\ \A i, j \in I : i < j => Rank(i, I) < Rank(j, I)
  BY <1>1, <1>2, <1>3, <1>4 DEF c
<1>6. \A i, j \in I : Rank(i, I) = Rank(j, I) => i = j
  <2> SUFFICES ASSUME NEW i \in I, NEW j \in I, i # j PROVE Rank(i, I) # Rank(j, I)
    OBVIOUS
  <2>1. i < j \/ j < i
    OBVIOUS
  <2>2. Rank(i, I) \in Int /\ Rank(j, I) \in Int
    BY <1>5
  <2> QED  BY <1>5, <2>1, <2>2
<1>7. f \in Injection(I, 1 .. c)
  BY <1>5, <1>6 DEF Injection, IsInjective
<1>8. IsFiniteSet(1 .. c) /\ Cardinality(1 .. c) = c
  BY <1>1, FS_Interval
<1>9. f \in Surjection(I, 1 .. c)
  BY <1>7, <1>8, FS_Injection DEF c
<1>10. \A k \in 1 .. c : \E i \in I : Rank(i, I) = k
  BY <1>9 DEF Surjection
<1> QED  BY <1>1, <1>5, <1>6, <1>10 DEF c
=============================================================================
