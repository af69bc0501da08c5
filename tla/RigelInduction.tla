--------------------------- MODULE RigelInduction ---------------------------
(***************************************************************************)
(* Induction over the natural numbers, without an operator parameter, and  *)
(* what follows from it: least and greatest elements, and that a recursive *)
(* definition over the numbers defines a function.                         *)
(***************************************************************************)
EXTENDS WellFoundedInduction, FiniteSetTheorems, Naturals, TLAPS

\* The order of the numbers, as a relation.
Below == {pair \in Nat \X Nat : pair[1] < pair[2]}

\* A set of numbers has a least element.
LEMMA LeastNumber ==
  ASSUME NEW T, T \subseteq Nat, T # {}
  PROVE  \E m \in T : \A k \in T : m <= k
<1>1. OpToRel(<, Nat) = Below
  BY DEF OpToRel, Below
<1>2. IsWellFoundedOn(Below, Nat)
  BY <1>1, NatLessThanWellFounded
<1>3. PICK m \in T : \A k \in T : <<k, m>> \notin Below
  BY <1>2, WFMin
<1>4. ASSUME NEW k \in T PROVE m <= k
  <2>1. m \in Nat /\ k \in Nat /\ ~(k < m)
    BY <1>3 DEF Below
  <2> QED
    BY <2>1
<1> QED
  BY <1>4

\* A set of numbers that holds 0, and with a number the next, holds all.
LEMMA AllNumbers ==
  ASSUME NEW S, 0 \in S, \A n \in Nat : n \in S => n + 1 \in S
  PROVE  Nat \subseteq S
<1> SUFFICES ASSUME Nat \ S # {} PROVE FALSE
  OBVIOUS
<1>1. PICK m \in Nat \ S : \A k \in Nat \ S : m <= k
  BY LeastNumber
<1>2. m # 0 /\ m - 1 \in Nat /\ m - 1 + 1 = m
  BY <1>1
<1>3. m - 1 \in S
  <2>1. ~(m <= m - 1)
    BY <1>2
  <2> QED
    BY <1>1, <1>2, <2>1
<1> QED
  BY <1>1, <1>2, <1>3

\* A bounded set of numbers has a greatest element.
LEMMA GreatestNumber ==
  ASSUME NEW S, S \subseteq Nat, S # {}, NEW n \in Nat, \A x \in S : x <= n
  PROVE  \E m \in S : \A x \in S : x <= m
<1> DEFINE T == {d \in Nat : n - d \in S}
<1>1. T # {}
  <2>1. PICK x \in S : x <= n
    OBVIOUS
  <2>2. n - x \in Nat /\ n - (n - x) = x
    BY <2>1
  <2> QED
    BY <2>1, <2>2
<1>2. PICK d \in T : \A e \in T : d <= e
  <2> HIDE DEF T
  <2>1. T \subseteq Nat
    BY DEF T
  <2> QED
    BY <1>1, <2>1, LeastNumber
<1>3. ASSUME NEW x \in S PROVE x <= n - d
  <2>1. n - x \in Nat /\ n - (n - x) = x /\ x \in Nat
    OBVIOUS
  <2>2. n - x \in T
    BY <2>1
  <2> QED
    BY <1>2, <2>1, <2>2
<1> QED
  BY <1>2, <1>3

\* f starts at start, and goes on by step, which is told the place.
Iterates(f, start, step) ==
  f[0] = start /\ \A n \in Nat : f[n + 1] = step[<<n, f[n]>>]

\* What a recursive definition over the numbers describes exists.
LEMMA Iteration ==
  ASSUME NEW S, NEW start \in S, NEW step \in [Nat \X S -> S]
  PROVE  \E f \in [Nat -> S] : Iterates(f, start, step)
<1> DEFINE Upto(n) == {g \in [0..n -> S] :
                         g[0] = start /\ \A i \in 0..(n - 1) : g[i + 1] = step[<<i, g[i]>>]}
           Exists == {n \in Nat : Upto(n) # {}}
           Agree == {i \in Nat : \A m, n \in Nat : \A g \in Upto(m), h \in Upto(n) :
                       i <= m /\ i <= n => g[i] = h[i]}
<1>1. 0 \in Exists
  <2> DEFINE g == [i \in 0..0 |-> start]
  <2>1. g \in Upto(0)
    OBVIOUS
  <2> QED
    BY <2>1
<1>2. ASSUME NEW n \in Nat, n \in Exists PROVE n + 1 \in Exists
  <2>1. PICK g \in Upto(n) : TRUE
    BY <1>2
  <2>2. /\ g \in [0..n -> S] /\ g[0] = start /\ 0..n \subseteq Nat /\ g[n] \in S
        /\ \A i \in 0..(n - 1) : g[i + 1] = step[<<i, g[i]>>]
    BY <2>1
  <2> DEFINE h == [i \in 0..(n + 1) |-> IF i = n + 1 THEN step[<<n, g[n]>>] ELSE g[i]]
  <2>3. \A i \in 0..(n + 1) : i = n + 1 \/ i \in 0..n
    OBVIOUS
  <2>4. h \in [0..(n + 1) -> S]
    BY <2>2, <2>3
  <2>5. h[0] = start
    BY <2>2
  <2>6. ASSUME NEW i \in 0..(n + 1 - 1) PROVE h[i + 1] = step[<<i, h[i]>>]
    <3>1. i \in 0..n /\ i + 1 \in 0..(n + 1) /\ i # n + 1
      OBVIOUS
    <3>2. CASE i = n
      <4>1. h[n + 1] = step[<<n, g[n]>>] /\ h[n] = g[n]
        OBVIOUS
      <4> QED
        BY <3>2, <4>1
    <3>3. CASE i # n
      <4>1. i \in 0..(n - 1) /\ i + 1 # n + 1
        BY <3>1, <3>3
      <4> QED
        BY <2>2, <3>1, <4>1
    <3> QED
      BY <3>2, <3>3
  <2> HIDE DEF h
  <2>7. h \in Upto(n + 1)
    BY <2>4, <2>5, <2>6
  <2> QED
    BY <2>7
<1>3. Nat \subseteq Exists
  <2> HIDE DEF Exists
  <2> QED
    BY <1>1, <1>2, AllNumbers
<1>4. 0 \in Agree
  OBVIOUS
<1>5. ASSUME NEW i \in Nat, i \in Agree PROVE i + 1 \in Agree
  <2> SUFFICES ASSUME NEW m \in Nat, NEW n \in Nat, NEW g \in Upto(m), NEW h \in Upto(n),
                      i + 1 <= m, i + 1 <= n
               PROVE  g[i + 1] = h[i + 1]
    OBVIOUS
  <2>1. i <= m /\ i <= n /\ i \in 0..(m - 1) /\ i \in 0..(n - 1)
    OBVIOUS
  <2>2. g[i] = h[i]
    BY <1>5, <2>1
  <2>3. g[i + 1] = step[<<i, g[i]>>] /\ h[i + 1] = step[<<i, h[i]>>]
    BY <2>1
  <2> QED
    BY <2>2, <2>3
<1>6. Nat \subseteq Agree
  <2> HIDE DEF Agree
  <2> QED
    BY <1>4, <1>5, AllNumbers
<1> DEFINE pick == [n \in Nat |-> CHOOSE g \in Upto(n) : TRUE]
           f == [n \in Nat |-> pick[n][n]]
<1>7. \A n \in Nat : pick[n] \in Upto(n)
  BY <1>3
<1> HIDE DEF pick
<1>8. \A n \in Nat : n \in 0..n /\ f[n] = pick[n][n] /\ f[n] \in S
  BY <1>7
<1>9. f[0] = start
  BY <1>7, <1>8
<1>10. ASSUME NEW n \in Nat PROVE f[n + 1] = step[<<n, f[n]>>]
  <2>1. pick[n] \in Upto(n) /\ pick[n + 1] \in Upto(n + 1)
    BY <1>7
  <2>2. n \in 0..(n + 1 - 1) /\ n <= n /\ n <= n + 1
    OBVIOUS
  <2>3. pick[n + 1][n + 1] = step[<<n, pick[n + 1][n]>>]
    BY <2>1, <2>2
  <2>4. pick[n + 1][n] = pick[n][n]
    <3>0. n + 1 \in Nat
      OBVIOUS
    <3>1. n \in Agree
      <4> HIDE DEF Agree
      <4> QED
        BY <1>6
    <3>2. \A g \in Upto(n + 1), h \in Upto(n) : n <= n + 1 /\ n <= n => g[n] = h[n]
      BY <3>0, <3>1
    <3> HIDE DEF Upto
    <3> QED
      BY <2>1, <2>2, <3>2
  <2> QED
    BY <1>8, <2>3, <2>4
<1> HIDE DEF f
<1>11. f \in [Nat -> S]
  BY <1>8 DEF f
<1> QED
  BY <1>9, <1>10, <1>11 DEF Iterates

\* A running total exists.
LEMMA Total ==
  ASSUME NEW a \in Nat, NEW c \in [Nat -> Nat]
  PROVE  \E s \in [Nat -> Nat] : s = [d \in Nat |-> IF d = 0 THEN a ELSE s[d - 1] + c[d]]
<1> DEFINE step == [p \in Nat \X Nat |-> p[2] + c[p[1] + 1]]
<1>1. step \in [Nat \X Nat -> Nat]
  OBVIOUS
<1>2. PICK s \in [Nat -> Nat] : Iterates(s, a, step)
  <2> HIDE DEF step
  <2> QED
    BY <1>1, Iteration
<1>3. s[0] = a /\ \A n \in Nat : s[n + 1] = s[n] + c[n + 1]
  <2>1. \A n \in Nat : step[<<n, s[n]>>] = s[n] + c[n + 1]
    OBVIOUS
  <2> QED
    BY <1>2, <2>1 DEF Iterates
<1>4. ASSUME NEW d \in Nat PROVE s[d] = IF d = 0 THEN a ELSE s[d - 1] + c[d]
  <2>1. CASE d = 0
    BY <1>3, <2>1
  <2>2. CASE d # 0
    <3>1. d - 1 \in Nat /\ d - 1 + 1 = d
      BY <2>2
    <3>2. s[d - 1 + 1] = s[d - 1] + c[d - 1 + 1]
      BY <1>3, <3>1
    <3> QED
      BY <2>2, <3>1, <3>2
  <2> QED
    BY <2>1, <2>2
<1>5. s = [d \in Nat |-> IF d = 0 THEN a ELSE s[d - 1] + c[d]]
  BY <1>4
<1> QED
  BY <1>5

\* What is in one of two places only is counted once.
LEMMA DisjointUnion ==
  ASSUME NEW S, NEW T, IsFiniteSet(S), IsFiniteSet(T), S \cap T = {}
  PROVE  Cardinality(S \cup T) = Cardinality(S) + Cardinality(T)
<1>1. Cardinality(S \cap T) = 0
  BY FS_EmptySet
<1>2. Cardinality(S) \in Nat /\ Cardinality(T) \in Nat
  BY FS_CardinalityType
<1>3. Cardinality(S \cup T) = Cardinality(S) + Cardinality(T) - Cardinality(S \cap T)
  BY FS_Union
<1> QED
  BY <1>1, <1>2, <1>3
=============================================================================
