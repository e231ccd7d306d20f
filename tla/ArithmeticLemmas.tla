-------------------------- MODULE ArithmeticLemmas --------------------------
(***************************************************************************)
(* The arithmetic the proofs stand on: induction and recursion over the    *)
(* natural numbers, sums of weights over sets of keys, integer division,   *)
(* and votes_needed for every precision, weight and percentage.            *)
(***************************************************************************)
EXTENDS Weights, DecimalMath, FiniteSetTheorems, WellFoundedInduction, TLAPS

----------------------------------------------------------------------------
\* Induction and recursion over the natural numbers

\* Induction: a set that has 0 and with every number the next one has all.
LEMMA NatSetInduction ==
    ASSUME NEW S, 0 \in S, \A n \in Nat : n \in S => n + 1 \in S
    PROVE  Nat \subseteq S
<1> DEFINE T == Nat \ S
<1>1. ASSUME T # {} PROVE FALSE
  <2>1. \E x \in T : \A y \in T : ~(<<y, x>> \in OpToRel(<, Nat))
    <3>1. T \subseteq Nat
      OBVIOUS
    <3> HIDE DEF T
    <3> QED
      BY <1>1, <3>1, NatLessThanWellFounded, WFMin
  <2>2. PICK x \in T : \A y \in T : ~(y < x)
    BY <2>1 DEF OpToRel
  <2>3. x # 0 /\ x - 1 \in Nat /\ x - 1 < x
    OBVIOUS
  <2>4. x - 1 \in S
    BY <2>2, <2>3
  <2> QED
    BY <2>3, <2>4
<1> QED
  BY <1>1

\* A nonempty set of numbers has a least one.
LEMMA LeastNumber ==
    ASSUME NEW S \in SUBSET Nat, S # {}
    PROVE  \E x \in S : \A y \in S : x <= y
<1>1. PICK x \in S : \A y \in S : ~(<<y, x>> \in OpToRel(<, Nat))
  BY NatLessThanWellFounded, WFMin
<1>2. \A y \in S : ~(y < x)
  BY <1>1 DEF OpToRel
<1> QED
  BY <1>2

\* f goes from the value of n to the value of n + 1 by step[n].
Follows(f, step) == \A n \in Nat : f[n + 1] = step[n][f[n]]

\* What a recursive function is defined by has a solution.
LEMMA RecursionHasSolution ==
    ASSUME NEW V, NEW a \in V, NEW step \in [Nat -> [V -> V]]
    PROVE  \E f \in [Nat -> V] : f[0] = a /\ Follows(f, step)
<1> DEFINE Begins(n, g) == /\ g[0] = a
                           /\ \A k \in 0 .. n - 1 : g[k + 1] = step[k][g[k]]
           Long == {n \in Nat : \E g \in [0 .. n -> V] : Begins(n, g)}
           Same == {k \in Nat : \A n, m \in Nat :
                       \A g \in [0 .. n -> V], h \in [0 .. m -> V] :
                          /\ Begins(n, g) /\ Begins(m, h)
                          /\ k <= n /\ k <= m
                          => g[k] = h[k]}
<1>1. \A n \in Nat : \E g \in [0 .. n -> V] : Begins(n, g)
  <2>1. 0 \in Long
    <3>1. [k \in 0 .. 0 |-> a] \in [0 .. 0 -> V]
      OBVIOUS
    <3>2. Begins(0, [k \in 0 .. 0 |-> a])
      OBVIOUS
    <3> QED
      BY <3>1, <3>2
  <2>2. ASSUME NEW n \in Nat, n \in Long PROVE n + 1 \in Long
    <3>1. PICK g \in [0 .. n -> V] : Begins(n, g)
      BY <2>2
    <3> DEFINE h == [k \in 0 .. n + 1 |->
                        IF k = n + 1 THEN step[n][g[n]] ELSE g[k]]
    <3>2. h \in [0 .. n + 1 -> V]
      OBVIOUS
    <3>3. h[0] = a
      BY <3>1
    <3>4. ASSUME NEW k \in 0 .. n PROVE h[k + 1] = step[k][h[k]]
      <4>1. h[k] = g[k]
        OBVIOUS
      <4>2. CASE k = n
        BY <4>1, <4>2
      <4>3. CASE k # n
        <5>1. k \in 0 .. n - 1 /\ k + 1 \in 0 .. n /\ k + 1 # n + 1
          BY <4>3
        <5>2. h[k + 1] = g[k + 1]
          BY <5>1
        <5> QED
          BY <3>1, <4>1, <5>1, <5>2
      <4> QED
        BY <4>2, <4>3
    <3>5. n + 1 - 1 = n
      OBVIOUS
    <3> HIDE DEF h
    <3>6. Begins(n + 1, h)
      BY <3>3, <3>4, <3>5
    <3> QED
      BY <3>2, <3>6
  <2> HIDE DEF Long
  <2>3. Nat \subseteq Long
    BY <2>1, <2>2, NatSetInduction
  <2> QED
    BY <2>3 DEF Long
<1>2. ASSUME NEW n \in Nat, NEW m \in Nat, NEW k \in Nat, k <= n, k <= m,
             NEW g \in [0 .. n -> V], NEW h \in [0 .. m -> V],
             Begins(n, g), Begins(m, h)
      PROVE  g[k] = h[k]
  <2>1. 0 \in Same
    OBVIOUS
  <2>2. ASSUME NEW i \in Nat, i \in Same PROVE i + 1 \in Same
    <3>1. ASSUME NEW p \in Nat, NEW q \in Nat,
                 NEW u \in [0 .. p -> V], NEW w \in [0 .. q -> V],
                 Begins(p, u), Begins(q, w), i + 1 <= p, i + 1 <= q
          PROVE  u[i + 1] = w[i + 1]
      <4>1. i <= p /\ i <= q /\ i \in 0 .. p - 1 /\ i \in 0 .. q - 1
        BY <3>1
      <4>2. u[i] = w[i]
        <5> HIDE DEF Begins
        <5> QED
          BY <2>2, <3>1, <4>1
      <4>3. u[i + 1] = step[i][u[i]] /\ w[i + 1] = step[i][w[i]]
        BY <3>1, <4>1
      <4> QED
        BY <4>2, <4>3
    <3>2. i + 1 \in Nat
      OBVIOUS
    <3> HIDE DEF Begins
    <3> QED
      BY <3>1, <3>2
  <2> HIDE DEF Same
  <2>3. k \in Same
    BY <2>1, <2>2, NatSetInduction
  <2> QED
    BY <1>2, <2>3 DEF Same
<1> DEFINE part == [n \in Nat |->
                       CHOOSE g \in [0 .. n -> V] : Begins(n, g)]
           f == [n \in Nat |-> part[n][n]]
<1>3. \A n \in Nat : part[n] \in [0 .. n -> V] /\ Begins(n, part[n])
  BY <1>1
<1> HIDE DEF part
<1>4. f \in [Nat -> V]
  BY <1>3
<1>5. f[0] = a
  BY <1>3
<1>6. ASSUME NEW n \in Nat PROVE f[n + 1] = step[n][f[n]]
  <2>1. n + 1 \in Nat /\ n \in 0 .. n + 1 - 1 /\ n <= n + 1
    OBVIOUS
  <2>2. part[n + 1][n + 1] = step[n][part[n + 1][n]]
    BY <1>3, <2>1
  <2>3. part[n + 1][n] = part[n][n]
    <3> HIDE DEF Begins
    <3>1. /\ part[n + 1] \in [0 .. n + 1 -> V] /\ Begins(n + 1, part[n + 1])
          /\ part[n] \in [0 .. n -> V] /\ Begins(n, part[n])
      BY <1>3, <2>1
    <3>2. n <= n
      OBVIOUS
    <3> QED
      BY <1>2, <2>1, <3>1, <3>2
  <2> QED
    BY <2>1, <2>2, <2>3
<1> HIDE DEF f
<1> QED
  BY <1>4, <1>5, <1>6 DEF Follows

----------------------------------------------------------------------------
\* Sums of weights: additive, monotone, and a single key adds its weight

\* Finitely many keys hold finitely many units.
LEMMA UnitsFinite ==
    ASSUME NEW w, NEW S, IsFiniteSet(S)
    PROVE  /\ IsFiniteSet(Units(w, S))
           /\ WeightSum(w, S) \in Nat
<1>1. IsFiniteSet(S \X (1 .. MaxU64))
  <2>1. MaxU64 \in Int
    BY U64Assumption
  <2>2. IsFiniteSet(1 .. MaxU64)
    BY <2>1, FS_Interval
  <2> QED
    BY <2>2, FS_Product
<1>2. Units(w, S) \in SUBSET (S \X (1 .. MaxU64))
  BY DEF Units
<1>3. IsFiniteSet(Units(w, S))
  BY <1>1, <1>2, FS_Subset
<1> QED
  BY <1>3, FS_CardinalityType DEF WeightSum

\* No keys weigh nothing.
LEMMA WeightSumEmpty == ASSUME NEW w PROVE WeightSum(w, {}) = 0
<1>1. Units(w, {}) = {}
  BY DEF Units
<1> QED
  BY <1>1, FS_EmptySet DEF WeightSum

\* More keys weigh at least as much.
LEMMA WeightSumMonotone ==
    ASSUME NEW w, NEW S, IsFiniteSet(S), NEW T \in SUBSET S
    PROVE  WeightSum(w, T) <= WeightSum(w, S)
<1>1. Units(w, T) \in SUBSET Units(w, S)
  BY DEF Units
<1> QED
  BY <1>1, UnitsFinite, FS_Subset DEF WeightSum

\* The cardinalities of disjoint finite sets add up.
LEMMA CardinalityDisjoint ==
    ASSUME NEW S, IsFiniteSet(S), NEW T, IsFiniteSet(T), S \cap T = {}
    PROVE  Cardinality(S \cup T) = Cardinality(S) + Cardinality(T)
<1>1. Cardinality(S \cup T)
        = Cardinality(S) + Cardinality(T) - Cardinality(S \cap T)
  BY FS_Union
<1>2. Cardinality(S \cap T) = 0
  BY FS_EmptySet
<1>3. Cardinality(S) \in Nat /\ Cardinality(T) \in Nat
  BY FS_CardinalityType
<1> QED
  BY <1>1, <1>2, <1>3

\* The weights of disjoint sets of keys add up.
LEMMA WeightSumDisjoint ==
    ASSUME NEW w, NEW S, IsFiniteSet(S), NEW T, IsFiniteSet(T), S \cap T = {}
    PROVE  WeightSum(w, S \cup T) = WeightSum(w, S) + WeightSum(w, T)
<1>1. Units(w, S \cup T) = Units(w, S) \cup Units(w, T)
  BY DEF Units
<1>2. Units(w, S) \cap Units(w, T) = {}
  BY DEF Units
<1>3. IsFiniteSet(Units(w, S)) /\ IsFiniteSet(Units(w, T))
  BY UnitsFinite
<1>4. Cardinality(Units(w, S) \cup Units(w, T))
        = Cardinality(Units(w, S)) + Cardinality(Units(w, T))
  BY <1>2, <1>3, CardinalityDisjoint
<1> QED
  BY <1>1, <1>4 DEF WeightSum

\* One key weighs its weight.
LEMMA WeightSumSingleton ==
    ASSUME NEW w, NEW k, w[k] \in U64
    PROVE  WeightSum(w, {k}) = w[k]
<1> DEFINE f == [i \in 1 .. w[k] |-> <<k, i>>]
<1>1. Units(w, {k}) = {<<k, i>> : i \in 1 .. w[k]}
  BY U64Assumption DEF Units, U64
<1>2. f \in Bijection(1 .. w[k], Units(w, {k}))
  <2>1. f \in [1 .. w[k] -> Units(w, {k})]
    BY <1>1
  <2>2. \A i, j \in 1 .. w[k] : f[i] = f[j] => i = j
    OBVIOUS
  <2>3. \A t \in Units(w, {k}) : \E i \in 1 .. w[k] : f[i] = t
    BY <1>1
  <2> QED
    BY <2>1, <2>2, <2>3
    DEF Bijection, Injection, Surjection, IsInjective
<1>3. /\ IsFiniteSet(1 .. w[k])
      /\ Cardinality(1 .. w[k]) = w[k]
  <2>1. w[k] \in Nat
    BY U64Assumption DEF U64
  <2>2. Cardinality(1 .. w[k]) = IF 1 > w[k] THEN 0 ELSE w[k] - 1 + 1
    BY <2>1, FS_Interval
  <2>3. IsFiniteSet(1 .. w[k])
    BY <2>1, FS_Interval
  <2>4. Cardinality(1 .. w[k]) = w[k]
    BY <2>1, <2>2
  <2> QED
    BY <2>3, <2>4
<1>4. Cardinality(Units(w, {k})) = Cardinality(1 .. w[k])
  BY <1>2, <1>3, FS_Bijection DEF ExistsBijection
<1> QED
  BY <1>3, <1>4 DEF WeightSum

\* A further key adds its weight.
LEMMA WeightSumAddKey ==
    ASSUME NEW w, NEW S, IsFiniteSet(S), NEW k, k \notin S, w[k] \in U64
    PROVE  WeightSum(w, S \cup {k}) = WeightSum(w, S) + w[k]
<1>1. IsFiniteSet({k}) /\ S \cap {k} = {}
  BY FS_Singleton
<1>2. WeightSum(w, S \cup {k}) = WeightSum(w, S) + WeightSum(w, {k})
  BY <1>1, WeightSumDisjoint
<1> QED
  BY <1>2, WeightSumSingleton

\* Only the weights of the keys in question matter.
LEMMA WeightSumAgree ==
    ASSUME NEW w, NEW u, NEW S, \A k \in S : w[k] = u[k]
    PROVE  WeightSum(w, S) = WeightSum(u, S)
<1>1. Units(w, S) = Units(u, S)
  BY DEF Units
<1> QED
  BY <1>1 DEF WeightSum

----------------------------------------------------------------------------
\* Integer division

\* What rounds down: the largest multiple that is not greater.
LEMMA DivisionBounds ==
    ASSUME NEW a \in Nat, NEW b \in Nat \ {0}
    PROVE  /\ a \div b \in Nat
           /\ b * (a \div b) <= a
           /\ a < b * (a \div b) + b
OBVIOUS

\* A factor can be cancelled.
LEMMA CancelLess ==
    ASSUME NEW a \in Int, NEW b \in Int, NEW c \in Nat \ {0}, c * a < c * b
    PROVE  a < b
OBVIOUS

LEMMA ScaleLess ==
    ASSUME NEW a \in Int, NEW b \in Int, NEW c \in Nat, a <= b
    PROVE  c * a <= c * b
OBVIOUS

----------------------------------------------------------------------------
\* votes_needed

\* A percentage none of whose digits is cut off by votes_needed: one of at
\* most nine decimals in the code.
NoExcessDigits(percent) == (PRECISION_FACTOR * percent) % DECIMAL_FRACTIONAL = 0

\* What is cut off and rounded up again is no more than the exact share.
LEMMA VotesNeededAtMost ==
    ASSUME NEW w \in Nat, NEW p \in Nat, NEW y \in Nat,
           y * DECIMAL_FRACTIONAL >= p * w
    PROVE  /\ VotesNeeded(w, p) \in Nat
           /\ y >= VotesNeeded(w, p)
<1> DEFINE D == DECIMAL_FRACTIONAL
           F == PRECISION_FACTOR
           m == MulDecimal(F * w, p)
           n == VotesNeeded(w, p)
<1>1. D \in Nat \ {0} /\ F \in Nat \ {0}
  BY DecimalAssumption
<1>2. F * w * p \in Nat /\ F * y \in Nat
  BY <1>1
<1>3. m \in Nat /\ D * m <= F * w * p
  BY <1>1, <1>2, DivisionBounds DEF MulDecimal
<1>4. F * (p * w) <= F * (y * D)
  BY <1>1, ScaleLess
<1>5. D * m <= D * (F * y)
  BY <1>1, <1>3, <1>4
<1>6. m <= F * y
  BY <1>1, <1>2, <1>3, <1>5
<1>7. n = (m + F - 1) \div F
  BY DEF VotesNeeded
<1> HIDE DEF m, n, D, F
<1>8. n \in Nat /\ F * n <= m + F - 1
  BY <1>1, <1>3, <1>7, DivisionBounds
<1>9. F * n < F * (y + 1)
  <2>1. F * (y + 1) = F * y + F
    BY <1>1
  <2>2. F * y \in Int /\ F * n \in Int
    BY <1>1, <1>8
  <2> QED
    BY <1>1, <1>3, <1>6, <1>8, <2>1, <2>2
<1>10. n < y + 1
  BY <1>1, <1>8, <1>9, CancelLess
<1> QED
  BY <1>8, <1>10 DEF n

LEMMA VotesNeededInteger ==
    ASSUME NEW w \in Nat, NEW p \in Nat
    PROVE  VotesNeeded(w, p) \in Int
<1>1. DECIMAL_FRACTIONAL \in Nat \ {0} /\ PRECISION_FACTOR \in Nat \ {0}
  BY DecimalAssumption
<1>2. PRECISION_FACTOR * w * p \in Nat
  BY <1>1
<1>3. MulDecimal(PRECISION_FACTOR * w, p) \in Nat
  BY <1>1, <1>2, DivisionBounds DEF MulDecimal
<1> QED
  BY <1>1, <1>3, DivisionBounds DEF VotesNeeded

\* Without excess digits it is no less, either.
LEMMA VotesNeededAtLeast ==
    ASSUME NEW w \in Nat, NEW p \in Nat, NoExcessDigits(p)
    PROVE  VotesNeeded(w, p) * DECIMAL_FRACTIONAL >= p * w
<1> DEFINE D == DECIMAL_FRACTIONAL
           F == PRECISION_FACTOR
           e == (F * p) \div D
           m == MulDecimal(F * w, p)
           n == VotesNeeded(w, p)
<1>1. D \in Nat \ {0} /\ F \in Nat \ {0}
  BY DecimalAssumption
<1>2. F * p \in Nat
  BY <1>1
<1>3. e \in Nat /\ F * p = D * e
  BY <1>1, <1>2 DEF NoExcessDigits
<1>4. m = (F * w * p) \div D
  BY DEF MulDecimal
<1>5. n = (m + F - 1) \div F
  BY DEF VotesNeeded
<1> HIDE DEF m, n, D, F, e
<1>6. F * w * p = D * (e * w)
  BY <1>1, <1>3
<1>7. e * w \in Nat /\ F * w * p \in Nat
  BY <1>1, <1>3
<1>8. m \in Nat /\ F * w * p < D * m + D
  BY <1>1, <1>4, <1>7, DivisionBounds
<1>9. D * (e * w) < D * (m + 1)
  BY <1>1, <1>6, <1>8
<1>10. e * w < m + 1
  BY <1>1, <1>7, <1>8, <1>9, CancelLess
<1>11. n \in Nat /\ m + F - 1 < F * n + F
  BY <1>1, <1>5, <1>8, DivisionBounds
<1>12. e * w <= F * n
  BY <1>1, <1>7, <1>8, <1>10, <1>11
<1>13. D * (e * w) <= D * (F * n)
  BY <1>1, <1>7, <1>11, <1>12, ScaleLess
<1>14. F * (p * w) <= F * (n * D)
  BY <1>1, <1>6, <1>11, <1>13
<1>15. ~(n * D < p * w)
  <2>1. n * D \in Int /\ p * w \in Int
    BY <1>1, <1>11
  <2> QED
    BY <1>1, <1>14, <2>1
<1> QED
  BY <1>1, <1>11, <1>15 DEF n, D
=============================================================================
