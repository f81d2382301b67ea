---------------------------- MODULE SharedProofs -----------------------------
(***************************************************************************)
(* Facts the proofs of several components need: on least and greatest      *)
(* elements and on division, on rows selected by their positions, on       *)
(* sequences put together, and on the levels of a book that rows are       *)
(* applied to.                                                             *)
(***************************************************************************)
EXTENDS BookReplayer, Selections, FiniteSetsExt, FiniteSetTheorems, TLAPS

(***************************************************************************)
(* Numbers.                                                                *)
(***************************************************************************)

\* Every set of naturals with an element has a least one.
LEMMA LeastElement ==
    ASSUME NEW T \in SUBSET Nat, T # {}
    PROVE  \E m \in T : \A k \in T : m <= k
  <1>1. PICK m \in T : \A k \in T : <<k, m>> \notin OpToRel(<, Nat)
    BY WFMin, NatLessThanWellFounded
  <1>2. \A k \in T : ~ (k < m)
    BY <1>1, Zenon DEF OpToRel
  <1> QED BY <1>2

\* Induction over the members of a set.
LEMMA StepByStep ==
    ASSUME NEW S, NEW n \in Nat, 0 \in S, \A m \in 0 .. n - 1 : m \in S => m + 1 \in S
    PROVE  \A m \in 0 .. n : m \in S
  <1> DEFINE T == {m \in 0 .. n : m \notin S}
  <1> SUFFICES ASSUME T # {} PROVE FALSE
    OBVIOUS
  <1>1. PICK m \in T : \A k \in T : m <= k
    <2>1. T \in SUBSET Nat
      OBVIOUS
    <2> QED BY <2>1, LeastElement
  <1>2. m \in 1 .. n /\ m \notin S
    OBVIOUS
  <1>3. m - 1 \in 0 .. n - 1 /\ m - 1 \in S /\ (m - 1) + 1 = m
    BY <1>1, <1>2
  <1> QED BY <1>2, <1>3

\* Min picks it.
LEMMA MinIsLeast ==
    ASSUME NEW T \in SUBSET Nat, T # {}
    PROVE  Min(T) \in T /\ \A k \in T : Min(T) <= k
  <1>1. \E m \in T : \A k \in T : m =< k
    BY LeastElement
  <1> QED BY <1>1 DEF Min

\* Every bounded set of naturals with an element has a greatest one, and
\* Max picks it.
LEMMA MaxIsGreatest ==
    ASSUME NEW n \in Nat, NEW T \in SUBSET (0 .. n), T # {}
    PROVE  Max(T) \in T /\ \A k \in T : k <= Max(T)
  <1> DEFINE U == {n - k : k \in T}
  <1>1. U \in SUBSET Nat /\ U # {}
    <2>1. \A k \in T : n - k \in Nat
      OBVIOUS
    <2> QED BY <2>1
  <1>2. PICK u \in U : \A v \in U : u <= v
    BY <1>1, LeastElement
  <1>3. PICK m \in T : u = n - m
    BY <1>2
  <1>4. \A k \in T : m >= k
    <2>1. \A k \in T : n - m <= n - k
      BY <1>2, <1>3
    <2> QED BY <2>1
  <1> QED BY <1>4 DEF Max

LEMMA MaxIs ==
    ASSUME NEW T \in SUBSET Int, NEW m \in T, \A k \in T : k <= m
    PROVE  Max(T) = m
  <1>1. m \in T /\ \A k \in T : m >= k
    OBVIOUS
  <1>2. Max(T) \in T /\ \A k \in T : Max(T) >= k
    BY <1>1 DEF Max
  <1>3. Max(T) \in Int /\ m \in Int /\ Max(T) >= m /\ m >= Max(T)
    BY <1>1, <1>2
  <1> QED BY <1>3

\* Division with remainder, the only fact about \div and % the rest uses.
LEMMA DivMod ==
    ASSUME NEW a \in Int, NEW m \in Nat \ {0}
    PROVE  /\ a \div m \in Int /\ a % m \in 0 .. m - 1
           /\ a = m * (a \div m) + (a % m)
  BY SMT

LEMMA MultiplesOrder ==
    ASSUME NEW x \in Int, NEW y \in Int, NEW m \in Nat \ {0}
    PROVE  x <= y <=> m * x <= m * y
  <1>1. ASSUME NEW u \in Int, NEW v \in Int, u <= v PROVE m * u <= m * v
    <2>1. PICK d \in Nat : v = u + d
      BY <1>1, v - u \in Nat
    <2>2. m * v = m * u + m * d /\ m * d \in Nat /\ m * u \in Int
      BY <2>1
    <2> QED BY <2>2
  <1>2. ASSUME y + 1 <= x PROVE ~ (m * x <= m * y)
    <2>1. m * (y + 1) <= m * x
      BY <1>1, <1>2
    <2>2. m * (y + 1) = m * y + m /\ m * y \in Int /\ m * x \in Int
      OBVIOUS
    <2> QED BY <2>1, <2>2
  <1> QED BY <1>1, <1>2

\* A number is one multiple and a remainder in one way only.
LEMMA DivModIs ==
    ASSUME NEW q \in Int, NEW m \in Nat \ {0}, NEW r \in 0 .. m - 1, NEW a \in Int, a = m * q + r
    PROVE  a \div m = q /\ a % m = r
  <1>1. PICK p \in Int, s \in 0 .. m - 1 : p = a \div m /\ s = a % m /\ a = m * p + s
    BY DivMod
  <1>2. m * p \in Int /\ m * q \in Int /\ m * (p + 1) = m * p + m /\ m * (q + 1) = m * q + m
    OBVIOUS
  <1>3. p + 1 <= q => m * (p + 1) <= m * q
    BY MultiplesOrder, p + 1 \in Int
  <1>4. q + 1 <= p => m * (q + 1) <= m * p
    BY MultiplesOrder, q + 1 \in Int
  <1>5. p = q
    BY <1>1, <1>2, <1>3, <1>4
  <1> QED BY <1>1, <1>2, <1>5

\* A count goes past a grid point exactly when it reaches the next multiple.
LEMMA NextMultiple ==
    ASSUME NEW s \in Nat, NEW e \in Nat, s < e, NEW m \in Nat \ {0},
           NEW next, next = (s \div m + 1) * m
    PROVE  /\ e < next => e \div m = s \div m
           /\ e < next <=> ~ \E k \in s + 1 .. e : k % m = 0
  <1>0. s \div m \in Int /\ s % m \in 0 .. m - 1 /\ s = m * (s \div m) + (s % m)
    BY DivMod
  <1>1. PICK q \in Int, r \in 0 .. m - 1 : q = s \div m /\ r = s % m /\ s = m * q + r
    BY <1>0
  <1>2. next = m * (q + 1) /\ next \in Int
    BY <1>1
  <1>4. m * q \in Int /\ next = m * q + m
    BY <1>2
  <1>5. ASSUME e < next PROVE e \div m = q
    <2>1. PICK t \in 0 .. m - 1 : e = m * q + t
      BY <1>1, <1>4, <1>5, e - m * q \in 0 .. m - 1
    <2> QED BY <2>1, DivModIs
  <1>6. ASSUME e < next, NEW k \in s + 1 .. e, k % m = 0 PROVE FALSE
    <2>1. PICK p \in Int : k = m * p
      <3>1. k \in Int /\ k = m * (k \div m) + (k % m) /\ k \div m \in Int
        BY DivMod
      <3>2. k = m * (k \div m)
        BY <1>6, <3>1
      <3> QED BY <3>1, <3>2
    <2>2. m * q <= m * p /\ ~ (m * (q + 1) <= m * p)
      BY <1>1, <1>2, <1>4, <1>6, <2>1
    <2>3. q <= p /\ ~ (q + 1 <= p)
      BY <2>2, MultiplesOrder, q + 1 \in Int
    <2>4. p = q
      BY <2>3
    <2> QED BY <1>1, <2>1, <2>4
  <1>7. ASSUME next <= e PROVE \E k \in s + 1 .. e : k % m = 0
    <2>1. next \in s + 1 .. e
      BY <1>1, <1>4, <1>7
    <2>2. next = m * (q + 1) + 0 /\ q + 1 \in Int /\ 0 \in 0 .. m - 1
      BY <1>2
    <2>3. next % m = 0
      BY <2>2, DivModIs
    <2> QED BY <2>1, <2>3
  <1>8. /\ next <= e \/ e < next
        /\ ~ (next <= e /\ e < next)
    BY <1>2
  <1>9. e < next <=> ~ \E k \in s + 1 .. e : k % m = 0
    <2>1. CASE e < next
      BY <2>1, <1>6, Zenon
    <2>2. CASE next <= e
      BY <2>2, <1>7, <1>8, Zenon
    <2> QED BY <2>1, <2>2, <1>8, Zenon
  <1>10. e < next => e \div m = s \div m
    BY <1>1, <1>5
  <1> QED BY <1>9, <1>10, Zenon

LEMMA DivisionOrder ==
    ASSUME NEW a \in Int, NEW b \in Int, a <= b, NEW m \in Nat \ {0}
    PROVE  a \div m \in Int /\ b \div m \in Int /\ a \div m <= b \div m
  <1>1. PICK x \in Int, y \in Int, u \in 0 .. m - 1, v \in 0 .. m - 1 :
           /\ x = a \div m /\ y = b \div m
           /\ a = m * x + u /\ b = m * y + v
    <2>1. a \div m \in Int /\ a % m \in 0 .. m - 1 /\ a = m * (a \div m) + (a % m)
      BY DivMod
    <2>2. b \div m \in Int /\ b % m \in 0 .. m - 1 /\ b = m * (b \div m) + (b % m)
      BY DivMod
    <2> QED BY <2>1, <2>2, Zenon
  <1>2. ASSUME y + 1 <= x PROVE FALSE
    <2>1. m * (y + 1) <= m * x
      BY <1>2, MultiplesOrder, y + 1 \in Int
    <2>2. m * (y + 1) = m * y + m /\ m * y \in Int /\ m * x \in Int
      OBVIOUS
    <2> QED BY <1>1, <2>1, <2>2
  <1> QED BY <1>1, <1>2

LEMMA MaxOfTwo ==
    ASSUME NEW a \in Int
    PROVE  Max({0, a}) = IF a >= 0 THEN a ELSE 0
  <1>1. {0, a} \in SUBSET Int /\ \A k \in {0, a} : k <= IF a >= 0 THEN a ELSE 0
    OBVIOUS
  <1> QED BY <1>1, MaxIs

LEMMA MinOfTwo ==
    ASSUME NEW a \in Int, NEW b \in Int
    PROVE  Min({a, b}) = IF a <= b THEN a ELSE b
  <1>1. PICK m \in Int : m = IF a <= b THEN a ELSE b
    OBVIOUS
  <1>2. m \in {a, b} /\ \A k \in {a, b} : m <= k
    BY <1>1
  <1>3. Min({a, b}) \in {a, b} /\ \A k \in {a, b} : Min({a, b}) <= k
    BY <1>2 DEF Min
  <1>4. Min({a, b}) \in Int /\ Min({a, b}) <= m /\ m <= Min({a, b})
    BY <1>2, <1>3
  <1> QED BY <1>1, <1>4

\* Numbers that grow.
Ascend(ends, n) ==
    /\ n \in Nat /\ \A k \in 0 .. n : ends[k] \in Nat
    /\ \A k \in 0 .. n - 1 : ends[k] <= ends[k + 1]

LEMMA Ascending ==
    ASSUME NEW ends, NEW n, Ascend(ends, n), NEW i \in 0 .. n, NEW j \in 0 .. n, i <= j
    PROVE  ends[i] <= ends[j]
  <1>1. /\ n \in Nat /\ \A k \in 0 .. n : ends[k] \in Nat
        /\ \A k \in 0 .. n - 1 : ends[k] <= ends[k + 1]
    BY DEF Ascend
  <1>2. PICK m \in Nat : m = j - i /\ i + m = j
    BY <1>1, j - i \in Nat
  <1> DEFINE S == {d \in 0 .. m : ends[i] <= ends[i + d]}
  <1>3. 0 \in S
    BY <1>1, i + 0 = i
  <1>4. ASSUME NEW d \in 0 .. m - 1, d \in S PROVE d + 1 \in S
    <2>1. i + d \in 0 .. n - 1 /\ i + d \in 0 .. n /\ (i + d) + 1 = i + (d + 1) /\ i + (d + 1) \in 0 .. n
          /\ d + 1 \in 0 .. m
      BY <1>1, <1>2
    <2>2. ends[i + d] <= ends[i + (d + 1)] /\ ends[i] <= ends[i + d]
      BY <1>1, <1>4, <2>1
    <2>3. ends[i] \in Nat /\ ends[i + d] \in Nat /\ ends[i + (d + 1)] \in Nat
      BY <1>1, <2>1
    <2> QED BY <2>1, <2>2, <2>3
  <1>5. \A d \in 0 .. m : d \in S
    <2> HIDE DEF S
    <2> QED BY <1>3, <1>4, StepByStep
  <1>6. m \in 0 .. m
    OBVIOUS
  <1> QED BY <1>2, <1>5, <1>6

(***************************************************************************)
(* Selections.                                                             *)
(***************************************************************************)

PositionsTo(S, i) == {j \in S : j <= i}

LEMMA PositionsToType ==
    ASSUME NEW n \in Nat, NEW S \in SUBSET (1 .. n), NEW i
    PROVE  /\ IsFiniteSet(S) /\ Cardinality(S) \in Nat
           /\ PositionsTo(S, i) \in SUBSET S
           /\ IsFiniteSet(PositionsTo(S, i)) /\ Cardinality(PositionsTo(S, i)) \in Nat
           /\ Cardinality(PositionsTo(S, i)) <= Cardinality(S)
  <1>1. IsFiniteSet(1 .. n)
    BY FS_Interval
  <1>2. IsFiniteSet(S)
    BY <1>1, FS_Subset
  <1>3. PositionsTo(S, i) \in SUBSET S
    BY DEF PositionsTo
  <1>4. IsFiniteSet(PositionsTo(S, i)) /\ Cardinality(PositionsTo(S, i)) <= Cardinality(S)
    BY <1>2, <1>3, FS_Subset
  <1> QED BY <1>2, <1>3, <1>4, FS_CardinalityType

\* How many positions there are up to one grows by one at each of them.
LEMMA PositionsToNext ==
    ASSUME NEW n \in Nat, NEW S \in SUBSET (1 .. n), NEW i \in Int
    PROVE  /\ i \in S => Cardinality(PositionsTo(S, i)) = Cardinality(PositionsTo(S, i - 1)) + 1
           /\ i \notin S => Cardinality(PositionsTo(S, i)) = Cardinality(PositionsTo(S, i - 1))
  <1>1. \A j \in S : j \in Int /\ (j <= i <=> j <= i - 1 \/ j = i)
    <2>1. \A j \in S : j \in Int
      OBVIOUS
    <2>2. \A j \in Int : (j <= i <=> j <= i - 1 \/ j = i)
      OBVIOUS
    <2> QED BY <2>1, <2>2
  <1>2. ~ (i <= i - 1)
    OBVIOUS
  <1>3. CASE i \in S
    <2>1. \A j : j \in PositionsTo(S, i) <=> j \in PositionsTo(S, i - 1) \cup {i}
      BY <1>1, <1>3, Zenon DEF PositionsTo
    <2>2. PositionsTo(S, i) = PositionsTo(S, i - 1) \cup {i} /\ i \notin PositionsTo(S, i - 1)
      BY <2>1, <1>2, Zenon DEF PositionsTo
    <2>3. IsFiniteSet(PositionsTo(S, i - 1))
      BY PositionsToType
    <2> QED BY <1>3, <2>2, <2>3, FS_AddElement
  <1>4. CASE i \notin S
    <2>1. PositionsTo(S, i) = PositionsTo(S, i - 1)
      BY <1>1, <1>4, Zenon DEF PositionsTo
    <2> QED BY <1>4, <2>1
  <1> QED BY <1>3, <1>4

LEMMA NthFacts ==
    ASSUME NEW n \in Nat, NEW S \in SUBSET (1 .. n), NEW k \in 1 .. Cardinality(S)
    PROVE  Nth(S, k) \in S /\ Cardinality(PositionsTo(S, Nth(S, k))) = k
  <1> DEFINE C(i) == Cardinality(PositionsTo(S, i))
             T == {i \in 0 .. n : C(i) >= k}
  <1>1. Cardinality(S) \in Nat
    BY PositionsToType
  <1>2. \A i \in Int : C(i) \in Nat
    BY PositionsToType
  <1>3. C(n) = Cardinality(S) /\ C(0) = 0
    <2>1. \A j \in S : j \in Int /\ j <= n /\ ~ (j <= 0)
      OBVIOUS
    <2>2. PositionsTo(S, n) = S /\ PositionsTo(S, 0) = {}
      BY <2>1, Zenon DEF PositionsTo
    <2> QED BY <2>2, FS_EmptySet
  <1>4. \A i \in Int : (i \in S => C(i) = C(i - 1) + 1) /\ (i \notin S => C(i) = C(i - 1))
    BY PositionsToNext
  <1> HIDE DEF C
  <1>5. n \in T
    BY <1>1, <1>3
  <1>6. PICK m \in T : \A i \in T : m <= i
    <2>1. T \in SUBSET Nat
      OBVIOUS
    <2> HIDE DEF T
    <2> QED BY <1>5, <2>1, LeastElement
  <1>7. m \in 0 .. n /\ C(m) >= k
    OBVIOUS
  <1>8. m # 0
    BY <1>1, <1>3, <1>7
  <1>9. m - 1 \in 0 .. n /\ ~ (m - 1 \in T)
    <2>1. m - 1 \in 0 .. n /\ ~ (m <= m - 1)
      BY <1>7, <1>8
    <2> HIDE DEF T
    <2> QED BY <1>6, <2>1
  <1>10. ~ (C(m - 1) >= k)
    BY <1>9
  <1> HIDE DEF T
  <1>11. m \in S /\ C(m) = k
    <2>1. m \in Int /\ C(m) \in Int /\ C(m - 1) \in Int /\ k \in Int
      BY <1>1, <1>2, <1>7
    <2>2. m \in S
      BY <1>4, <1>7, <1>10, <2>1
    <2> QED BY <1>4, <1>7, <1>10, <2>1, <2>2
  <1>12. \E i \in S : Cardinality({j \in S : j <= i}) = k
    BY <1>11 DEF C, PositionsTo
  <1>13. Nth(S, k) \in S /\ Cardinality({j \in S : j <= Nth(S, k)}) = k
    BY <1>12, Zenon DEF Nth
  <1> QED BY <1>13, Zenon DEF PositionsTo

\* No other position is the k-th.
LEMMA NthIs ==
    ASSUME NEW n \in Nat, NEW S \in SUBSET (1 .. n), NEW i \in S
    PROVE  /\ Cardinality(PositionsTo(S, i)) \in 1 .. Cardinality(S)
           /\ Nth(S, Cardinality(PositionsTo(S, i))) = i
  <1> DEFINE C(l) == Cardinality(PositionsTo(S, l))
  <1>1. /\ IsFiniteSet(S) /\ Cardinality(S) \in Nat
        /\ \A l \in Int : C(l) \in Nat /\ C(l) <= Cardinality(S)
    BY PositionsToType
  <1>2. \A l \in Int : l \in S => C(l) = C(l - 1) + 1
    BY PositionsToNext
  <1>3. \A l \in S : l \in Int /\ l - 1 \in Int
    OBVIOUS
  <1>4. ASSUME NEW l \in S, NEW m \in S, l < m
        PROVE  C(l) < C(m)
    <2>1. l \in Int /\ m \in Int /\ l <= m - 1
      BY <1>3, <1>4
    <2>2. \A j \in S : j <= l => j <= m - 1
      BY <1>3, <2>1
    <2>3. PositionsTo(S, l) \in SUBSET PositionsTo(S, m - 1)
      BY <2>2 DEF PositionsTo
    <2>4. IsFiniteSet(PositionsTo(S, m - 1))
      BY PositionsToType
    <2>5. C(l) <= C(m - 1)
      BY <2>3, <2>4, FS_Subset
    <2>6. C(m) = C(m - 1) + 1 /\ C(m - 1) \in Nat /\ C(l) \in Nat
      BY <1>1, <1>2, <1>3, <2>1
    <2> HIDE DEF C
    <2> QED BY <2>5, <2>6
  <1>5. C(i) \in 1 .. Cardinality(S)
    <2>1. C(i) = C(i - 1) + 1 /\ C(i - 1) \in Nat /\ C(i) \in Nat /\ C(i) <= Cardinality(S)
      BY <1>1, <1>2, <1>3
    <2> HIDE DEF C
    <2> QED BY <1>1, <2>1
  <1>6. PICK k \in 1 .. Cardinality(S) : k = C(i)
    BY <1>5
  <1>7. Nth(S, k) \in S /\ C(Nth(S, k)) = k
    BY NthFacts
  <1>8. PICK m \in S : m = Nth(S, k)
    BY <1>7
  <1> HIDE DEF C
  <1>9. C(m) = C(i) /\ C(i) \in Int /\ m \in Int /\ i \in Int
    BY <1>1, <1>3, <1>6, <1>7, <1>8
  <1>10. ~ (m < i) /\ ~ (i < m)
    BY <1>4, <1>9
  <1>11. m = i
    BY <1>9, <1>10
  <1> QED BY <1>5, <1>6, <1>8, <1>11 DEF C

\* A later one comes later.
LEMMA NthInOrder ==
    ASSUME NEW n \in Nat, NEW S \in SUBSET (1 .. n),
           NEW k \in 1 .. Cardinality(S), NEW l \in 1 .. Cardinality(S), k < l
    PROVE  Nth(S, k) < Nth(S, l)
  <1>1. PICK p \in S : p = Nth(S, k) /\ Cardinality(PositionsTo(S, p)) = k
    BY NthFacts
  <1>2. PICK q \in S : q = Nth(S, l) /\ Cardinality(PositionsTo(S, q)) = l
    BY NthFacts
  <1>3. p \in Int /\ q \in Int
    OBVIOUS
  <1>4. CASE q <= p
    <2>1. \A j \in S : j \in Int /\ (j <= q => j <= p)
      BY <1>3, <1>4
    <2>2. PositionsTo(S, q) \in SUBSET PositionsTo(S, p) /\ IsFiniteSet(PositionsTo(S, p))
      BY <2>1, PositionsToType DEF PositionsTo
    <2>3. Cardinality(PositionsTo(S, q)) <= Cardinality(PositionsTo(S, p))
      BY <2>2, FS_Subset
    <2>4. Cardinality(S) \in Nat
      BY PositionsToType
    <2> QED BY <1>1, <1>2, <2>3, <2>4
  <1> QED BY <1>1, <1>2, <1>3, <1>4

LEMMA RowsAtFacts ==
    ASSUME NEW X, NEW rows \in Seq(X), NEW S \in SUBSET (1 .. Len(rows))
    PROVE  /\ Cardinality(S) \in Nat
           /\ RowsAt(rows, S) \in Seq(X) /\ Len(RowsAt(rows, S)) = Cardinality(S)
           /\ \A k \in 1 .. Cardinality(S) :
                 RowsAt(rows, S)[k] = rows[Nth(S, k)] /\ Nth(S, k) \in S
  <1>1b. PICK n \in Nat : n = Len(rows)
    OBVIOUS
  <1>1a. S \in SUBSET (1 .. n)
    BY <1>1b
  <1>1. Cardinality(S) \in Nat
    BY <1>1a, PositionsToType
  <1>2. \A k \in 1 .. Cardinality(S) : Nth(S, k) \in S
    BY <1>1a, NthFacts
  <1>3. \A k \in 1 .. Cardinality(S) : rows[Nth(S, k)] \in X
    <2>1. \A i \in 1 .. Len(rows) : rows[i] \in X
      OBVIOUS
    <2>2. \A i \in S : rows[i] \in X
      BY <2>1
    <2> QED BY <1>2, <2>2
  <1>4. RowsAt(rows, S) = [k \in 1 .. Cardinality(S) |-> rows[Nth(S, k)]]
    BY DEF RowsAt
  <1> QED BY <1>1, <1>2, <1>3, <1>4

\* The first rows.
LEMMA RowsAtFront ==
    ASSUME NEW X, NEW rows \in Seq(X), NEW n \in 0 .. Len(rows)
    PROVE  RowsAt(rows, 1 .. n) = SubSeq(rows, 1, n)
  <1>1. n \in Nat /\ Cardinality(1 .. n) = n
    <2>1. n \in Nat
      OBVIOUS
    <2> QED BY <2>1, FS_Interval
  <1>2. ASSUME NEW k \in 1 .. n PROVE Nth(1 .. n, k) = k
    <2>1. \A j : j \in PositionsTo(1 .. n, k) <=> j \in 1 .. k
      BY DEF PositionsTo
    <2>2. PositionsTo(1 .. n, k) = 1 .. k
      BY <2>1, Zenon
    <2>3. Cardinality(PositionsTo(1 .. n, k)) = k
      <3>1. k \in Nat /\ Cardinality(1 .. k) = k
        <4>1. k \in Nat
          OBVIOUS
        <4> QED BY <4>1, FS_Interval
      <3> QED BY <2>2, <3>1
    <2>4. 1 .. n \in SUBSET (1 .. n) /\ k \in 1 .. n
      OBVIOUS
    <2>5. Nth(1 .. n, Cardinality(PositionsTo(1 .. n, k))) = k
      BY <1>1, <2>4, NthIs
    <2> QED BY <2>3, <2>5
  <1>3. SubSeq(rows, 1, n) = [k \in 1 .. n |-> rows[k]]
    OBVIOUS
  <1>4. RowsAt(rows, 1 .. n) = [k \in 1 .. n |-> rows[Nth(1 .. n, k)]]
    BY <1>1 DEF RowsAt
  <1> QED BY <1>2, <1>3, <1>4

\* A position past all others comes last, and leaves the others in their places.
LEMMA NthOfOneMore ==
    ASSUME NEW n \in Nat, NEW S \in SUBSET (1 .. n), NEW m \in Nat, m > n
    PROVE  /\ Cardinality(S) \in Nat /\ Cardinality(S \cup {m}) = Cardinality(S) + 1
           /\ \A k \in 1 .. Cardinality(S) : Nth(S \cup {m}, k) = Nth(S, k)
           /\ Nth(S \cup {m}, Cardinality(S) + 1) = m
  <1> DEFINE T == S \cup {m}
  <1>1. /\ T \in SUBSET (1 .. m) /\ m \notin S /\ m \in T
        /\ \A i \in S : i \in T /\ i \in Int /\ ~ (m <= i) /\ i <= m
    OBVIOUS
  <1>2. IsFiniteSet(S) /\ Cardinality(S) \in Nat
    BY PositionsToType
  <1>3. Cardinality(T) = Cardinality(S) + 1
    BY <1>1, <1>2, FS_AddElement
  <1>4. ASSUME NEW k \in 1 .. Cardinality(S) PROVE Nth(T, k) = Nth(S, k)
    <2>1. PICK p \in S : p = Nth(S, k) /\ Cardinality(PositionsTo(S, p)) = k
      BY NthFacts
    <2>2. PositionsTo(T, p) = PositionsTo(S, p) /\ p \in T
      BY <1>1, Zenon DEF PositionsTo
    <2> HIDE DEF T
    <2>3. Nth(T, Cardinality(PositionsTo(T, p))) = p
      BY <1>1, <2>2, NthIs
    <2> QED BY <2>1, <2>2, <2>3
  <1>5. Nth(T, Cardinality(S) + 1) = m
    <2>1. \A i \in T : i <= m
      BY <1>1
    <2>2. PositionsTo(T, m) = T
      BY <2>1 DEF PositionsTo
    <2> HIDE DEF T
    <2>3. Nth(T, Cardinality(PositionsTo(T, m))) = m
      BY <1>1, NthIs
    <2> QED BY <1>3, <2>2, <2>3
  <1> QED BY <1>2, <1>3, <1>4, <1>5

LEMMA RowsAtOneMore ==
    ASSUME NEW rows, NEW n \in Nat, NEW S \in SUBSET (1 .. n), NEW m \in Nat, m > n
    PROVE  RowsAt(rows, S \cup {m}) = Append(RowsAt(rows, S), rows[m])
  <1> DEFINE T == S \cup {m}
  <1>1. /\ Cardinality(S) \in Nat /\ Cardinality(T) = Cardinality(S) + 1
        /\ \A k \in 1 .. Cardinality(S) : Nth(T, k) = Nth(S, k)
        /\ Nth(T, Cardinality(S) + 1) = m
    BY NthOfOneMore
  <1> HIDE DEF T
  <1>2. PICK c \in Nat : c = Cardinality(S)
    BY <1>1
  <1> DEFINE s == [k \in 1 .. c |-> rows[Nth(S, k)]]
             t == [k \in 1 .. c + 1 |-> rows[Nth(T, k)]]
             X == {s[k] : k \in 1 .. c}
  <1>3. s \in Seq(X) /\ Len(s) = c
    OBVIOUS
  <1>4. t = Append(s, rows[m])
    <2>1. \A k \in 1 .. c : t[k] = s[k]
      BY <1>1, <1>2
    <2>2. t[c + 1] = rows[m]
      BY <1>1, <1>2
    <2>3. t = [k \in 1 .. c + 1 |-> IF k = c + 1 THEN rows[m] ELSE s[k]]
      <3>1. \A k \in 1 .. c + 1 : t[k] = IF k = c + 1 THEN rows[m] ELSE s[k]
        BY <2>1, <2>2
      <3> QED BY <3>1
    <2> HIDE DEF s, t
    <2> QED BY <1>3, <2>3
  <1>5. RowsAt(rows, S) = s /\ RowsAt(rows, T) = t
    BY <1>1, <1>2 DEF RowsAt
  <1> QED BY <1>4, <1>5 DEF T

(***************************************************************************)
(* Sequences put together.                                                 *)
(***************************************************************************)

IsFlattening(f, seqs) ==
    f = [i \in 1 .. Len(seqs) |-> IF i = 1 THEN seqs[i] ELSE f[i - 1] \o seqs[i]]

\* The recursion of FlattenSeq has a function that follows it.
LEMMA FlatteningExists ==
    ASSUME NEW X, NEW seqs \in Seq(Seq(X))
    PROVE  \E f : IsFlattening(f, seqs)
  <1>1. PICK n \in Nat : n = Len(seqs)
    OBVIOUS
  <1> DEFINE Follows(f, m) ==
               f = [i \in 1 .. m |-> IF i = 1 THEN seqs[i] ELSE f[i - 1] \o seqs[i]]
             S == {m \in 0 .. n : \E f : Follows(f, m)}
  <1>2. 0 \in S
    <2>1. Follows([i \in 1 .. 0 |-> seqs[i]], 0)
      OBVIOUS
    <2>2. 0 \in 0 .. n
      OBVIOUS
    <2> HIDE DEF Follows
    <2> QED BY <2>1, <2>2
  <1>3. ASSUME NEW m \in 0 .. n - 1, m \in S
        PROVE  m + 1 \in S
    <2>1. PICK f : Follows(f, m)
      BY <1>3
    <2> DEFINE g == [i \in 1 .. m + 1 |->
                       IF i <= m THEN f[i] ELSE IF i = 1 THEN seqs[i] ELSE f[m] \o seqs[i]]
    <2>2. \A i \in 1 .. m : f[i] = IF i = 1 THEN seqs[i] ELSE f[i - 1] \o seqs[i]
      BY <2>1
    <2>3. ASSUME NEW i \in 1 .. m + 1
          PROVE  g[i] = IF i = 1 THEN seqs[i] ELSE g[i - 1] \o seqs[i]
      <3>1. CASE i \in 1 .. m
        <4>1. g[i] = f[i] /\ (i # 1 => g[i - 1] = f[i - 1])
          BY <3>1
        <4> HIDE DEF g
        <4> QED BY <2>2, <3>1, <4>1
      <3>2. CASE i = m + 1
        <4>1. g[i] = (IF i = 1 THEN seqs[i] ELSE f[m] \o seqs[i]) /\ (i # 1 => g[i - 1] = f[m])
          BY <3>2
        <4> HIDE DEF g
        <4> QED BY <4>1
      <3> QED BY <3>1, <3>2
    <2>4. Follows(g, m + 1)
      <3>1. g = [i \in 1 .. m + 1 |-> g[i]]
        OBVIOUS
      <3> HIDE DEF g
      <3> QED BY <2>3, <3>1
    <2>5. m + 1 \in 0 .. n
      OBVIOUS
    <2> HIDE DEF Follows, g
    <2> QED BY <2>4, <2>5
  <1>4. n \in S
    <2>1. n \in 0 .. n
      OBVIOUS
    <2> HIDE DEF S
    <2> QED BY <1>2, <1>3, <2>1, StepByStep
  <1>5. \E f : Follows(f, n)
    <2> HIDE DEF Follows
    <2> QED BY <1>4
  <1> QED BY <1>1, <1>5 DEF IsFlattening

LEMMA FlattenIs ==
    ASSUME NEW X, NEW seqs \in Seq(Seq(X))
    PROVE  \E f : /\ FlattenSeq(seqs) = IF Len(seqs) = 0 THEN <<>> ELSE f[Len(seqs)]
                  /\ \A i \in 1 .. Len(seqs) : f[i] = IF i = 1 THEN seqs[i] ELSE f[i - 1] \o seqs[i]
  <1> DEFINE F == CHOOSE f : IsFlattening(f, seqs)
  <1>1. IsFlattening(F, seqs)
    BY FlatteningExists
  <1>2. FlattenSeq(seqs) = IF Len(seqs) = 0 THEN seqs ELSE F[Len(seqs)]
    BY Zenon DEF FlattenSeq, IsFlattening
  <1>3. Len(seqs) = 0 => seqs = <<>>
    OBVIOUS
  <1> HIDE DEF F
  <1>4. \A i \in 1 .. Len(seqs) : F[i] = IF i = 1 THEN seqs[i] ELSE F[i - 1] \o seqs[i]
    BY <1>1 DEF IsFlattening
  <1> QED BY <1>2, <1>3, <1>4

\* A sequence of sequences with one more of them.
LEMMA FlattenOneMore ==
    ASSUME NEW X, NEW seqs \in Seq(Seq(X)), NEW rows \in Seq(X)
    PROVE  FlattenSeq(Append(seqs, rows)) = FlattenSeq(seqs) \o rows
  <1> DEFINE more == Append(seqs, rows)
  <1>1. PICK n \in Nat : n = Len(seqs)
    OBVIOUS
  <1>2. more \in Seq(Seq(X)) /\ Len(more) = n + 1 /\ more[n + 1] = rows
          /\ \A i \in 1 .. n : more[i] = seqs[i]
    BY <1>1
  <1> HIDE DEF more
  <1>3. PICK f : /\ FlattenSeq(seqs) = IF n = 0 THEN <<>> ELSE f[n]
                 /\ \A i \in 1 .. n : f[i] = IF i = 1 THEN seqs[i] ELSE f[i - 1] \o seqs[i]
    BY <1>1, FlattenIs
  <1>4. PICK g : /\ FlattenSeq(more) = IF n + 1 = 0 THEN <<>> ELSE g[n + 1]
                 /\ \A i \in 1 .. n + 1 : g[i] = IF i = 1 THEN more[i] ELSE g[i - 1] \o more[i]
    <2>1. \E g : /\ FlattenSeq(more) = IF Len(more) = 0 THEN <<>> ELSE g[Len(more)]
                 /\ \A i \in 1 .. Len(more) : g[i] = IF i = 1 THEN more[i] ELSE g[i - 1] \o more[i]
      BY <1>2, FlattenIs
    <2> QED BY <1>2, <2>1
  <1>5. CASE n = 0
    <2>1. g[1] = rows
      BY <1>2, <1>4, <1>5
    <2>2. FlattenSeq(seqs) = <<>> /\ FlattenSeq(more) = rows
      BY <1>3, <1>4, <1>5, <2>1
    <2> QED BY <2>2 DEF more
  <1>6. CASE n # 0
    <2> DEFINE S == {i \in 0 .. n : i = 0 \/ f[i] = g[i]}
    <2>1. 0 \in S
      OBVIOUS
    <2>2. ASSUME NEW i \in 0 .. n - 1, i \in S PROVE i + 1 \in S
      <3>1. CASE i = 0
        <4>1. f[1] = seqs[1] /\ g[1] = more[1] /\ more[1] = seqs[1]
          BY <1>2, <1>3, <1>4, <1>6
        <4> QED BY <1>6, <3>1, <4>1
      <3>2. CASE i # 0
        <4>1. i + 1 \in 1 .. n /\ i + 1 \in 1 .. n + 1 /\ i + 1 # 1 /\ (i + 1) - 1 = i
          BY <3>2
        <4>2. f[i + 1] = f[i] \o seqs[i + 1]
          BY <1>3, <4>1
        <4>3. g[i + 1] = g[i] \o more[i + 1]
          BY <1>4, <4>1
        <4>4. f[i] = g[i] /\ more[i + 1] = seqs[i + 1]
          BY <1>2, <2>2, <3>2, <4>1
        <4>5. f[i + 1] = g[i + 1]
          BY <4>2, <4>3, <4>4, Zenon
        <4>6. i + 1 \in 0 .. n
          BY <4>1
        <4> QED BY <4>5, <4>6
      <3> QED BY <3>1, <3>2
    <2>3. f[n] = g[n]
      <3>1. \A i \in 0 .. n : i \in S
        <4> HIDE DEF S
        <4> QED BY <2>1, <2>2, StepByStep
      <3> QED BY <1>6, <3>1
    <2>4. n + 1 \in 1 .. n + 1 /\ n + 1 # 1 /\ (n + 1) - 1 = n /\ n + 1 # 0
      BY <1>6
    <2>5. g[n + 1] = g[n] \o more[n + 1]
      BY <1>4, <2>4
    <2>6. FlattenSeq(more) = f[n] \o rows
      BY <1>2, <1>4, <2>3, <2>4, <2>5
    <2> QED BY <1>3, <1>6, <2>6 DEF more
  <1> QED BY <1>5, <1>6

\* The rows after a up to b, and those after b up to c.
LEMMA RowsBetween ==
    ASSUME NEW X, NEW f \in Seq(X), NEW a \in Nat, NEW b \in Nat, a <= b, b <= Len(f)
    PROVE  /\ SubSeq(f, a + 1, b) \in Seq(X) /\ Len(SubSeq(f, a + 1, b)) = b - a
           /\ \A i \in 1 .. b - a : SubSeq(f, a + 1, b)[i] = f[a + i]
  <1>1. PICK m \in Nat : m = b - a /\ a + m = b
    BY b - a \in Nat
  <1>2. Len(SubSeq(f, a + 1, b)) = m /\ \A i \in 1 .. m : SubSeq(f, a + 1, b)[i] = f[a + i]
    BY <1>1
  <1>3. SubSeq(f, a + 1, b) \in Seq(X)
    BY <1>1
  <1> QED BY <1>1, <1>2, <1>3

LEMMA Joined ==
    ASSUME NEW X, NEW p \in Seq(X), NEW q \in Seq(X)
    PROVE  /\ p \o q \in Seq(X) /\ Len(p \o q) = Len(p) + Len(q)
           /\ \A i \in 1 .. Len(p) + Len(q) : (p \o q)[i] = IF i <= Len(p) THEN p[i] ELSE q[i - Len(p)]
  OBVIOUS

LEMMA RowsJoined ==
    ASSUME NEW X, NEW f \in Seq(X), NEW a \in Nat, NEW b \in Nat, NEW c \in Nat,
           a <= b, b <= c, c <= Len(f)
    PROVE  SubSeq(f, a + 1, b) \o SubSeq(f, b + 1, c) = SubSeq(f, a + 1, c)
  <1>1. PICK p \in Seq(X), q \in Seq(X), r \in Seq(X) :
           p = SubSeq(f, a + 1, b) /\ q = SubSeq(f, b + 1, c) /\ r = SubSeq(f, a + 1, c)
    <2>1. a <= c /\ b <= Len(f)
      OBVIOUS
    <2> QED BY <2>1, RowsBetween
  <1>2. PICK k \in Nat, l \in Nat : k = b - a /\ l = c - b /\ c - a = k + l /\ b = a + k
    BY b - a \in Nat, c - b \in Nat
  <1>3. Len(p) = k /\ \A i \in 1 .. k : p[i] = f[a + i]
    BY <1>1, <1>2, RowsBetween
  <1>4. Len(q) = l /\ \A i \in 1 .. l : q[i] = f[b + i]
    BY <1>1, <1>2, RowsBetween
  <1>5. Len(r) = k + l /\ \A i \in 1 .. k + l : r[i] = f[a + i]
    <2>1. a <= c
      OBVIOUS
    <2> QED BY <1>1, <1>2, <2>1, RowsBetween
  <1>6. PICK both : both = p \o q
    OBVIOUS
  <1>7. both \in Seq(X) /\ Len(both) = k + l
    BY <1>3, <1>4, <1>6, Joined
  <1>7a. \A i \in 1 .. k + l : both[i] = IF i <= k THEN p[i] ELSE q[i - k]
    <2>1. \A i \in 1 .. Len(p) + Len(q) : (p \o q)[i] = IF i <= Len(p) THEN p[i] ELSE q[i - Len(p)]
      BY Joined
    <2> QED BY <1>3, <1>4, <1>6, <2>1
  <1>8. ASSUME NEW i \in 1 .. k + l PROVE both[i] = r[i]
    <2>1. CASE i <= k
      <3>1. both[i] = p[i] /\ i \in 1 .. k
        BY <1>7a, <2>1
      <3> QED BY <1>3, <1>5, <3>1
    <2>2. CASE ~ (i <= k)
      <3>1. PICK j \in 1 .. l : j = i - k /\ b + j = a + i
        BY <1>2, <2>2
      <3>2. both[i] = q[j]
        BY <1>7a, <2>2, <3>1
      <3> QED BY <1>4, <1>5, <3>1, <3>2
    <2> QED BY <2>1, <2>2
  <1>9. both = r
    BY <1>5, <1>7, <1>8
  <1> QED BY <1>1, <1>6, <1>9

(***************************************************************************)
(* Levels.                                                                 *)
(***************************************************************************)

Levels == [price : Int, quantity : Int]

\* a level of this price and this quantity is in the book
Holds(levels, p, q) ==
    \E i \in 1 .. Len(levels) : levels[i].price = p /\ levels[i].quantity = q

(* Ordered, for every two levels and not only for neighbours.              *)
Sorted(levels, side) ==
    /\ \A i, j \in 1 .. Len(levels) :
          i < j => IsBetter(side, levels[i].price, levels[j].price)
    /\ \A i \in 1 .. Len(levels) : levels[i].quantity > 0

\* The search of the sorted levels: better levels before, none at it.
LEMMA LowerBoundFacts ==
    ASSUME NEW levels \in Seq(Levels), NEW side \in Side, NEW price \in Int
    PROVE  LET pos == LowerBound(levels, side, price)
           IN  /\ pos \in 1 .. Len(levels) + 1
               /\ \A i \in 1 .. pos - 1 : IsBetter(side, levels[i].price, price)
               /\ pos <= Len(levels) => ~ IsBetter(side, levels[pos].price, price)
  <1> DEFINE I == {i \in 1 .. Len(levels) : ~ IsBetter(side, levels[i].price, price)}
             at == SelectInSeq(levels, LAMBDA l : ~ IsBetter(side, l.price, price))
  <1>1. at = IF I # {} THEN Min(I) ELSE 0
    BY DEF SelectInSeq
  <1>2. LowerBound(levels, side, price) = IF at = 0 THEN Len(levels) + 1 ELSE at
    BY DEF LowerBound
  <1> HIDE DEF at
  <1> DEFINE pos == LowerBound(levels, side, price)
  <1>3. CASE I = {}
    <2>1. pos = Len(levels) + 1
      BY <1>1, <1>2, <1>3
    <2>2. \A i \in 1 .. Len(levels) : IsBetter(side, levels[i].price, price)
      BY <1>3
    <2> HIDE DEF pos
    <2> QED BY <2>1, <2>2 DEF pos
  <1>4. CASE I # {}
    <2>1. Min(I) \in I /\ \A k \in I : Min(I) <= k
      <3>1. I \in SUBSET Nat
        OBVIOUS
      <3> HIDE DEF I
      <3> QED BY <1>4, <3>1, MinIsLeast
    <2>2. pos = Min(I)
      BY <1>1, <1>2, <1>4, <2>1
    <2> HIDE DEF pos
    <2>3. pos \in 1 .. Len(levels) /\ ~ IsBetter(side, levels[pos].price, price)
      BY <2>1, <2>2
    <2>4. ASSUME NEW i \in 1 .. pos - 1
          PROVE  IsBetter(side, levels[i].price, price)
      BY <2>1, <2>2, <2>3
    <2> QED BY <2>3, <2>4 DEF pos
  <1> QED BY <1>3, <1>4

\* What the search finds in sorted levels.
LEMMA SearchFacts ==
    ASSUME NEW levels \in Seq(Levels), NEW side \in Side, NEW price \in Int,
           Sorted(levels, side), NEW pos, pos = LowerBound(levels, side, price)
    PROVE  /\ pos \in 1 .. Len(levels) + 1
           /\ \A i \in 1 .. pos - 1 : IsBetter(side, levels[i].price, price)
           /\ \A i \in pos + 1 .. Len(levels) : IsBetter(side, price, levels[i].price)
           /\ pos <= Len(levels) /\ levels[pos].price # price
                 => IsBetter(side, price, levels[pos].price)
  <1>1. /\ pos \in 1 .. Len(levels) + 1
        /\ \A i \in 1 .. pos - 1 : IsBetter(side, levels[i].price, price)
        /\ pos <= Len(levels) => ~ IsBetter(side, levels[pos].price, price)
    BY LowerBoundFacts
  <1>2. \A i \in 1 .. Len(levels) : levels[i].price \in Int
    <2>1. \A i \in 1 .. Len(levels) : levels[i] \in Levels
      OBVIOUS
    <2> QED BY <2>1 DEF Levels
  <1>3. pos <= Len(levels) /\ levels[pos].price # price
           => IsBetter(side, price, levels[pos].price)
    BY <1>1, <1>2 DEF IsBetter
  <1>4. ASSUME NEW i \in pos + 1 .. Len(levels)
        PROVE  IsBetter(side, price, levels[i].price)
    <2>1. pos \in 1 .. Len(levels) /\ i \in 1 .. Len(levels) /\ pos < i
      BY <1>1
    <2>2. IsBetter(side, levels[pos].price, levels[i].price)
      BY <2>1 DEF Sorted
    <2> QED BY <1>1, <1>2, <2>1, <2>2 DEF IsBetter
  <1> QED BY <1>1, <1>3, <1>4

\* A level taken out.
LEMMA RemovedFacts ==
    ASSUME NEW levels \in Seq(Levels), NEW pos \in 1 .. Len(levels)
    PROVE  LET new == RemoveAt(levels, pos)
           IN  /\ new \in Seq(Levels) /\ Len(new) = Len(levels) - 1
               /\ \A i \in 1 .. pos - 1 : new[i] = levels[i]
               /\ \A i \in pos .. Len(levels) - 1 : new[i] = levels[i + 1]
  <1> DEFINE front == SubSeq(levels, 1, pos - 1)
             back == SubSeq(levels, pos + 1, Len(levels))
  <1>1. /\ front \in Seq(Levels) /\ Len(front) = pos - 1
        /\ \A i \in 1 .. pos - 1 : front[i] = levels[i]
    OBVIOUS
  <1>2. /\ back \in Seq(Levels) /\ Len(back) = Len(levels) - pos
        /\ \A i \in 1 .. Len(levels) - pos : back[i] = levels[i + pos]
    OBVIOUS
  <1>3. RemoveAt(levels, pos) = front \o back
    BY DEF RemoveAt
  <1> HIDE DEF front, back
  <1>4. ASSUME NEW i \in pos .. Len(levels) - 1
        PROVE  (front \o back)[i] = levels[i + 1]
    <2>1. (front \o back)[i] = back[i - (pos - 1)]
      BY <1>1, <1>2
    <2>2. i - (pos - 1) \in 1 .. Len(levels) - pos
      OBVIOUS
    <2> QED BY <1>2, <2>1, <2>2
  <1>5. \A i \in 1 .. pos - 1 : (front \o back)[i] = levels[i]
    BY <1>1, <1>2
  <1>6. front \o back \in Seq(Levels) /\ Len(front \o back) = Len(levels) - 1
    BY <1>1, <1>2
  <1> QED BY <1>3, <1>4, <1>5, <1>6

\* new is levels with l at pos
IsInserted(new, levels, pos, l) ==
    /\ new \in Seq(Levels) /\ Len(new) = Len(levels) + 1
    /\ new[pos] = l
    /\ \A i \in 1 .. pos - 1 : new[i] = levels[i]
    /\ \A i \in pos + 1 .. Len(levels) + 1 : new[i] = levels[i - 1]

\* A level put in.
LEMMA InsertedFacts ==
    ASSUME NEW levels \in Seq(Levels), NEW pos \in 1 .. Len(levels) + 1,
           NEW l \in Levels
    PROVE  IsInserted(InsertAt(levels, pos, l), levels, pos, l)
  <1> DEFINE front == SubSeq(levels, 1, pos - 1)
             back == SubSeq(levels, pos, Len(levels))
             start == front \o <<l>>
  <1>1. /\ front \in Seq(Levels) /\ Len(front) = pos - 1
        /\ \A i \in 1 .. pos - 1 : front[i] = levels[i]
    OBVIOUS
  <1>2. /\ back \in Seq(Levels) /\ Len(back) = Len(levels) - pos + 1
        /\ \A i \in 1 .. Len(levels) - pos + 1 : back[i] = levels[i + pos - 1]
    OBVIOUS
  <1>3. InsertAt(levels, pos, l) = start \o back
    BY DEF InsertAt
  <1> HIDE DEF front, back
  <1>4. /\ start \in Seq(Levels) /\ Len(start) = pos /\ start[pos] = l
        /\ \A i \in 1 .. pos - 1 : start[i] = levels[i]
    <2>1. <<l>> \in Seq(Levels) /\ Len(<<l>>) = 1 /\ <<l>>[1] = l
      OBVIOUS
    <2>2. start \in Seq(Levels) /\ Len(start) = pos
      BY <1>1, <2>1
    <2>3. start[pos] = l
      BY <1>1, <2>1
    <2>4. ASSUME NEW i \in 1 .. pos - 1 PROVE start[i] = front[i]
      BY <1>1, <2>1
    <2> QED BY <1>1, <2>2, <2>3, <2>4
  <1> HIDE DEF start
  <1>5. ASSUME NEW i \in pos + 1 .. Len(levels) + 1
        PROVE  (start \o back)[i] = levels[i - 1]
    <2>1. (start \o back)[i] = back[i - pos]
      BY <1>2, <1>4
    <2>2. i - pos \in 1 .. Len(levels) - pos + 1
      OBVIOUS
    <2> QED BY <1>2, <2>1, <2>2
  <1>6. \A i \in 1 .. pos : (start \o back)[i] = start[i]
    BY <1>2, <1>4
  <1>7. start \o back \in Seq(Levels) /\ Len(start \o back) = Len(levels) + 1
    <2>1. start \in Seq(Levels) /\ back \in Seq(Levels)
      BY <1>2, <1>4
    <2>2. /\ start \o back \in Seq(Levels)
          /\ Len(start \o back) = Len(start) + Len(back)
      BY <2>1
    <2> QED BY <1>2, <1>4, <2>2
  <1> QED BY <1>3, <1>4, <1>5, <1>6, <1>7 DEF IsInserted

\* OrderBook::apply on one side: the order stays, the row has the last word on
\* its price, and no other price changes.
LEMMA AppliedLevelsFacts ==
    ASSUME NEW levels \in Seq(Levels), NEW side \in Side, NEW price \in Int,
           NEW quantity \in Nat, Sorted(levels, side),
           NEW new, new = AppliedLevels(levels, side, price, quantity)
    PROVE  /\ new \in Seq(Levels) /\ Sorted(new, side)
           /\ \A p, q : Holds(new, p, q) <=>
                 IF p = price THEN q = quantity /\ quantity # 0 ELSE Holds(levels, p, q)
  <1> DEFINE pos == LowerBound(levels, side, price)
             found == pos <= Len(levels) /\ levels[pos].price = price
  <1>1. /\ pos \in 1 .. Len(levels) + 1
        /\ \A i \in 1 .. pos - 1 : IsBetter(side, levels[i].price, price)
        /\ \A i \in pos + 1 .. Len(levels) : IsBetter(side, price, levels[i].price)
        /\ pos <= Len(levels) /\ levels[pos].price # price
              => IsBetter(side, price, levels[pos].price)
    BY SearchFacts
  <1>2. new = CASE quantity = 0 /\ found   -> RemoveAt(levels, pos)
                [] quantity = 0 /\ ~ found -> levels
                [] quantity # 0 /\ found   -> [levels EXCEPT ![pos].quantity = quantity]
                [] OTHER -> InsertAt(levels, pos, Level(price, quantity))
    BY DEF AppliedLevels
  <1>3. /\ Len(levels) \in Nat
        /\ \A i \in 1 .. Len(levels) :
              /\ levels[i] \in Levels
              /\ levels[i].price \in Int /\ levels[i].quantity \in Int
              /\ levels[i].quantity > 0
    <2>1. Len(levels) \in Nat /\ \A i \in 1 .. Len(levels) : levels[i] \in Levels
      OBVIOUS
    <2> QED BY <2>1 DEF Levels, Sorted
  <1>4. \A x \in Int : ~ IsBetter(side, x, x)
    BY DEF IsBetter
  <1>5. ASSUME NEW i \in 1 .. Len(levels), i # pos PROVE levels[i].price # price
    <2>1. CASE i < pos
      BY <1>1, <1>3, <1>4, <2>1
    <2>2. CASE pos < i
      BY <1>1, <1>3, <1>4, <2>2
    <2> QED BY <1>1, <1>5, <2>1, <2>2
  <1>6. \A x, y, z \in Int : IsBetter(side, x, y) /\ IsBetter(side, y, z)
                                => IsBetter(side, x, z)
    BY DEF IsBetter
  <1>7. \A i, j \in 1 .. Len(levels) :
           i < j => IsBetter(side, levels[i].price, levels[j].price)
    BY DEF Sorted
  <1> HIDE DEF pos
  <1>8. CASE quantity = 0 /\ found
    <2>1. /\ new \in Seq(Levels) /\ Len(new) = Len(levels) - 1
          /\ \A i \in 1 .. pos - 1 : new[i] = levels[i]
          /\ \A i \in pos .. Len(levels) - 1 : new[i] = levels[i + 1]
      BY <1>1, <1>2, <1>8, RemovedFacts
    <2>2. ASSUME NEW i \in 1 .. Len(new), NEW j \in 1 .. Len(new), i < j
          PROVE  IsBetter(side, new[i].price, new[j].price)
      <3>1. CASE j < pos
        <4>1. i \in 1 .. pos - 1 /\ j \in 1 .. pos - 1
          BY <1>1, <2>2, <3>1
        <4>2. i \in 1 .. Len(levels) /\ j \in 1 .. Len(levels)
          BY <1>1, <1>3, <4>1
        <4>3. new[i] = levels[i] /\ new[j] = levels[j]
          BY <2>1, <4>1
        <4> QED BY <1>7, <2>2, <4>2, <4>3
      <3>2. CASE i < pos /\ pos <= j
        <4>1. /\ i \in 1 .. Len(levels) /\ j + 1 \in 1 .. Len(levels) /\ i < j + 1
              /\ new[i] = levels[i] /\ new[j] = levels[j + 1]
          BY <1>1, <1>3, <2>1, <2>2, <3>2
        <4> QED BY <1>7, <4>1
      <3>3. CASE pos <= i
        <4>1. /\ i + 1 \in 1 .. Len(levels) /\ j + 1 \in 1 .. Len(levels) /\ i + 1 < j + 1
              /\ new[i] = levels[i + 1] /\ new[j] = levels[j + 1]
          BY <1>1, <1>3, <2>1, <2>2, <3>3
        <4> QED BY <1>7, <4>1
      <3> QED BY <1>1, <2>1, <3>1, <3>2, <3>3
    <2>3. ASSUME NEW i \in 1 .. Len(new) PROVE new[i].quantity > 0
      <3>1. CASE i < pos
        <4>1. i \in 1 .. pos - 1 /\ i \in 1 .. Len(levels)
          BY <1>1, <1>3, <2>1, <3>1
        <4> QED BY <1>3, <2>1, <4>1
      <3>2. CASE pos <= i
        <4>1. i \in pos .. Len(levels) - 1 /\ i + 1 \in 1 .. Len(levels)
          BY <1>1, <1>3, <2>1, <3>2
        <4> QED BY <1>3, <2>1, <4>1
      <3> QED BY <1>1, <3>1, <3>2
    <2>4. ASSUME NEW p, NEW q, Holds(new, p, q)
          PROVE  p # price /\ Holds(levels, p, q)
      <3>1. PICK i \in 1 .. Len(new) : new[i].price = p /\ new[i].quantity = q
        BY <2>4 DEF Holds
      <3>2. CASE i < pos
        <4>1. i \in 1 .. Len(levels) /\ i # pos /\ new[i] = levels[i]
          BY <1>1, <1>3, <2>1, <3>2
        <4> QED BY <1>5, <3>1, <4>1 DEF Holds
      <3>3. CASE pos <= i
        <4>1. i + 1 \in 1 .. Len(levels) /\ i + 1 # pos /\ new[i] = levels[i + 1]
          BY <1>1, <1>3, <2>1, <3>3
        <4> QED BY <1>5, <3>1, <4>1 DEF Holds
      <3> QED BY <1>1, <2>1, <3>2, <3>3
    <2>5. ASSUME NEW p, NEW q, p # price, Holds(levels, p, q)
          PROVE  Holds(new, p, q)
      <3>1. PICK i \in 1 .. Len(levels) : levels[i].price = p /\ levels[i].quantity = q
        BY <2>5 DEF Holds
      <3>2. i # pos
        BY <1>8, <2>5, <3>1
      <3>3. CASE i < pos
        <4>1. i \in 1 .. Len(new) /\ new[i] = levels[i]
          BY <1>1, <1>3, <1>8, <2>1, <3>3
        <4> QED BY <3>1, <4>1 DEF Holds
      <3>4. CASE pos < i
        <4>1. i - 1 \in 1 .. Len(new) /\ new[i - 1] = levels[i]
          BY <1>1, <1>3, <1>8, <2>1, <3>4
        <4> QED BY <3>1, <4>1 DEF Holds
      <3> QED BY <1>1, <3>2, <3>3, <3>4
    <2> QED BY <1>8, <2>1, <2>2, <2>3, <2>4, <2>5 DEF Sorted
  <1>9. CASE quantity = 0 /\ ~ found
    <2>1. new = levels
      BY <1>2, <1>9
    <2>2. \A i \in 1 .. Len(levels) : levels[i].price # price
      BY <1>1, <1>5, <1>9
    <2> QED BY <1>9, <2>1, <2>2 DEF Holds
  <1>10. CASE quantity # 0 /\ found
    <2>1. new = [levels EXCEPT ![pos].quantity = quantity]
      BY <1>2, <1>10
    <2>2. pos \in 1 .. Len(levels)
      BY <1>1, <1>3, <1>10
    <2>3. /\ new \in Seq(Levels) /\ Len(new) = Len(levels)
          /\ new[pos].price = price /\ new[pos].quantity = quantity
          /\ \A i \in 1 .. Len(levels) : i # pos => new[i] = levels[i]
          /\ \A i \in 1 .. Len(levels) : new[i].price = levels[i].price
      <3>1. \A i \in 1 .. Len(levels) :
               new[i] = IF i = pos THEN [levels[pos] EXCEPT !.quantity = quantity]
                                   ELSE levels[i]
        BY <2>1, <2>2
      <3>2. /\ [levels[pos] EXCEPT !.quantity = quantity] \in Levels
            /\ [levels[pos] EXCEPT !.quantity = quantity].price = price
            /\ [levels[pos] EXCEPT !.quantity = quantity].quantity = quantity
        BY <1>3, <1>10, <2>2 DEF Levels
      <3>3. new \in Seq(Levels) /\ Len(new) = Len(levels)
        BY <2>1, <2>2, <3>2
      <3> QED BY <1>10, <2>2, <3>1, <3>2, <3>3
    <2>4. Sorted(new, side)
      BY <1>3, <1>7, <1>10, <2>2, <2>3 DEF Sorted
    <2>5. ASSUME NEW p, NEW q
          PROVE  Holds(new, p, q) <=>
                    IF p = price THEN q = quantity ELSE Holds(levels, p, q)
      BY <1>5, <1>10, <2>2, <2>3 DEF Holds
    <2> QED BY <1>10, <2>3, <2>4, <2>5
  <1>11. CASE quantity # 0 /\ ~ found
    <2> DEFINE added == Level(price, quantity)
    <2>1. new = InsertAt(levels, pos, added)
      BY <1>2, <1>11
    <2>2. added \in Levels /\ added.price = price /\ added.quantity = quantity
      BY DEF Level, Levels
    <2> HIDE DEF added
    <2>3. /\ new \in Seq(Levels) /\ Len(new) = Len(levels) + 1
          /\ new[pos] = added
          /\ \A i \in 1 .. pos - 1 : new[i] = levels[i]
          /\ \A i \in pos + 1 .. Len(levels) + 1 : new[i] = levels[i - 1]
      <3>1. pos \in 1 .. Len(levels) + 1
        BY <1>1
      <3>2. added \in Levels
        BY <2>2
      <3>3. IsInserted(new, levels, pos, added)
        BY <2>1, <3>1, <3>2, InsertedFacts
      <3> QED BY <3>3 DEF IsInserted
    <2>4. /\ \A i \in 1 .. pos - 1 : IsBetter(side, new[i].price, price)
          /\ \A i \in pos + 1 .. Len(new) : IsBetter(side, price, new[i].price)
      <3>1. \A i \in pos .. Len(levels) : IsBetter(side, price, levels[i].price)
        BY <1>1, <1>11
      <3>2. ASSUME NEW i \in pos + 1 .. Len(new)
            PROVE  IsBetter(side, price, new[i].price)
        <4>1. i - 1 \in pos .. Len(levels) /\ new[i] = levels[i - 1]
          BY <1>1, <1>3, <2>3
        <4> QED BY <3>1, <4>1
      <3>3. ASSUME NEW i \in 1 .. pos - 1
            PROVE  IsBetter(side, new[i].price, price)
        BY <1>1, <2>3
      <3> QED BY <3>2, <3>3
    <2>5. ASSUME NEW i \in 1 .. Len(new), NEW j \in 1 .. Len(new), i < j
          PROVE  IsBetter(side, new[i].price, new[j].price)
      <3>1. CASE i = pos \/ j = pos
        BY <1>1, <2>2, <2>3, <2>4, <2>5, <3>1
      <3>2. CASE j < pos
        BY <1>1, <1>3, <1>7, <2>3, <2>5, <3>2
      <3>3. CASE i < pos /\ pos < j
        <4>1. new[i] = levels[i] /\ new[j] = levels[j - 1]
              /\ i \in 1 .. Len(levels) /\ j - 1 \in 1 .. Len(levels) /\ i < j - 1 + 1
          BY <1>1, <1>3, <2>3, <3>3
        <4>2. i < j - 1
          BY <1>1, <3>3
        <4> QED BY <1>7, <4>1, <4>2
      <3>4. CASE pos < i
        <4>1. new[i] = levels[i - 1] /\ new[j] = levels[j - 1]
              /\ i - 1 \in 1 .. Len(levels) /\ j - 1 \in 1 .. Len(levels) /\ i - 1 < j - 1
          BY <1>1, <1>3, <2>3, <2>5, <3>4
        <4> QED BY <1>7, <4>1
      <3> QED BY <1>1, <2>5, <3>1, <3>2, <3>3, <3>4
    <2>6. ASSUME NEW i \in 1 .. Len(new) PROVE new[i].quantity > 0
      <3>1. CASE i = pos
        BY <1>11, <2>2, <2>3, <3>1
      <3>2. CASE i < pos
        BY <1>1, <1>3, <2>3, <3>2
      <3>3. CASE pos < i
        <4>1. new[i] = levels[i - 1] /\ i - 1 \in 1 .. Len(levels)
          BY <1>1, <1>3, <2>3, <3>3
        <4> QED BY <1>3, <4>1
      <3> QED BY <1>1, <3>1, <3>2, <3>3
    <2>7. ASSUME NEW i \in 1 .. Len(levels) PROVE levels[i].price # price
      BY <1>5, <1>11
    <2>8. ASSUME NEW p, NEW q, Holds(new, p, q)
          PROVE  IF p = price THEN q = quantity ELSE Holds(levels, p, q)
      <3>1. PICK i \in 1 .. Len(new) : new[i].price = p /\ new[i].quantity = q
        BY <2>8 DEF Holds
      <3>2. CASE i = pos
        BY <2>2, <2>3, <3>1, <3>2
      <3>3. CASE i < pos
        <4>1. i \in 1 .. Len(levels) /\ new[i] = levels[i]
          BY <1>1, <1>3, <2>3, <3>3
        <4> QED BY <2>7, <3>1, <4>1 DEF Holds
      <3>4. CASE pos < i
        <4>1. i - 1 \in 1 .. Len(levels) /\ new[i] = levels[i - 1]
          BY <1>1, <1>3, <2>3, <3>4
        <4> QED BY <2>7, <3>1, <4>1 DEF Holds
      <3> QED BY <1>1, <3>2, <3>3, <3>4
    <2>9. Holds(new, price, quantity)
      <3>1. pos \in 1 .. Len(new)
        BY <1>1, <1>3, <2>3
      <3> QED BY <2>2, <2>3, <3>1 DEF Holds
    <2>10. ASSUME NEW p, NEW q, p # price, Holds(levels, p, q)
           PROVE  Holds(new, p, q)
      <3>1. PICK i \in 1 .. Len(levels) : levels[i].price = p /\ levels[i].quantity = q
        BY <2>10 DEF Holds
      <3>2. CASE i < pos
        <4>1. i \in 1 .. Len(new) /\ new[i] = levels[i]
          BY <1>1, <1>3, <2>3, <3>2
        <4> QED BY <3>1, <4>1 DEF Holds
      <3>3. CASE pos <= i
        <4>1. i + 1 \in pos + 1 .. Len(levels) + 1 /\ i + 1 \in 1 .. Len(levels) + 1
          BY <1>1, <1>3, <3>3
        <4>2. i + 1 \in 1 .. Len(new) /\ new[i + 1] = levels[i + 1 - 1]
          BY <2>3, <4>1
        <4>3. i + 1 - 1 = i
          OBVIOUS
        <4> QED BY <3>1, <4>2, <4>3 DEF Holds
      <3> QED BY <1>1, <3>2, <3>3
    <2> QED BY <1>11, <2>3, <2>5, <2>6, <2>8, <2>9, <2>10 DEF Sorted
  <1> QED BY <1>8, <1>9, <1>10, <1>11

(***************************************************************************)
(* Replayers.                                                              *)
(***************************************************************************)

Books == [Side -> Seq(Levels)]

Replayers ==
    [book : Books,
     applied : Int, resyncs : Int, snapshot_rows : Int, removals : Int,
     crossed : Int, last_timestamp : Int,
     started : BOOLEAN, previous_was_snapshot : BOOLEAN]

\* The clear at the start of a new block.
LEMMA ResyncedFacts ==
    ASSUME NEW r \in Replayers, NEW row \in BookUpdate,
           \A side \in Side : Sorted(r.book[side], side)
    PROVE  LET new == Resynced(r, row)
           IN  /\ new \in Replayers
               /\ new.previous_was_snapshot = r.previous_was_snapshot
               /\ \A side \in Side : Sorted(new.book[side], side)
               /\ \A side \in Side : \A p, q :
                     Holds(new.book[side], p, q)
                        <=> ~ Resyncs(r, row) /\ Holds(r.book[side], p, q)
  <1>1. CASE Resyncs(r, row)
    <2>1. Resynced(r, row) = [r EXCEPT !.book = EmptyBook, !.resyncs = @ + 1]
      BY <1>1 DEF Resynced
    <2>2. /\ EmptyBook \in Books
          /\ \A side \in Side : EmptyBook[side] = <<>>
      BY DEF EmptyBook, Books
    <2>3. /\ Resynced(r, row) \in Replayers
          /\ Resynced(r, row).book = EmptyBook
          /\ Resynced(r, row).previous_was_snapshot = r.previous_was_snapshot
      <3>1. r.resyncs + 1 \in Int
        BY DEF Replayers
      <3>2. Resynced(r, row) \in Replayers
        BY <2>1, <2>2, <3>1 DEF Replayers
      <3>3. Resynced(r, row).book = EmptyBook
        BY <2>1 DEF Replayers
      <3>4. Resynced(r, row).previous_was_snapshot = r.previous_was_snapshot
        BY <2>1 DEF Replayers
      <3> QED BY <3>2, <3>3, <3>4
    <2>4. ASSUME NEW side \in Side
          PROVE  /\ Sorted(EmptyBook[side], side)
                 /\ \A p, q : ~ Holds(EmptyBook[side], p, q)
      BY <2>2 DEF Sorted, Holds
    <2> QED BY <1>1, <2>3, <2>4
  <1>2. CASE ~ Resyncs(r, row)
    <2>1. Resynced(r, row) = r
      BY <1>2 DEF Resynced
    <2> QED BY <1>2, <2>1
  <1> QED BY <1>1, <1>2

\* BookReplayer::apply of a row it accepts.
LEMMA AppliedFacts ==
    ASSUME NEW r \in Replayers, NEW row \in BookUpdate,
           \A side \in Side : Sorted(r.book[side], side), ErrorOf(r, row) = NoError
    PROVE  LET new == Applied(r, row)
           IN  /\ new \in Replayers /\ row.quantity >= 0
               /\ new.previous_was_snapshot = row.is_snapshot
               /\ \A side \in Side : Sorted(new.book[side], side)
               /\ \A side \in Side : \A p, q :
                     Holds(new.book[side], p, q)
                        <=> IF row.side = side /\ row.price = p
                            THEN q # 0 /\ row.quantity = q
                            ELSE ~ Resyncs(r, row) /\ Holds(r.book[side], p, q)
  <1> DEFINE old == Resynced(r, row)
             levels == old.book[row.side]
             changed == AppliedLevels(levels, row.side, row.price, row.quantity)
             book == AppliedBook(old.book, row.side, row.price, row.quantity)
  <1>1. /\ row.side \in Side /\ row.price \in Int /\ row.quantity \in Int
        /\ row.timestamp \in Int /\ row.is_snapshot \in BOOLEAN
    BY DEF BookUpdate
  <1>2. row.quantity \in Nat
    <2>1. ValidLevel(row.price, row.quantity)
      BY DEF ErrorOf, NoError
    <2> QED BY <1>1, <2>1 DEF ValidLevel
  <1>3. /\ old \in Replayers
        /\ \A side \in Side : Sorted(old.book[side], side)
        /\ \A side \in Side : \A p, q :
              Holds(old.book[side], p, q)
                 <=> ~ Resyncs(r, row) /\ Holds(r.book[side], p, q)
    BY ResyncedFacts
  <1>4. old.book \in Books
    BY <1>3 DEF Replayers
  <1>5. /\ changed \in Seq(Levels) /\ Sorted(changed, row.side)
        /\ \A p, q : Holds(changed, p, q) <=>
              IF p = row.price THEN q = row.quantity /\ row.quantity # 0
                               ELSE Holds(levels, p, q)
    <2>1. levels \in Seq(Levels) /\ Sorted(levels, row.side)
      BY <1>1, <1>3, <1>4 DEF Books
    <2> QED BY <1>1, <1>2, <2>1, AppliedLevelsFacts
  <1>6. book = [old.book EXCEPT ![row.side] = changed]
    BY DEF AppliedBook
  <1> HIDE DEF old, changed, book
  <1>7. /\ book \in Books
        /\ book[row.side] = changed
        /\ \A side \in Side : side # row.side => book[side] = old.book[side]
    BY <1>1, <1>4, <1>5, <1>6 DEF Books
  <1>8. /\ Applied(r, row) \in Replayers
        /\ Applied(r, row).book = book
        /\ Applied(r, row).previous_was_snapshot = row.is_snapshot
    <2> DEFINE snap == old.snapshot_rows + Count(row.is_snapshot)
               gone == old.removals + Count(row.quantity = 0)
               over == old.crossed + Count(IsCrossed(book))
    <2>1. Applied(r, row) =
             [old EXCEPT !.book = book, !.applied = @ + 1,
                         !.snapshot_rows = snap, !.removals = gone,
                         !.crossed = over, !.last_timestamp = row.timestamp,
                         !.previous_was_snapshot = row.is_snapshot,
                         !.started = TRUE]
      BY DEF Applied, old, book
    <2>2. snap \in Int /\ gone \in Int /\ over \in Int
      BY <1>3 DEF Replayers, Count
    <2> HIDE DEF snap, gone, over
    <2>3. old.applied + 1 \in Int
      BY <1>3 DEF Replayers
    <2>4. Applied(r, row) \in Replayers
      BY <1>1, <1>3, <1>7, <2>1, <2>2, <2>3 DEF Replayers
    <2>5. Applied(r, row).book = book
      BY <1>3, <2>1 DEF Replayers
    <2>6. Applied(r, row).previous_was_snapshot = row.is_snapshot
      BY <1>1, <1>3, <2>1 DEF Replayers
    <2> QED BY <2>4, <2>5, <2>6
  <1>9. ASSUME NEW side \in Side PROVE Sorted(book[side], side)
    BY <1>3, <1>5, <1>7
  <1>10. ASSUME NEW side \in Side, NEW p, NEW q
         PROVE  Holds(book[side], p, q)
                   <=> IF row.side = side /\ row.price = p
                       THEN q # 0 /\ row.quantity = q
                       ELSE ~ Resyncs(r, row) /\ Holds(r.book[side], p, q)
    <2>1. CASE side = row.side
      <3>1. Holds(book[side], p, q) <=>
               IF p = row.price THEN q = row.quantity /\ row.quantity # 0
                                ELSE Holds(levels, p, q)
        BY <1>5, <1>7, <2>1
      <3>2. Holds(levels, p, q) <=> ~ Resyncs(r, row) /\ Holds(r.book[side], p, q)
        BY <1>3, <2>1
      <3> QED BY <2>1, <3>1, <3>2
    <2>2. CASE side # row.side
      BY <1>3, <1>7, <2>2
    <2> QED BY <2>1, <2>2
  <1> QED BY <1>2, <1>8, <1>9, <1>10
==============================================================================
