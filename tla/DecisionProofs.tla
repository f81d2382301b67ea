--------------------------- MODULE DecisionProofs ---------------------------
(***************************************************************************)
(* From the venue's settlements to a position, for any settlements and     *)
(* archives, any number of backfills, any window, any market and curve:    *)
(* what is admitted is whole and was stored together, a forecast rests on  *)
(* the recent past, and the gate and the search of a size agree.           *)
(***************************************************************************)
EXTENDS Sizing, SharedProofs, FiniteSetTheorems, SequenceTheorems, TLAPS

(***************************************************************************)
(* Sizing.                                                                 *)
(***************************************************************************)

LEMMA ProductOrder ==
    ASSUME NEW a \in Int, NEW b \in Int, a <= b, NEW c \in Nat
    PROVE  a * c <= b * c /\ c * a <= c * b
  <1>1. \A d \in Nat : d * c >= 0
    OBVIOUS
  <1>2. b - a \in Nat /\ (b - a) * c = b * c - a * c
    OBVIOUS
  <1>3. b * c \in Int /\ a * c \in Int /\ c * a = a * c /\ c * b = b * c
    OBVIOUS
  <1> QED BY <1>1, <1>2, <1>3

\* The rounded roots are in the order of the quantities.
LEMMA RootOrder ==
    ASSUME NEW p \in 0 .. LargestQuantity, NEW q \in 0 .. LargestQuantity, p <= q
    PROVE  Root[p] \in Nat /\ Root[q] \in Nat /\ Root[p] <= Root[q]
  <1>1. Root[p] \in Nat /\ Root[q] \in Nat
    BY RootAssumption
  <1>2. PICK a \in Nat, b \in Nat, s \in Nat :
           a = Root[p] /\ b = Root[q] /\ s = Square(RootScale)
    <2>1. Square(RootScale) \in Nat
      BY RootAssumption DEF Square
    <2> QED BY <1>1, <2>1
  <1>3. a * a <= p * s /\ q * s < (b + 1) * (b + 1)
    BY <1>2, RootAssumption DEF Square
  <1>4. p * s <= q * s
    BY ProductOrder, RootAssumption
  <1>5. a * a < (b + 1) * (b + 1)
    <2>1. a * a \in Int /\ p * s \in Int /\ q * s \in Int /\ (b + 1) * (b + 1) \in Int
      BY RootAssumption
    <2> QED BY <1>3, <1>4, <2>1
  <1>6. a <= b
    <2> SUFFICES ASSUME b + 1 <= a PROVE FALSE
      OBVIOUS
    <2>1. (b + 1) * (b + 1) <= a * (b + 1)
      BY ProductOrder
    <2>2. a * (b + 1) <= a * a
      BY ProductOrder
    <2>3. a * a \in Int /\ (b + 1) * (b + 1) \in Int /\ a * (b + 1) \in Int
      OBVIOUS
    <2> QED BY <1>5, <2>1, <2>2, <2>3
  <1> QED BY <1>1, <1>2, <1>6

IsSum(sum, samples) ==
    sum = [i \in 0 .. Len(samples) |-> IF i = 0 THEN 0 ELSE sum[i - 1] + samples[i]]

\* A sum of whole numbers is one: the recursion of Sum has a function that
\* follows it, since there is no least number of samples without one.
LEMMA SumExists ==
    ASSUME NEW samples \in Seq(Int)
    PROVE  \E sum \in [0 .. Len(samples) -> Int] : IsSum(sum, samples)
  <1>1. PICK n \in Nat : n = Len(samples)
    OBVIOUS
  <1>2. \A i \in 1 .. n : samples[i] \in Int
    BY <1>1
  <1> DEFINE Follows(sum, m) ==
               sum \in [0 .. m -> Int] /\ sum[0] = 0
                 /\ \A i \in 1 .. m : sum[i] = sum[i - 1] + samples[i]
             S == {m \in 0 .. n : \E sum : Follows(sum, m)}
  <1>3. 0 \in S
    <2>1. Follows([i \in 0 .. 0 |-> 0], 0)
      OBVIOUS
    <2>2. 0 \in 0 .. n
      OBVIOUS
    <2> HIDE DEF Follows
    <2> QED BY <2>1, <2>2
  <1>4. ASSUME NEW m \in 0 .. n - 1, m \in S
        PROVE  m + 1 \in S
    <2>1. PICK sum : Follows(sum, m)
      BY <1>4
    <2> DEFINE next == [i \in 0 .. m + 1 |-> IF i <= m THEN sum[i] ELSE sum[m] + samples[m + 1]]
    <2>2. samples[m + 1] \in Int /\ \A i \in 0 .. m : sum[i] \in Int
      BY <1>2, <2>1
    <2>3. next \in [0 .. m + 1 -> Int] /\ next[0] = 0
      BY <2>1, <2>2
    <2>4. ASSUME NEW i \in 1 .. m + 1
          PROVE  next[i] = next[i - 1] + samples[i]
      <3>1. CASE i \in 1 .. m
        <4>1. next[i] = sum[i] /\ next[i - 1] = sum[i - 1]
          BY <3>1
        <4> QED BY <2>1, <3>1, <4>1
      <3>2. CASE i = m + 1
        <4>1. next[i] = sum[m] + samples[i] /\ next[i - 1] = sum[m]
          BY <3>2
        <4> QED BY <4>1
      <3> QED BY <3>1, <3>2
    <2> HIDE DEF next
    <2>5. Follows(next, m + 1)
      BY <2>3, <2>4
    <2>6. m + 1 \in 0 .. n
      OBVIOUS
    <2> HIDE DEF Follows
    <2> QED BY <2>5, <2>6
  <1>5. \A m \in 0 .. n : m \in S
    <2> HIDE DEF S
    <2> QED BY <1>3, <1>4, StepByStep
  <1>6. PICK sum : Follows(sum, n)
    <2>1. n \in 0 .. n
      OBVIOUS
    <2>2. n \in S
      BY <1>5, <2>1, Zenon
    <2> HIDE DEF Follows
    <2> QED BY <2>2
  <1>7. sum = [i \in 0 .. n |-> IF i = 0 THEN 0 ELSE sum[i - 1] + samples[i]]
    <2>1. \A i \in 0 .. n : sum[i] = IF i = 0 THEN 0 ELSE sum[i - 1] + samples[i]
      BY <1>6
    <2> QED BY <1>6, <2>1
  <1> QED BY <1>1, <1>6, <1>7 DEF IsSum

LEMMA SumType ==
    ASSUME NEW samples \in Seq(Int)
    PROVE  Sum(samples) \in Int
  <1> DEFINE sum == CHOOSE f : IsSum(f, samples)
  <1>1. IsSum(sum, samples)
    BY SumExists
  <1>2. Sum(samples) = sum[Len(samples)]
    BY Zenon DEF Sum, IsSum
  <1> HIDE DEF sum
  <1>3. Len(samples) \in Nat /\ \A i \in 1 .. Len(samples) : samples[i] \in Int
    OBVIOUS
  <1>4. PICK n \in Nat : n = Len(samples)
    BY <1>3
  <1>5. sum[0] = 0 /\ \A i \in 1 .. n : sum[i] = sum[i - 1] + samples[i]
    BY <1>1, <1>4 DEF IsSum
  <1> DEFINE S == {m \in 0 .. n : sum[m] \in Int}
  <1>6. \A m \in 0 .. n : m \in S
    <2>1. 0 \in S
      BY <1>5
    <2>2. ASSUME NEW m \in 0 .. n - 1, m \in S
          PROVE  m + 1 \in S
      <3>1. sum[m + 1] = sum[(m + 1) - 1] + samples[m + 1] /\ (m + 1) - 1 = m
        BY <1>5
      <3> QED BY <1>3, <1>4, <2>2, <3>1
    <2> HIDE DEF S
    <2> QED BY <2>1, <2>2, StepByStep
  <1> QED BY <1>2, <1>4, <1>6

------------------------------------------------------------------------------
\* What a hurdle does to the two conditions on the samples.
LEMMA EdgeOrder ==
    ASSUME NEW samples \in Seq(Int), NEW g \in Int, NEW h \in Int, g <= h, Edge(samples, h) > 0
    PROVE  Edge(samples, g) > 0
  <1>1. PICK n \in Nat : n = Len(samples)
    OBVIOUS
  <1>2. PICK sum \in Int : sum = Sum(samples)
    BY SumType
  <1>3. sum - n * h > 0
    BY <1>1, <1>2 DEF Edge
  <1>4. n * g <= n * h /\ n * g \in Int /\ n * h \in Int
    BY ProductOrder
  <1>5. sum - n * g > 0
    BY <1>3, <1>4
  <1> QED BY <1>1, <1>2, <1>5 DEF Edge

LEMMA ProbableOrder ==
    ASSUME NEW samples \in Seq(Int), NEW g \in Int, NEW h \in Int, g <= h,
           NEW p \in Nat, NEW q \in Nat, q <= p, Probable(samples, h, p)
    PROVE  Probable(samples, g, q)
  <1>1. PICK n \in Nat : n = Len(samples)
    OBVIOUS
  <1> DEFINE A == {i \in 1 .. n : samples[i] > h}
             B == {i \in 1 .. n : samples[i] > g}
  <1>2. A \subseteq B
    <2>1. \A i \in 1 .. n : samples[i] \in Int
      BY <1>1
    <2> QED BY <2>1
  <1>3. IsFiniteSet(B) /\ Cardinality(A) \in Nat /\ Cardinality(B) \in Nat
    BY PositionsToType
  <1>4. Cardinality(A) <= Cardinality(B)
    BY <1>2, <1>3, FS_Subset
  <1>5. PICK a \in Nat, b \in Nat : a = Cardinality(A) /\ b = Cardinality(B)
    BY <1>3
  <1>6. 100 * a > p * n
    BY <1>1, <1>5 DEF Probable
  <1>7. q * n <= p * n /\ q * n \in Int /\ p * n \in Int
    BY ProductOrder
  <1>8. 100 * b > q * n
    <2>1. PICK x \in Int, y \in Int : x = p * n /\ y = q * n
      BY <1>7
    <2>2. a <= b /\ 100 * a > x /\ y <= x
      BY <1>4, <1>5, <1>6, <1>7, <2>1
    <2>3. 100 * b > y
      BY <2>2
    <2> QED BY <2>1, <2>3
  <1> QED BY <1>1, <1>5, <1>8 DEF Probable

InputsType ==
    /\ market \in Markets /\ curve \in Curves /\ charges \in Charges
    /\ forecast # NoForecast => forecast.samples \in SampleSets

\* A lot up to the last one is a quantity whose root is known.
LEMMA LotsFit ==
    ASSUME InputsType
    PROVE  /\ FirstLot \in Nat \ {0} /\ LastLot \in Nat
           /\ \A n \in 0 .. LastLot : n * Step \in 0 .. LargestQuantity
  <1>1. {curve.size_max, market.validated, market.max_adv, market.max_notional}
            \in SUBSET (0 .. LargestQuantity)
    BY InputsAssumption DEF InputsType
  <1>2. Upper \in 0 .. LargestQuantity
    <2> DEFINE T == {curve.size_max, market.validated, market.max_adv, market.max_notional}
    <2>1. \A q \in 0 .. LargestQuantity : q \in Nat
      OBVIOUS
    <2>2. T # {}
      OBVIOUS
    <2>3. T \in SUBSET (0 .. LargestQuantity)
      BY <1>1
    <2> HIDE DEF T
    <2>4. T \in SUBSET Nat
      BY <2>1, <2>3
    <2>5. Min(T) \in T
      BY <2>2, <2>4, MinIsLeast
    <2> QED BY <2>3, <2>5 DEF T, Upper
  <1>3. {curve.size_min, market.min_quantity, market.min_notional} \in SUBSET Nat
    BY InputsAssumption DEF InputsType
  <1>4. Lower \in Nat
    <2>1. PICK a \in Nat, b \in Nat, c \in Nat :
             a = curve.size_min /\ b = market.min_quantity /\ c = market.min_notional
      BY <1>3
    <2>2. {a, b, c} \in SUBSET (0 .. a + b + c) /\ {a, b, c} # {} /\ a + b + c \in Nat
      OBVIOUS
    <2>3. Max({a, b, c}) \in {a, b, c}
      BY <2>2, MaxIsGreatest, Zenon
    <2> QED BY <2>1, <2>3 DEF Lower
  <1>5. Step \in Nat \ {0}
    BY InputsAssumption
  <1>6. LastLot \in Nat /\ LastLot * Step <= Upper
    BY <1>2, <1>5, RootAssumption DEF LastLot, Floor
  <1>7. FirstLot \in Nat \ {0}
    <2>1. PICK c \in Nat : c = Ceiling(Lower)
      BY <1>4, <1>5 DEF Ceiling
    <2>2. {1, c} \in SUBSET (0 .. c + 1)
      OBVIOUS
    <2>3. Max({1, c}) \in {1, c} /\ 1 <= Max({1, c})
      BY <2>2, MaxIsGreatest
    <2> QED BY <2>1, <2>3 DEF FirstLot
  <1>8. ASSUME NEW n \in 0 .. LastLot
        PROVE  n * Step \in 0 .. LargestQuantity
    <2>1. n * Step <= LastLot * Step /\ n * Step \in Nat /\ LastLot * Step \in Int
      BY <1>5, <1>6, ProductOrder
    <2> QED BY <1>2, <1>6, <2>1, RootAssumption
  <1> QED BY <1>6, <1>7, <1>8

\* The larger the size, the more the funding has to pay for.
LEMMA HurdleOrder ==
    ASSUME InputsType, NEW m \in 0 .. LastLot, NEW n \in 0 .. LastLot, m <= n
    PROVE  /\ Hurdle(CostsOf(m), Flat) \in Int /\ Hurdle(CostsOf(n), Flat) \in Int
           /\ Hurdle(CostsOf(m), Flat) <= Hurdle(CostsOf(n), Flat)
  <1> DEFINE H(k) == (curve.sell * Root[k * Step] + charges.entry * RootScale)
                       + (curve.buy * Root[k * Step] + charges.close * RootScale)
                       + charges.financing * RootScale
  <1>1. \A k : Hurdle(CostsOf(k), Flat) = H(k)
    BY DEF Hurdle, CostsOf
  <1>2. m * Step \in 0 .. LargestQuantity /\ n * Step \in 0 .. LargestQuantity /\ m * Step <= n * Step
    <2>1. LastLot \in Nat
      BY LotsFit
    <2>2. m * Step <= n * Step
      BY <2>1, ProductOrder, InputsAssumption
    <2> QED BY <2>2, LotsFit
  <1>3. PICK r \in Nat, t \in Nat : r = Root[m * Step] /\ t = Root[n * Step] /\ r <= t
    BY <1>2, RootOrder
  <1>4. PICK s \in Nat, b \in Nat : s = curve.sell /\ b = curve.buy
    BY InputsAssumption DEF InputsType
  <1>5. PICK e \in Int, c \in Int, f \in Int :
           e = charges.entry * RootScale /\ c = charges.close * RootScale
             /\ f = charges.financing * RootScale
    <2>1. charges.entry \in Nat /\ charges.close \in Nat /\ charges.financing \in Nat
      BY InputsAssumption DEF InputsType
    <2>2. RootScale \in Nat
      BY RootAssumption
    <2> QED BY <2>1, <2>2
  <1>6. H(m) = (s * r + e) + (b * r + c) + f /\ H(n) = (s * t + e) + (b * t + c) + f
    BY <1>3, <1>4, <1>5
  <1>7. s * r <= s * t /\ b * r <= b * t /\ s * r \in Int /\ s * t \in Int /\ b * r \in Int /\ b * t \in Int
    BY <1>3, ProductOrder
  <1> HIDE DEF H
  <1> QED BY <1>1, <1>6, <1>7

\* What the gate asks of a forecast whatever the size.
GateOpen ==
    /\ forecast # NoForecast /\ forecast.symbol = Symbol
    /\ ForecastIsValid(forecast, now, Horizon)
    /\ Admits(approval, forecast, now, Horizon)
    /\ CostsAdmitted(CostsOf(0), now, Horizon, Flat)

LEMMA AcceptsMeans ==
    ASSUME NEW n
    PROVE  Accepts(n) <=> /\ GateOpen
                          /\ ~ Edge(forecast.samples, Hurdle(CostsOf(n), Flat)) <= 0
                          /\ Probable(forecast.samples, Hurdle(CostsOf(n), Flat), EntryPercent)
  <1>1. Accepts(n) <=> Refusal(now, forecast, CostsOf(n), approval, Flat) = "none"
    BY DEF Accepts, Decision, Decide, Outcome, Blocked
  <1>2. Remaining(Flat) = Horizon /\ ~ Horizon <= 0
    BY PolicyAssumption DEF Remaining
  <1>3. ~ CadenceChanged(Flat, forecast) /\ Threshold(Flat) = EntryPercent
    BY DEF CadenceChanged, Threshold
  <1>4. CostsOf(n) # NoCosts
    BY DEF CostsOf, NoCosts
  <1>5. CostsAdmitted(CostsOf(n), now, Horizon, Flat) <=> CostsAdmitted(CostsOf(0), now, Horizon, Flat)
    BY DEF CostsAdmitted, CostsOf
  <1>6. Refusal(now, forecast, CostsOf(n), approval, Flat) = "none"
           <=> /\ GateOpen
               /\ ~ Edge(forecast.samples, Hurdle(CostsOf(n), Flat)) <= 0
               /\ Probable(forecast.samples, Hurdle(CostsOf(n), Flat), EntryPercent)
    BY <1>2, <1>3, <1>4, <1>5, Zenon DEF Refusal, GateOpen
  <1> QED BY <1>1, <1>6

\* The gate is monotone in the size.
LEMMA SmallerIsAccepted ==
    ASSUME InputsType, NEW n \in 0 .. LastLot, Accepts(n), NEW m \in 0 .. n
    PROVE  Accepts(m)
  <1>1. GateOpen /\ forecast.samples \in Seq(Int)
    BY AcceptsMeans, InputsAssumption DEF InputsType, GateOpen
  <1>2. m \in 0 .. LastLot /\ m <= n
    <2>1. LastLot \in Nat
      BY LotsFit
    <2> QED BY <2>1
  <1>3. PICK g \in Int, h \in Int :
           g = Hurdle(CostsOf(m), Flat) /\ h = Hurdle(CostsOf(n), Flat) /\ g <= h
    BY <1>2, HurdleOrder
  <1>4. Edge(forecast.samples, g) \in Int /\ Edge(forecast.samples, h) \in Int
    <2>1. Len(forecast.samples) \in Nat /\ Sum(forecast.samples) \in Int
      BY <1>1, SumType
    <2> QED BY <2>1 DEF Edge
  <1>5. ~ Edge(forecast.samples, h) <= 0 /\ Probable(forecast.samples, h, EntryPercent)
    BY <1>3, AcceptsMeans
  <1>6. Edge(forecast.samples, g) > 0
    <2>1. Edge(forecast.samples, h) > 0
      BY <1>4, <1>5
    <2> QED BY <1>1, <1>3, <2>1, EdgeOrder
  <1>7. Probable(forecast.samples, g, EntryPercent)
    <2>1. EntryPercent \in Nat /\ EntryPercent <= EntryPercent
      BY PolicyAssumption
    <2> QED BY <1>1, <1>3, <1>5, <2>1, ProbableOrder
  <1>8. ~ Edge(forecast.samples, g) <= 0
    BY <1>4, <1>6
  <1> QED BY <1>1, <1>3, <1>7, <1>8, AcceptsMeans

\* What is entered is held at once: the hurdle of holding leaves out the costs
\* of entering, and the threshold of holding is lower.
LEMMA EnteredIsHeld ==
    ASSUME InputsType, lots \in 0 .. LastLot, Accepts(lots)
    PROVE  Decide(now, forecast, CostsOf(lots), approval, Opened).action = "hold"
  <1>1. GateOpen /\ forecast.samples \in Seq(Int)
    BY AcceptsMeans, InputsAssumption DEF InputsType, GateOpen
  <1>2. Opened # Flat
    BY DEF Opened, Flat
  <1>3. Remaining(Opened) = Horizon /\ ~ Horizon <= 0
    BY <1>2, PolicyAssumption DEF Remaining, Opened
  <1>4. ~ CadenceChanged(Opened, forecast) /\ Threshold(Opened) = ContinuationPercent
    BY <1>2 DEF CadenceChanged, Threshold, Opened
  <1>5. CostsOf(lots) # NoCosts
    BY DEF CostsOf, NoCosts
  <1>6. CostsAdmitted(CostsOf(lots), now, Horizon, Opened)
    BY <1>1 DEF CostsAdmitted, CostsOf, GateOpen, Opened
  <1>7. PICK h \in Int : h = Hurdle(CostsOf(lots), Flat)
    BY LotsFit, HurdleOrder
  <1>8. PICK g \in Int : g = Hurdle(CostsOf(lots), Opened) /\ g <= h
    <2>1. lots * Step \in 0 .. LargestQuantity
      BY LotsFit
    <2>2. PICK r \in Nat : r = Root[lots * Step]
      BY <2>1, RootAssumption
    <2>3. PICK s \in Nat, b \in Nat : s = curve.sell * r /\ b = curve.buy * r
      <3>1. curve.sell \in Nat /\ curve.buy \in Nat
        BY InputsAssumption DEF InputsType
      <3> QED BY <3>1
    <2>4. PICK e \in Nat, c \in Nat, f \in Nat :
             e = charges.entry * RootScale /\ c = charges.close * RootScale
               /\ f = charges.financing * RootScale
      <3>1. charges.entry \in Nat /\ charges.close \in Nat /\ charges.financing \in Nat
        BY InputsAssumption DEF InputsType
      <3>2. RootScale \in Nat
        BY RootAssumption
      <3> QED BY <3>1, <3>2
    <2>5. Hurdle(CostsOf(lots), Opened) = (b + c) - (b + c) + f
      BY <1>2, <2>2, <2>3, <2>4 DEF Hurdle, CostsOf
    <2>6. Hurdle(CostsOf(lots), Flat) = (s + e) + (b + c) + f
      BY <2>2, <2>3, <2>4 DEF Hurdle, CostsOf
    <2> QED BY <1>7, <2>5, <2>6
  <1>9. Edge(forecast.samples, g) \in Int /\ Edge(forecast.samples, h) \in Int
    <2>1. Len(forecast.samples) \in Nat /\ Sum(forecast.samples) \in Int
      BY <1>1, SumType
    <2> QED BY <2>1 DEF Edge
  <1>10. ~ Edge(forecast.samples, h) <= 0 /\ Probable(forecast.samples, h, EntryPercent)
    BY <1>7, AcceptsMeans
  <1>11. ~ Edge(forecast.samples, g) <= 0
    <2>1. Edge(forecast.samples, h) > 0
      BY <1>9, <1>10
    <2>2. Edge(forecast.samples, g) > 0
      BY <1>1, <1>8, <2>1, EdgeOrder
    <2> QED BY <1>9, <2>2
  <1>12. Probable(forecast.samples, g, ContinuationPercent)
    <2>1. EntryPercent \in Nat /\ ContinuationPercent \in Nat /\ ContinuationPercent <= EntryPercent
      BY PolicyAssumption
    <2> QED BY <1>1, <1>8, <1>10, <2>1, ProbableOrder
  <1>13. Refusal(now, forecast, CostsOf(lots), approval, Opened) = "none"
    BY <1>1, <1>3, <1>4, <1>5, <1>6, <1>8, <1>11, <1>12, Zenon DEF Refusal, GateOpen
  <1> QED BY <1>2, <1>13 DEF Decide, Outcome

Accepted == {n \in Nat : Accepts(n)}

LEMMA InputsUnchanged ==
    ASSUME UNCHANGED Inputs
    PROVE  /\ InputsType => InputsType'
           /\ FirstLot' = FirstLot /\ LastLot' = LastLot
           /\ InputsAdmitted' <=> InputsAdmitted
           /\ Accepted' = Accepted
  <1>1. /\ now' = now /\ forecast' = forecast /\ approval' = approval
        /\ market' = market /\ curve' = curve /\ charges' = charges
    BY DEF Inputs
  <1>2. InputsType => InputsType'
    BY <1>1 DEF InputsType
  <1>3. FirstLot' = FirstLot /\ LastLot' = LastLot
    BY <1>1 DEF FirstLot, LastLot, Upper, Lower
  <1>4. InputsAdmitted' <=> InputsAdmitted
    BY <1>1 DEF InputsAdmitted
  <1>5. \A n : CostsOf(n)' = CostsOf(n)
    BY <1>1 DEF CostsOf
  <1>6. Accepted' = Accepted
    BY <1>1, <1>5 DEF Accepted, Accepts, Decision
  <1> QED BY <1>2, <1>3, <1>4, <1>6

------------------------------------------------------------------------------
Searched == size_pc = "search" \/ Entered

(* The inductive invariant of a sizing: the gate accepts the lot at the    *)
(* lower end of the search and none just above its upper end.              *)
SizingInv ==
    /\ size_pc \in {"observing", "admission", "search", "answered"}
    /\ InputsType /\ lots \in Nat
    /\ Searched => /\ low \in Nat /\ high \in Nat
                   /\ FirstLot <= low /\ low <= high /\ high <= LastLot
                   /\ low \in Accepted
                   /\ high < LastLot => high + 1 \notin Accepted
    /\ Entered => low = high /\ lots \in FirstLot .. low
    /\ size_pc = "answered" /\ lots = 0 =>
          ~InputsAdmitted \/ \A n \in FirstLot .. LastLot : n \notin Accepted

LEMMA SizingInitially == SizingInit => SizingInv
  BY DEF SizingInit, SizingInv, InputsType, Searched, Entered

LEMMA AskKeepsSizing ==
    ASSUME SizingInv, Ask
    PROVE  SizingInv'
  <1>1. /\ market' = market /\ curve' = curve /\ charges' = charges /\ lots' = lots
        /\ size_pc' = "admission"
    BY DEF Ask
  <1>2. PICK samples \in SampleSets :
           \E as_of : forecast' = Predicted(history, Horizon, as_of, samples, Model)
    BY DEF Ask
  <1>3. forecast' # NoForecast => forecast'.samples = samples
    BY <1>2 DEF Predicted
  <1>4. InputsType'
    BY <1>1, <1>2, <1>3 DEF SizingInv, InputsType
  <1>5. ~ Searched' /\ ~ Entered'
    BY <1>1 DEF Searched, Entered
  <1> QED BY <1>1, <1>4, <1>5 DEF SizingInv

LEMMA CheckInputsKeepsSizing ==
    ASSUME SizingInv, CheckInputs
    PROVE  SizingInv'
  <1>1. UNCHANGED Inputs /\ InputsType
    BY DEF CheckInputs, SizingInv
  <1>2. /\ InputsType' /\ FirstLot' = FirstLot /\ LastLot' = LastLot
        /\ InputsAdmitted' <=> InputsAdmitted
        /\ Accepted' = Accepted
    BY <1>1, InputsUnchanged
  <1>3. FirstLot \in Nat \ {0} /\ LastLot \in Nat
    BY <1>1, LotsFit
  <1>4. CASE ~InputsAdmitted
    <2>1. lots' = 0 /\ size_pc' = "answered"
      BY <1>4 DEF CheckInputs, Answer
    <2> QED BY <1>2, <1>4, <2>1 DEF SizingInv, Searched, Entered
  <1>5. CASE InputsAdmitted /\ FirstLot > LastLot
    <2>1. lots' = 0 /\ size_pc' = "answered"
      BY <1>5 DEF CheckInputs, Answer
    <2>2. \A n \in FirstLot .. LastLot : n \notin Accepted
      BY <1>3, <1>5
    <2> QED BY <1>2, <2>1, <2>2 DEF SizingInv, Searched, Entered
  <1>6. CASE InputsAdmitted /\ ~ FirstLot > LastLot /\ ~Accepts(FirstLot)
    <2>1. lots' = 0 /\ size_pc' = "answered"
      BY <1>6 DEF CheckInputs, Answer
    <2>2. ASSUME NEW n \in FirstLot .. LastLot PROVE n \notin Accepted
      <3>1. n \in 0 .. LastLot /\ FirstLot \in 0 .. n
        BY <1>3
      <3> QED BY <1>1, <1>6, <3>1, SmallerIsAccepted DEF Accepted
    <2> QED BY <1>2, <2>1, <2>2 DEF SizingInv, Searched, Entered
  <1>7. CASE InputsAdmitted /\ ~ FirstLot > LastLot /\ Accepts(FirstLot)
    <2>1. low' = FirstLot /\ high' = LastLot /\ size_pc' = "search" /\ lots' = lots
      BY <1>7 DEF CheckInputs
    <2>2. low' \in Accepted'
      BY <1>2, <1>3, <1>7, <2>1 DEF Accepted
    <2>3. ~ high' < LastLot' /\ FirstLot' <= low' /\ low' <= high' /\ high' <= LastLot'
      BY <1>2, <1>3, <1>7, <2>1
    <2>4. ~ Entered' /\ low' \in Nat /\ high' \in Nat
      BY <1>3, <2>1 DEF Entered
    <2> QED BY <1>2, <2>1, <2>2, <2>3, <2>4 DEF SizingInv
  <1> QED BY <1>4, <1>5, <1>6, <1>7

LEMMA HalveKeepsSizing ==
    ASSUME SizingInv, Halve
    PROVE  SizingInv'
  <1>1. UNCHANGED Inputs /\ InputsType
    BY DEF Halve, SizingInv
  <1>2. /\ InputsType' /\ FirstLot' = FirstLot /\ LastLot' = LastLot
        /\ Accepted' = Accepted
    BY <1>1, InputsUnchanged
  <1>3. FirstLot \in Nat \ {0} /\ LastLot \in Nat
    BY <1>1, LotsFit
  <1>4. /\ low \in Nat /\ high \in Nat /\ FirstLot <= low /\ low <= high /\ high <= LastLot
        /\ low < high /\ low \in Accepted /\ (high < LastLot => high + 1 \notin Accepted)
        /\ size_pc = "search" /\ size_pc' = size_pc /\ lots' = lots /\ lots \in Nat
    BY DEF Halve, SizingInv, Searched
  <1>5. PICK middle \in Nat : /\ middle = (low + high + 1) \div 2 /\ low < middle /\ middle <= high
                              /\ middle - 1 \in Nat
    <2>1. \A a \in Nat, b \in Nat :
             a < b => /\ (a + b + 1) \div 2 \in Nat /\ a < (a + b + 1) \div 2
                      /\ (a + b + 1) \div 2 <= b
      OBVIOUS
    <2> QED BY <1>4, <2>1
  <1>6. ~ Entered' /\ size_pc' # "answered"
    BY <1>4 DEF Entered
  <1>7. CASE Accepts(middle)
    <2>1. low' = middle /\ high' = high
      BY <1>5, <1>7 DEF Halve
    <2>2. low' \in Accepted' /\ (high' < LastLot' => high' + 1 \notin Accepted')
      BY <1>2, <1>4, <1>7, <2>1 DEF Accepted
    <2>3. low' \in Nat /\ high' \in Nat /\ FirstLot' <= low' /\ low' <= high' /\ high' <= LastLot'
      BY <1>2, <1>3, <1>4, <1>5, <2>1
    <2> QED BY <1>2, <1>4, <1>6, <2>2, <2>3 DEF SizingInv
  <1>8. CASE ~Accepts(middle)
    <2>1. low' = low /\ high' = middle - 1
      BY <1>5, <1>8 DEF Halve
    <2>2. high' + 1 = middle
      BY <1>5, <2>1
    <2>3. low' \in Accepted' /\ high' + 1 \notin Accepted'
      BY <1>2, <1>4, <1>8, <2>1, <2>2 DEF Accepted
    <2>4. low' \in Nat /\ high' \in Nat /\ FirstLot' <= low' /\ low' <= high' /\ high' <= LastLot'
      BY <1>2, <1>3, <1>4, <1>5, <2>1
    <2> QED BY <1>2, <1>4, <1>6, <2>3, <2>4 DEF SizingInv
  <1> QED BY <1>7, <1>8

\* The two candidates are among the lots that the gate accepts.
LEMMA ClampedLots ==
    ASSUME FirstLot \in Nat, low \in Nat, FirstLot <= low, NEW n \in Nat
    PROVE  Clamped(n) \in FirstLot .. low
  <1>1. PICK f \in Nat, l \in Nat : f = FirstLot /\ l = low /\ f <= l
    OBVIOUS
  <1>2. Min({l, n}) \in {l, n} /\ Min({l, n}) <= l
    <2>1. {l, n} \in SUBSET Nat /\ {l, n} # {} /\ l \in {l, n}
      OBVIOUS
    <2> QED BY <2>1, MinIsLeast, Zenon
  <1>3. PICK m \in Nat : m = Min({l, n}) /\ m <= l
    BY <1>2
  <1>4. Max({f, m}) \in {f, m} /\ f <= Max({f, m})
    <2>1. {f, m} \in SUBSET (0 .. f + m) /\ {f, m} # {} /\ f \in {f, m} /\ f + m \in Nat
      OBVIOUS
    <2> QED BY <2>1, MaxIsGreatest, Zenon
  <1>5. Max({f, m}) \in f .. l
    BY <1>1, <1>3, <1>4
  <1> QED BY <1>1, <1>3, <1>5 DEF Clamped

\* A lot that the gate accepts promises a profit.
LEMMA AcceptedIsProfitable ==
    ASSUME InputsType, NEW n \in 0 .. LastLot, n # 0, Accepts(n)
    PROVE  ~ Profit(n) <= 0
  <1>1. forecast.samples \in Seq(Int)
    BY AcceptsMeans, InputsAssumption DEF InputsType, GateOpen
  <1>2. PICK h \in Int : h = Hurdle(CostsOf(n), Flat)
    BY HurdleOrder
  <1>3. PICK e \in Int : e = Edge(forecast.samples, h)
    <2>1. Len(forecast.samples) \in Nat /\ Sum(forecast.samples) \in Int
      BY <1>1, SumType
    <2> QED BY <2>1 DEF Edge
  <1>4. e >= 1
    BY <1>2, <1>3, AcceptsMeans
  <1>5. n \in Nat /\ n >= 1
    BY LotsFit
  <1>6. 1 * n <= e * n /\ n * e = e * n /\ n * e \in Int
    BY <1>4, <1>5, ProductOrder
  <1>7. Profit(n) = n * e
    BY <1>2, <1>3 DEF Profit
  <1> QED BY <1>5, <1>6, <1>7

LEMMA TargetType ==
    ASSUME InputsType, Samples \in Nat \ {0}, forecast.samples \in Seq(Int), low \in Nat
    PROVE  Target \in Nat
  <1>1. curve.sell \in Nat /\ curve.buy \in Nat
    BY InputsAssumption DEF InputsType
  <1>2. Coefficient \in Nat
    BY <1>1 DEF Coefficient
  <1>3. CASE Coefficient = 0
    BY <1>3 DEF Target
  <1>4. CASE Coefficient # 0
    <2>1. charges.entry \in Nat /\ charges.close \in Nat /\ charges.financing \in Nat
      BY InputsAssumption DEF InputsType
    <2>2. RootScale \in Nat \ {0} /\ Step \in Nat \ {0}
      BY RootAssumption, InputsAssumption
    <2>3. FixedEdge \in Int
      <3>1. Len(forecast.samples) \in Nat /\ Sum(forecast.samples) \in Int
        BY SumType
      <3> QED BY <2>1, <2>2, <3>1 DEF FixedEdge, Edge
    <2>4. PICK c \in Nat : c = Coefficient /\ c >= 1
      BY <1>2, <1>4
    <2>5. PICK d \in Nat : d = 3 * Coefficient * Samples * RootScale /\ d >= 1
      <3>1. 3 * c >= 1 /\ 3 * c \in Nat
        BY <2>4
      <3>2. 3 * c * Samples >= 1 /\ 3 * c * Samples \in Nat
        BY <3>1
      <3>3. 3 * c * Samples * RootScale >= 1 /\ 3 * c * Samples * RootScale \in Nat
        BY <3>2, <2>2
      <3> QED BY <2>4, <3>3
    <2>6. Square(d) \in Nat /\ Square(d) >= 1
      BY <2>5 DEF Square
    <2>7. PICK e \in Int : e = 2 * FixedEdge
      BY <2>3
    <2>8. Square(e) \in Nat
      BY <2>7 DEF Square
    <2>9. Square(e) \div Square(d) \in Nat
      <3>1. \A a \in Nat, b \in Nat \ {0} : a \div b \in Nat
        OBVIOUS
      <3>2. Square(d) \in Nat \ {0}
        BY <2>6
      <3> QED BY <2>8, <3>1, <3>2
    <2>10. Target = (Square(e) \div Square(d)) \div Step
      BY <1>4, <2>5, <2>7 DEF Target, Floor
    <2>11. PICK x \in Nat, y \in Nat \ {0} : x = Square(e) \div Square(d) /\ y = Step
      BY <2>2, <2>9
    <2>12. x \div y \in Nat
      OBVIOUS
    <2> QED BY <2>10, <2>11, <2>12
  <1> QED BY <1>3, <1>4

LEMMA ChooseKeepsSizing ==
    ASSUME SizingInv, Choose
    PROVE  SizingInv'
  <1>1. UNCHANGED Inputs /\ InputsType
    BY DEF Choose, SizingInv
  <1>2. /\ InputsType' /\ FirstLot' = FirstLot /\ LastLot' = LastLot
        /\ Accepted' = Accepted
    BY <1>1, InputsUnchanged
  <1>3. FirstLot \in Nat \ {0} /\ LastLot \in Nat
    BY <1>1, LotsFit
  <1>4. /\ low \in Nat /\ FirstLot <= low /\ low = high /\ high <= LastLot
        /\ low \in Accepted /\ (high < LastLot => high + 1 \notin Accepted)
        /\ low' = low /\ high' = high
    BY DEF Choose, SizingInv, Searched
  <1>5. forecast.samples \in Seq(Int) /\ Samples \in Nat \ {0}
    <2>1. GateOpen
      BY <1>4, AcceptsMeans DEF Accepted
    <2>2. forecast.samples \in Seq(Int)
      BY <1>1, <2>1, InputsAssumption DEF InputsType, GateOpen
    <2> QED BY <2>1, <2>2 DEF GateOpen, ForecastIsValid, Samples
  <1> DEFINE fewer == Clamped(Target)
             more == Clamped(Target + 1)
             best == IF Profit(more) > Profit(fewer) THEN more ELSE fewer
  <1>6. best \in FirstLot .. low
    <2>1. Target \in Nat /\ Target + 1 \in Nat
      BY <1>1, <1>4, <1>5, TargetType
    <2>2. fewer \in FirstLot .. low /\ more \in FirstLot .. low
      BY <1>3, <1>4, <2>1, ClampedLots
    <2> HIDE DEF fewer, more
    <2> QED BY <2>2
  <1>7. /\ IF Profit(best) <= 0 THEN lots' = 0 /\ reason' = "nonpositive_expected_profit"
                                ELSE lots' = best /\ reason' = "none"
        /\ size_pc' = "answered"
    BY Zenon DEF Choose, Answer
  <1> HIDE DEF fewer, more, best
  <1>8. Accepts(best) /\ best \in 0 .. LastLot /\ best # 0
    <2>1. low \in 0 .. LastLot /\ best \in 0 .. low /\ best \in 0 .. LastLot /\ best # 0
      BY <1>3, <1>4, <1>6
    <2>2. Accepts(low)
      BY <1>4 DEF Accepted
    <2> QED BY <1>1, <2>1, <2>2, SmallerIsAccepted
  <1>9. ~ Profit(best) <= 0
    BY <1>1, <1>8, AcceptedIsProfitable
  <1>10. lots' = best /\ lots' \in Nat /\ lots' # 0 /\ lots' \in FirstLot' .. low'
    BY <1>2, <1>3, <1>4, <1>6, <1>7, <1>9
  <1> QED BY <1>2, <1>4, <1>7, <1>10 DEF SizingInv, Searched, Entered

LEMMA SizingStep ==
    ASSUME SizingInv, [DecisionNext]_<<rollingVars, sizingVars>>
    PROVE  SizingInv'
  <1>1. CASE UNCHANGED sizingVars
    <2>1. UNCHANGED Inputs /\ low' = low /\ high' = high /\ lots' = lots /\ size_pc' = size_pc
      BY <1>1 DEF sizingVars, Inputs
    <2>2. /\ InputsType' /\ FirstLot' = FirstLot /\ LastLot' = LastLot
          /\ Accepted' = Accepted /\ (InputsAdmitted' <=> InputsAdmitted)
      BY <2>1, InputsUnchanged DEF SizingInv
    <2> QED BY <2>1, <2>2 DEF SizingInv, Searched, Entered
  <1>2. CASE SizingNext
    BY <1>2, AskKeepsSizing, CheckInputsKeepsSizing, HalveKeepsSizing, ChooseKeepsSizing
       DEF SizingNext
  <1> QED BY <1>1, <1>2 DEF DecisionNext

THEOREM SizingInvariant == DecisionSpec => []SizingInv
  <1>1. DecisionInit => SizingInv
    BY SizingInitially DEF DecisionInit
  <1>2. SizingInv /\ [DecisionNext]_<<rollingVars, sizingVars>> => SizingInv'
    BY SizingStep
  <1> QED BY <1>1, <1>2, PTL DEF DecisionSpec

LEMMA SizingInvGivesSearchIsExact == SizingInv => SearchIsExact
  <1> SUFFICES ASSUME SizingInv PROVE SearchIsExact
    OBVIOUS
  <1>1. InputsType
    BY DEF SizingInv
  <1>2. FirstLot \in Nat \ {0} /\ LastLot \in Nat
    BY <1>1, LotsFit
  <1>3. ASSUME Entered
        PROVE  {n \in FirstLot .. LastLot : Accepts(n)} = FirstLot .. low
    <2>1. /\ low \in Nat /\ FirstLot <= low /\ low <= LastLot /\ Accepts(low)
          /\ low < LastLot => low + 1 \notin Accepted
      BY <1>3 DEF SizingInv, Searched, Accepted
    <2>2. ASSUME NEW n \in FirstLot .. low PROVE n \in FirstLot .. LastLot /\ Accepts(n)
      <3>1. low \in 0 .. LastLot /\ n \in 0 .. low /\ n \in FirstLot .. LastLot
        BY <1>2, <2>1
      <3> QED BY <1>1, <2>1, <3>1, SmallerIsAccepted
    <2>3. ASSUME NEW n \in FirstLot .. LastLot, Accepts(n), n \notin FirstLot .. low PROVE FALSE
      <3>1. low < LastLot /\ n \in 0 .. LastLot /\ low + 1 \in 0 .. n /\ low + 1 \in Nat
        BY <1>2, <2>1, <2>3
      <3>2. Accepts(low + 1)
        BY <1>1, <2>3, <3>1, SmallerIsAccepted
      <3> QED BY <2>1, <3>1, <3>2 DEF Accepted
    <2> QED BY <2>2, <2>3
  <1>4. Entered => lots \in FirstLot .. low
    BY DEF SizingInv
  <1>5. ASSUME size_pc = "answered", lots = 0, InputsAdmitted, NEW n \in FirstLot .. LastLot
        PROVE  ~Accepts(n)
    <2>1. n \in Nat
      BY <1>2
    <2> QED BY <1>5, <2>1 DEF SizingInv, Accepted
  <1> QED BY <1>3, <1>4, <1>5 DEF SearchIsExact

(* The search of size_position ends at the last lot that the gate accepts, *)
(* every smaller one being accepted too, and the lots that are entered are *)
(* among them; when nothing is entered, the gate accepts no lot that keeps *)
(* to the limits, whatever these are (SearchIsExact).                      *)
THEOREM SearchIsAlwaysExact == DecisionSpec => []SearchIsExact
  BY SizingInvariant, SizingInvGivesSearchIsExact, PTL

(* What is entered is held when it is judged at once again: whatever the   *)
(* limits, costs, thresholds and expectations of the funding, entering     *)
(* never oscillates with leaving (EntryIsNotUndoneAtOnce).                 *)
THEOREM EntryIsNeverUndoneAtOnce == DecisionSpec => []EntryIsNotUndoneAtOnce
  <1>1. SizingInv => EntryIsNotUndoneAtOnce
    <2> SUFFICES ASSUME SizingInv, Entered
                 PROVE  Decide(now, forecast, CostsOf(lots), approval, Opened).action = "hold"
      BY DEF EntryIsNotUndoneAtOnce
    <2>1. InputsType /\ SearchIsExact
      BY SizingInvGivesSearchIsExact DEF SizingInv
    <2>2. lots \in FirstLot .. low /\ {n \in FirstLot .. LastLot : Accepts(n)} = FirstLot .. low
      BY <2>1 DEF SearchIsExact
    <2>3. Accepts(lots) /\ lots \in FirstLot .. LastLot
      BY <2>2
    <2>4. lots \in 0 .. LastLot
      BY <2>1, <2>3, LotsFit
    <2> QED BY <2>1, <2>3, <2>4, EnteredIsHeld
  <1> QED BY <1>1, SizingInvariant, PTL

------------------------------------------------------------------------------
Row == [time : Nat, hours : Nat \ {0}, sane : {TRUE}]

\* the rows that the venue settled
Settlements == {truth[i] : i \in 1 .. Len(truth)}

Partitions == [version : Nat, rows : Seq(Settlements)]

FundingType ==
    /\ truth \in Truths /\ window \in Windows
    /\ stored \in [Days -> Partitions]
    /\ backfills \in Nat /\ month \in 0 .. Months /\ frame \in Seq(Settlements)
    /\ load_pc \in {"next_day", "read", "confirm", "admitted", "raised"}
    /\ load_day \in window[1] .. window[2]
    /\ before \in Partitions /\ series \in Seq(Settlements) /\ evidence \in Seq(Partitions)

FirstDayOf(m) == m * MonthDays

\* A backfill stores a day at most once: its number identifies what it stored.
BackfillInv ==
    /\ month = Months => frame = <<>>
    /\ month < Months => backfills > 0
    /\ \A d \in DaysToStore : d \in FirstDayOf(month) .. FirstDayOf(month + 1) - 1
    /\ \A d \in Days :
          /\ stored[d].version <= backfills
          /\ stored[d] # NoPartition => stored[d].version > 0
          /\ month < Months /\ stored[d].version = backfills =>
                /\ d \notin DaysToStore /\ d < FirstDayOf(month + 1)
                /\ frame = <<>> => d < FirstDayOf(month)

\* The day that is loaded is no longer what was fingerprinted, and will not be again.
Replaced ==
    /\ before.version < backfills
    /\ stored[load_day] = NoPartition \/ stored[load_day].version > before.version

RowsOf(partitions) == [i \in 1 .. Len(partitions) |-> partitions[i].rows]

LoadInv ==
    /\ load_pc \in {"next_day", "read", "admitted"} =>
          /\ Len(evidence) = load_day - window[1]
          /\ series = FlattenSeq(RowsOf(evidence))
    /\ load_pc \in {"read", "confirm"} => load_day < window[2] /\ before # NoPartition /\ before.version > 0
    /\ load_pc = "read" => stored[load_day] = before \/ Replaced
    /\ load_pc = "confirm" =>
          /\ Len(evidence) = load_day - window[1] + 1
          /\ \/ series = FlattenSeq(RowsOf(evidence)) /\ stored[load_day] = before
             \/ Replaced

FundingInv == FundingType /\ BackfillInv /\ LoadInv /\ (load_pc = "admitted" => Validated)

\* Multiples of a length, and what lies between two of them.
LEMMA DivBetween ==
    ASSUME NEW t \in Int, NEW d \in Nat \ {0}, NEW a \in Int, NEW b \in Int, a * d <= t, t < b * d
    PROVE  t \div d \in a .. b - 1
  <1>1. PICK q \in Int, r \in Int : q = t \div d /\ r = t % d /\ t = d * q + r /\ 0 <= r /\ r < d
    OBVIOUS
  <1>2. a * d \in Int /\ b * d \in Int /\ d * q = q * d /\ d * q \in Int
    OBVIOUS
  <1>3. q < b
    <2> SUFFICES ASSUME b <= q PROVE FALSE
      OBVIOUS
    <2>1. b * d <= q * d
      BY ProductOrder
    <2> QED BY <1>1, <1>2, <2>1
  <1>4. a <= q
    <2> SUFFICES ASSUME q + 1 <= a PROVE FALSE
      OBVIOUS
    <2>1. (q + 1) * d <= a * d
      BY ProductOrder
    <2>2. (q + 1) * d = q * d + d
      OBVIOUS
    <2> QED BY <1>1, <1>2, <2>1, <2>2
  <1> QED BY <1>1, <1>3, <1>4

LEMMA DayType == Day \in Nat \ {0} /\ Hour \in Nat \ {0} /\ DayHours \in Nat \ {0}
  <1>1. Hour \in Nat \ {0} /\ DayHours \in Nat \ {0}
    BY FundingSeriesAssumption
  <1>2. \A a \in Nat \ {0}, b \in Nat \ {0} : a * b \in Nat \ {0}
    OBVIOUS
  <1> QED BY <1>1, <1>2 DEF Day

LEMMA WindowType ==
    ASSUME window \in Windows
    PROVE  /\ window[1] \in Nat /\ window[2] \in Nat /\ window[1] < window[2]
           /\ \A d \in window[1] .. window[2] - 1 : d \in Days
  <1>1. Months * MonthDays \in Nat
    BY FundingSeriesAssumption
  <1>2. window \in (0 .. Months * MonthDays) \X (0 .. Months * MonthDays) /\ window[1] < window[2]
    BY FundingSeriesAssumption
  <1> QED BY <1>1, <1>2 DEF Days

LEMMA OneMoreMonth ==
    ASSUME NEW m \in 0 .. Months - 1
    PROVE  /\ FirstDayOf(m) \in Nat /\ FirstDayOf(m + 1) \in Nat /\ FirstDayOf(m) < FirstDayOf(m + 1)
           /\ \A d \in FirstDayOf(m) .. FirstDayOf(m + 1) - 1 : d \in Days
  <1>1. MonthDays \in Nat \ {0} /\ Months \in Nat
    BY FundingSeriesAssumption
  <1>2. FirstDayOf(m + 1) = FirstDayOf(m) + MonthDays /\ FirstDayOf(m) \in Nat
    BY <1>1 DEF FirstDayOf
  <1>3. FirstDayOf(m + 1) <= Months * MonthDays /\ Months * MonthDays \in Nat
    BY <1>1, ProductOrder DEF FirstDayOf
  <1> QED BY <1>1, <1>2, <1>3 DEF Days

\* The rows of the venue.
LEMMA TruthFacts ==
    ASSUME truth \in Truths
    PROVE  /\ Len(truth) \in Nat /\ truth \in Seq(Row) /\ truth \in Seq(Settlements)
           /\ \A row \in Settlements : row \in Row
  <1>1. truth \in Seq(Row)
    BY VenueAssumption DEF Row
  <1>2. \A i \in 1 .. Len(truth) : truth[i] \in Row /\ truth[i] \in Settlements
    BY <1>1 DEF Settlements
  <1>3. truth \in Seq(Settlements)
    <2>1. truth = [i \in 1 .. Len(truth) |-> truth[i]] /\ Len(truth) \in Nat
      BY <1>1
    <2> QED BY <1>2, <2>1
  <1>4. \A row \in Settlements : row \in Row
    BY <1>2 DEF Settlements
  <1> QED BY <1>1, <1>3, <1>4

LEMMA SequenceOf ==
    ASSUME NEW X, NEW Y, NEW rows \in Seq(X), \A i \in 1 .. Len(rows) : rows[i] \in Y
    PROVE  rows \in Seq(Y)
  <1>1. rows = [i \in 1 .. Len(rows) |-> rows[i]] /\ Len(rows) \in Nat
    OBVIOUS
  <1> QED BY <1>1

LEMMA PartType ==
    ASSUME NEW X, NEW rows \in Seq(X), NEW i \in 1 .. Len(rows) + 1, NEW j \in 0 .. Len(rows)
    PROVE  SubSeq(rows, i, j) \in Seq(X)
  <1>1. \A k \in i .. j : rows[k] \in X
    OBVIOUS
  <1> QED BY <1>1, SubSeqProperties

\* What the archive of a month may be.
LEMMA ArchiveType ==
    ASSUME truth \in Truths, NEW m, NEW rows \in Archives(m)
    PROVE  rows \in Seq(Settlements \cup {Stale} \cup {Insane(row) : row \in Settlements})
  <1> DEFINE X == Settlements \cup {Stale} \cup {Insane(row) : row \in Settlements}
             s == Settled(m)
  <1> SUFFICES rows \in Seq(X)
    OBVIOUS
  <1>1. s \in Seq(Settlements)
    <2>1. {i \in 1 .. Len(truth) : truth[i].time \in MonthStart(m) .. MonthStart(m + 1) - 1}
              \in SUBSET (1 .. Len(truth))
      OBVIOUS
    <2> QED BY <2>1, TruthFacts, RowsAtFacts DEF Settled
  <1>2. Stale \in X /\ \A row \in Settlements : row \in X /\ Insane(row) \in X
    OBVIOUS
  <1>3. PICK n \in Nat : n = Len(s)
    BY <1>1
  <1>4. s \in Seq(X) /\ \A i \in 1 .. n : s[i] \in X /\ Insane(s[i]) \in X
    BY <1>1, <1>2, <1>3
  <1>5. \/ rows \in {s, <<Stale>> \o s}
        \/ \E i \in 1 .. n : rows = RemoveAt(s, i)
        \/ \E i \in 1 .. n : rows = SubSeq(s, 1, i - 1)
        \/ \E i \in 1 .. n : rows = InsertAt(s, i, s[i])
        \/ \E i \in 1 .. n : rows = ReplaceAt(s, i, Insane(s[i]))
    BY <1>3 DEF Archives
  <1> HIDE DEF X, s
  <1>6. ASSUME NEW a \in Seq(X), NEW b \in Seq(X) PROVE a \o b \in Seq(X)
    BY <1>6
  <1>7. \A i \in 1 .. n : SubSeq(s, 1, i - 1) \in Seq(X) /\ SubSeq(s, i + 1, n) \in Seq(X)
                             /\ SubSeq(s, i, n) \in Seq(X)
    BY <1>3, <1>4, PartType
  <1>8. CASE rows \in {s, <<Stale>> \o s}
    <2>1. <<Stale>> \in Seq(X)
      BY <1>2
    <2> QED BY <1>4, <1>6, <1>8, <2>1
  <1>9. CASE \E i \in 1 .. n : rows = RemoveAt(s, i)
    BY <1>3, <1>6, <1>7, <1>9 DEF RemoveAt
  <1>10. CASE \E i \in 1 .. n : rows = SubSeq(s, 1, i - 1)
    BY <1>7, <1>10
  <1>11. CASE \E i \in 1 .. n : rows = InsertAt(s, i, s[i])
    <2>1. PICK i \in 1 .. n : rows = InsertAt(s, i, s[i])
      BY <1>11
    <2>2. <<s[i]>> \in Seq(X)
      BY <1>4
    <2>3. SubSeq(s, 1, i - 1) \o <<s[i]>> \in Seq(X)
      BY <1>6, <1>7, <2>2
    <2>4. rows = SubSeq(s, 1, i - 1) \o <<s[i]>> \o SubSeq(s, i, n)
      BY <1>3, <2>1 DEF InsertAt
    <2> QED BY <1>6, <1>7, <2>3, <2>4
  <1>12. CASE \E i \in 1 .. n : rows = ReplaceAt(s, i, Insane(s[i]))
    <2>1. PICK i \in 1 .. n : rows = [s EXCEPT ![i] = Insane(s[i])]
      BY <1>12 DEF ReplaceAt
    <2>2. s \in [1 .. n -> X] /\ Insane(s[i]) \in X
      BY <1>3, <1>4
    <2>3. rows \in [1 .. n -> X]
      BY <2>1, <2>2
    <2> QED BY <2>3
  <1> QED BY <1>5, <1>8, <1>9, <1>10, <1>11, <1>12

\* What passes the check of a month is of the venue and of that month.
LEMMA CheckedMonth ==
    ASSUME truth \in Truths, NEW m \in 0 .. Months - 1, NEW rows \in Archives(m), CheckMonth(rows, m)
    PROVE  /\ rows \in Seq(Settlements) /\ rows # <<>>
           /\ \A i \in 1 .. Len(rows) : DateOf(rows[i]) \in FirstDayOf(m) .. FirstDayOf(m + 1) - 1
  <1> DEFINE X == Settlements \cup {Stale} \cup {Insane(row) : row \in Settlements}
  <1>1. rows \in Seq(X) /\ rows # <<>>
    BY ArchiveType DEF CheckMonth
  <1>2. Day \in Nat \ {0} /\ Months \in Nat /\ MonthDays \in Nat
    BY DayType, FundingSeriesAssumption
  <1>3. MonthStart(m) = FirstDayOf(m) * Day /\ MonthStart(m + 1) = FirstDayOf(m + 1) * Day
    BY DEF MonthStart, FirstDayOf
  <1>4. FirstDayOf(m) \in Nat /\ FirstDayOf(m + 1) \in Nat /\ FirstDayOf(m + 1) <= Months * MonthDays
    <2>1. (m + 1) * MonthDays <= Months * MonthDays
      BY <1>2, ProductOrder
    <2> QED BY <2>1, OneMoreMonth DEF FirstDayOf
  <1>5. ASSUME NEW i \in 1 .. Len(rows)
        PROVE  /\ rows[i] \in Settlements
               /\ DateOf(rows[i]) \in FirstDayOf(m) .. FirstDayOf(m + 1) - 1
    <2>1. rows[i] \in X /\ rows[i].sane /\ rows[i].time \in MonthStart(m) .. MonthStart(m + 1) - 1
      BY <1>1 DEF CheckMonth, Sane
    <2>2. rows[i] # Stale
      <3>1. FirstDayOf(m) * Day \in Nat /\ FirstDayOf(m + 1) * Day \in Nat
        BY <1>2, <1>4
      <3>2. FirstDayOf(m + 1) * Day <= Months * MonthDays * Day /\ Months * MonthDays * Day \in Nat
        BY <1>2, <1>4, ProductOrder
      <3>3. Months * MonthDays * Day = Months * MonthDays * DayHours * Hour
        BY FundingSeriesAssumption DEF Day
      <3>4. rows[i].time \in 0 .. Months * MonthDays * DayHours * Hour - 1
        BY <1>3, <2>1, <3>1, <3>2, <3>3
      <3> QED BY <3>4, VenueAssumption
    <2>3. \A row \in Settlements : ~ Insane(row).sane
      BY TruthFacts DEF Insane, Row
    <2>4. rows[i] \in Settlements
      BY <2>1, <2>2, <2>3
    <2>5. DateOf(rows[i]) \in FirstDayOf(m) .. FirstDayOf(m + 1) - 1
      <3>1. FirstDayOf(m) * Day \in Nat /\ FirstDayOf(m + 1) * Day \in Nat
        BY <1>2, <1>4
      <3>2. rows[i].time \in Int /\ FirstDayOf(m) * Day <= rows[i].time
               /\ rows[i].time < FirstDayOf(m + 1) * Day
        BY <1>3, <2>1, <3>1
      <3>3. PICK f \in Nat, g \in Nat : f = FirstDayOf(m) /\ g = FirstDayOf(m + 1)
        BY <1>4
      <3>4. rows[i].time \div Day \in f .. g - 1
        <4>1. f * Day <= rows[i].time /\ rows[i].time < g * Day
          BY <3>2, <3>3
        <4>2. PICK t \in Int, y \in Nat \ {0} : t = rows[i].time /\ y = Day
          BY <1>2, <3>2
        <4>3. f * y <= t /\ t < g * y
          BY <4>1, <4>2
        <4>4. t \div y \in f .. g - 1
          <5>1. f \in Int /\ g \in Int
            OBVIOUS
          <5> QED BY <4>3, <5>1, DivBetween, Zenon
        <4> QED BY <4>2, <4>4, Zenon
      <3> QED BY <3>3, <3>4 DEF DateOf
    <2> QED BY <2>4, <2>5
  <1> HIDE DEF X
  <1> QED BY <1>1, <1>5, SequenceOf

------------------------------------------------------------------------------
LEMMA FundingInitially == FundingInit => FundingInv
  <1> SUFFICES ASSUME FundingInit PROVE FundingInv
    OBVIOUS
  <1>1. /\ truth \in Truths /\ window \in Windows /\ stored = [d \in Days |-> NoPartition]
        /\ backfills = 0 /\ month = Months /\ frame = <<>>
        /\ load_pc = "next_day" /\ load_day = window[1]
        /\ before = NoPartition /\ series = <<>> /\ evidence = <<>>
    BY DEF FundingInit
  <1>2. NoPartition \in Partitions /\ NoPartition.version = 0
    BY DEF NoPartition, Partitions
  <1>3. FundingType
    <2>1. Months \in Nat
      BY FundingSeriesAssumption
    <2>2. load_day \in window[1] .. window[2]
      BY <1>1, WindowType
    <2> QED BY <1>1, <1>2, <2>1, <2>2 DEF FundingType
  <1>4. BackfillInv
    <2>1. DaysToStore = {}
      BY <1>1 DEF DaysToStore
    <2>2. \A d \in Days : stored[d] = NoPartition
      BY <1>1
    <2> QED BY <1>1, <1>2, <2>1, <2>2, FundingSeriesAssumption DEF BackfillInv
  <1>5. LoadInv
    <2>1. Len(evidence) = 0 /\ load_day - window[1] = 0
      BY <1>1, WindowType
    <2>2. RowsOf(evidence) = <<>>
      BY <1>1 DEF RowsOf
    <2>3. FlattenSeq(<<>>) = <<>>
      BY DEF FlattenSeq
    <2> QED BY <1>1, <2>1, <2>2, <2>3 DEF LoadInv
  <1> QED BY <1>1, <1>3, <1>4, <1>5 DEF FundingInv

\* A step of a backfill that leaves the partitions alone leaves a load alone.
LEMMA LoadUndisturbed ==
    ASSUME FundingInv, LoadPending, UNCHANGED <<truth, window, loadVars>>, stored' = stored,
           backfills' \in Nat, backfills <= backfills'
    PROVE  LoadInv' /\ load_pc' # "admitted"
  <1>1. /\ window' = window /\ load_pc' = load_pc /\ load_day' = load_day /\ before' = before
        /\ series' = series /\ evidence' = evidence
    BY DEF loadVars
  <1>2. Replaced => Replaced'
    <2>1. before.version \in Nat /\ backfills \in Nat
      BY DEF FundingInv, FundingType, Partitions
    <2> QED BY <1>1, <2>1 DEF Replaced
  <1>3. RowsOf(evidence)' = RowsOf(evidence)
    BY <1>1 DEF RowsOf
  <1>4. LoadInv'
    BY <1>1, <1>2, <1>3 DEF FundingInv, LoadInv
  <1> QED BY <1>1, <1>4 DEF LoadPending

LEMMA StartBackfillKeepsFunding ==
    ASSUME FundingInv, StartBackfill
    PROVE  FundingInv'
  <1>1. /\ LoadPending /\ backfills' = backfills + 1 /\ month' = 0 /\ frame' = <<>>
        /\ UNCHANGED <<truth, window, stored, loadVars>>
    BY DEF StartBackfill
  <1>2. FundingType'
    <2>1. month' \in 0 .. Months
      BY <1>1, FundingSeriesAssumption
    <2>2. Settlements' = Settlements /\ Partitions' = Partitions
      BY <1>1 DEF Settlements, Partitions
    <2>3. backfills' \in Nat /\ frame' \in Seq(Settlements)
      BY <1>1 DEF FundingInv, FundingType
    <2> QED BY <1>1, <2>1, <2>2, <2>3 DEF FundingInv, FundingType, loadVars
  <1>3. BackfillInv'
    <2>1. DaysToStore' = {} /\ stored' = stored
      BY <1>1 DEF DaysToStore
    <2>2. \A d \in Days : stored[d].version \in Nat
      BY DEF FundingInv, FundingType, Partitions
    <2>3. backfills \in Nat
      BY DEF FundingInv, FundingType
    <2>4. \A d \in Days : /\ stored[d].version <= backfills' /\ stored[d].version # backfills'
                          /\ stored[d] # NoPartition => stored[d].version > 0
      BY <1>1, <2>2, <2>3 DEF FundingInv, BackfillInv
    <2>5. month' # Months /\ backfills' > 0
      BY <1>1, <2>3, FundingSeriesAssumption
    <2> QED BY <2>1, <2>4, <2>5 DEF BackfillInv
  <1>4. LoadInv' /\ load_pc' # "admitted"
    <2>1. backfills' \in Nat /\ backfills <= backfills'
      BY <1>1 DEF FundingInv, FundingType
    <2> QED BY <1>1, <2>1, LoadUndisturbed
  <1> QED BY <1>2, <1>3, <1>4 DEF FundingInv

LEMMA FetchMonthKeepsFunding ==
    ASSUME FundingInv, FetchMonth
    PROVE  FundingInv'
  <1>1. /\ LoadPending /\ month < Months /\ frame = <<>>
        /\ UNCHANGED <<truth, window, stored, backfills, loadVars>>
    BY DEF FetchMonth
  <1>2. month \in 0 .. Months - 1 /\ Months \in Nat
    BY <1>1, FundingSeriesAssumption DEF FundingInv, FundingType
  <1>3. LoadInv' /\ load_pc' # "admitted"
    <2>1. backfills' \in Nat /\ backfills <= backfills'
      BY <1>1 DEF FundingInv, FundingType
    <2> QED BY <1>1, <2>1, LoadUndisturbed
  <1>4. PICK rows \in Archives(month) :
           IF CheckMonth(rows, month) THEN frame' = rows /\ UNCHANGED month
           ELSE month' = Months /\ UNCHANGED frame
    BY DEF FetchMonth
  <1>5. Settlements' = Settlements /\ Partitions' = Partitions
    BY <1>1 DEF Settlements, Partitions
  <1>6. CASE CheckMonth(rows, month)
    <2>1. frame' = rows /\ month' = month
      BY <1>4, <1>6
    <2>2. /\ rows \in Seq(Settlements) /\ rows # <<>>
          /\ \A i \in 1 .. Len(rows) : DateOf(rows[i]) \in FirstDayOf(month) .. FirstDayOf(month + 1) - 1
      BY <1>2, <1>6, CheckedMonth DEF FundingInv, FundingType
    <2>3. FundingType'
      BY <1>1, <1>5, <2>1, <2>2 DEF FundingInv, FundingType, loadVars
    <2>4. DaysToStore' = {DateOf(rows[i]) : i \in 1 .. Len(rows)}
      BY <2>1 DEF DaysToStore
    <2>5. \A d \in DaysToStore' : d \in FirstDayOf(month) .. FirstDayOf(month + 1) - 1
      BY <2>2, <2>4
    <2>6. FirstDayOf(month) \in Nat /\ FirstDayOf(month + 1) \in Nat /\ FirstDayOf(month) < FirstDayOf(month + 1)
      BY <1>2, OneMoreMonth
    <2>7. ASSUME NEW d \in Days, stored[d].version = backfills
          PROVE  d \notin DaysToStore' /\ d < FirstDayOf(month + 1)
      <3>1. d < FirstDayOf(month) /\ d \in Int
        BY <1>1, <2>7 DEF FundingInv, BackfillInv, Days
      <3> QED BY <2>5, <2>6, <3>1
    <2>8. BackfillInv'
      BY <1>1, <1>2, <2>1, <2>2, <2>5, <2>7 DEF FundingInv, BackfillInv
    <2> QED BY <1>3, <2>3, <2>8 DEF FundingInv
  <1>7. CASE ~CheckMonth(rows, month)
    <2>1. month' = Months /\ frame' = <<>>
      BY <1>1, <1>4, <1>7
    <2>2. FundingType'
      BY <1>1, <1>2, <1>5, <2>1 DEF FundingInv, FundingType, loadVars
    <2>3. DaysToStore' = {}
      BY <2>1 DEF DaysToStore
    <2>4. BackfillInv'
      BY <1>1, <1>2, <2>1, <2>3 DEF FundingInv, BackfillInv
    <2> QED BY <1>3, <2>2, <2>4 DEF FundingInv
  <1> QED BY <1>6, <1>7

LEMMA NoArchiveKeepsFunding ==
    ASSUME FundingInv, NoArchive
    PROVE  FundingInv'
  <1>1. /\ LoadPending /\ month < Months /\ frame = <<>> /\ month' \in {month + 1, Months}
        /\ UNCHANGED <<truth, window, stored, backfills, frame, loadVars>>
    BY DEF NoArchive
  <1>2. month \in 0 .. Months - 1 /\ Months \in Nat
    BY <1>1, FundingSeriesAssumption DEF FundingInv, FundingType
  <1>3. LoadInv' /\ load_pc' # "admitted"
    <2>1. backfills' \in Nat /\ backfills <= backfills'
      BY <1>1 DEF FundingInv, FundingType
    <2> QED BY <1>1, <2>1, LoadUndisturbed
  <1>4. FundingType'
    <2>1. month' \in 0 .. Months
      BY <1>1, <1>2
    <2> QED BY <1>1, <2>1 DEF FundingInv, FundingType, loadVars, Partitions, Settlements
  <1>5. DaysToStore' = {}
    BY <1>1 DEF DaysToStore
  <1>6. ASSUME month' = Months PROVE BackfillInv'
    BY <1>1, <1>2, <1>5, <1>6 DEF FundingInv, BackfillInv
  <1>7. ASSUME month' = month + 1, month' # Months PROVE BackfillInv'
    <2>1. month + 1 \in 0 .. Months - 1 /\ Months \in Nat
      BY <1>2, <1>7, <1>1
    <2>2. /\ FirstDayOf(month) < FirstDayOf(month + 1) /\ FirstDayOf(month) \in Nat
          /\ FirstDayOf(month + 1) \in Nat /\ FirstDayOf((month + 1) + 1) \in Nat
          /\ FirstDayOf(month + 1) < FirstDayOf((month + 1) + 1)
      BY <1>2, <2>1, OneMoreMonth
    <2>3. \A d \in Days : d \in Int
      BY DEF Days
    <2>4. \A d \in Days : stored[d].version = backfills =>
             d < FirstDayOf(month + 1) /\ d < FirstDayOf((month + 1) + 1)
      BY <1>1, <2>2, <2>3 DEF FundingInv, BackfillInv
    <2> QED BY <1>1, <1>5, <1>7, <2>4 DEF FundingInv, BackfillInv
  <1>8. BackfillInv'
    BY <1>1, <1>6, <1>7
  <1> QED BY <1>3, <1>4, <1>8 DEF FundingInv

LEMMA BackfillKilledKeepsFunding ==
    ASSUME FundingInv, BackfillKilled
    PROVE  FundingInv'
  <1>1. /\ LoadPending /\ month' = Months /\ frame' = <<>>
        /\ UNCHANGED <<truth, window, stored, backfills, loadVars>>
    BY DEF BackfillKilled
  <1>2. LoadInv' /\ load_pc' # "admitted"
    <2>1. backfills' \in Nat /\ backfills <= backfills'
      BY <1>1 DEF FundingInv, FundingType
    <2> QED BY <1>1, <2>1, LoadUndisturbed
  <1>3. Months \in Nat
    BY FundingSeriesAssumption
  <1>4. FundingType'
    <2>1. Settlements' = Settlements
      BY <1>1 DEF Settlements
    <2>2. Partitions' = Partitions
      BY <2>1 DEF Partitions
    <2>3. <<>> \in Seq(Settlements) /\ Months \in 0 .. Months
      BY <1>3
    <2> QED BY <1>1, <2>1, <2>2, <2>3 DEF FundingInv, FundingType, loadVars
  <1>5. DaysToStore' = {}
    BY <1>1 DEF DaysToStore
  <1>6. BackfillInv'
    BY <1>1, <1>3, <1>5 DEF FundingInv, BackfillInv
  <1> QED BY <1>2, <1>4, <1>6 DEF FundingInv

\* There is something to store only while a month is stored.
LEMMA MonthOfFrame ==
    ASSUME FundingInv, NEW d \in DaysToStore
    PROVE  month \in 0 .. Months - 1 /\ backfills > 0 /\ d \in Days /\ frame # <<>>
  <1>1. frame # <<>>
    BY DEF DaysToStore
  <1>2. month \in 0 .. Months - 1 /\ month < Months
    BY <1>1, FundingSeriesAssumption DEF FundingInv, FundingType, BackfillInv
  <1>3. d \in Days
    BY <1>2, OneMoreMonth DEF FundingInv, BackfillInv
  <1> QED BY <1>1, <1>2, <1>3 DEF FundingInv, BackfillInv

LEMMA ClearDayKeepsFunding ==
    ASSUME FundingInv, ClearDay
    PROVE  FundingInv'
  <1>1. /\ LoadPending /\ UNCHANGED <<truth, window, backfills, month, frame, loadVars>>
    BY DEF ClearDay
  <1>2. PICK d \in DaysToStore :
           stored[d] # NoPartition /\ stored' = [stored EXCEPT ![d] = NoPartition]
    BY DEF ClearDay
  <1>3. month \in 0 .. Months - 1 /\ month < Months /\ backfills > 0 /\ d \in Days
    BY <1>2, MonthOfFrame, FundingSeriesAssumption
  <1>4. NoPartition \in Partitions /\ NoPartition.version = 0
    BY DEF NoPartition, Partitions
  <1>5. stored[d].version < backfills
    <2>1. stored[d].version \in Nat /\ backfills \in Nat
      BY <1>3 DEF FundingInv, FundingType, Partitions
    <2>2. stored[d].version <= backfills /\ stored[d].version # backfills
      BY <1>3 DEF FundingInv, BackfillInv
    <2> QED BY <2>1, <2>2
  <1>6. stored'[d] = NoPartition /\ \A e \in Days : e # d => stored'[e] = stored[e]
    BY <1>2, <1>3 DEF FundingInv, FundingType
  <1>7. FundingType'
    <2>1. stored' \in [Days -> Partitions]
      BY <1>2, <1>4 DEF FundingInv, FundingType
    <2>2. Settlements' = Settlements /\ Partitions' = Partitions
      BY <1>1 DEF Settlements, Partitions
    <2> QED BY <1>1, <2>1, <2>2 DEF FundingInv, FundingType, loadVars
  <1>8. BackfillInv'
    <2>1. DaysToStore' = DaysToStore /\ month' = month /\ backfills' = backfills /\ frame' = frame
      BY <1>1 DEF DaysToStore
    <2>2. \A e \in Days : stored'[e] = stored[e] \/ stored'[e] = NoPartition
      BY <1>6
    <2>3. backfills \in Nat /\ backfills > 0
      BY <1>3 DEF FundingInv, FundingType
    <2>4. ASSUME NEW e \in Days
          PROVE  /\ stored'[e].version <= backfills
                 /\ stored'[e] # NoPartition => stored'[e].version > 0
                 /\ stored'[e].version = backfills =>
                       /\ e \notin DaysToStore /\ e < FirstDayOf(month + 1)
                       /\ frame = <<>> => e < FirstDayOf(month)
      <3>1. CASE stored'[e] = stored[e]
        BY <1>3, <3>1 DEF FundingInv, BackfillInv
      <3>2. CASE stored'[e] = NoPartition
        BY <1>4, <2>3, <3>2
      <3> QED BY <2>2, <3>1, <3>2
    <2> QED BY <2>1, <2>4 DEF FundingInv, BackfillInv
  <1>9. LoadInv'
    <2>1. /\ window' = window /\ load_pc' = load_pc /\ load_day' = load_day /\ before' = before
          /\ series' = series /\ evidence' = evidence /\ backfills' = backfills
      BY <1>1 DEF loadVars
    <2>2. RowsOf(evidence)' = RowsOf(evidence)
      BY <2>1 DEF RowsOf
    <2>3. ASSUME load_pc \in {"read", "confirm"}, stored[load_day] = before
          PROVE  stored'[load_day] = before \/ Replaced'
      <3>1. CASE load_day = d
        BY <1>5, <1>6, <2>1, <2>3, <3>1 DEF Replaced
      <3>2. CASE load_day # d
        <4>1. load_day \in Days
          <5>1. load_day \in window[1] .. window[2] - 1
            BY <2>3, WindowType DEF FundingInv, FundingType, LoadInv
          <5> QED BY <5>1, WindowType DEF FundingInv, FundingType
        <4> QED BY <1>6, <2>3, <3>2, <4>1
      <3> QED BY <3>1, <3>2
    <2>4. ASSUME load_pc \in {"read", "confirm"}, Replaced PROVE Replaced'
      <3>1. stored'[load_day] \in {stored[load_day], NoPartition}
        <4>1. load_day \in Days
          <5>1. load_day \in window[1] .. window[2] - 1
            BY <2>4, WindowType DEF FundingInv, FundingType, LoadInv
          <5> QED BY <5>1, WindowType DEF FundingInv, FundingType
        <4> QED BY <1>6, <4>1
      <3> QED BY <2>1, <2>4, <3>1 DEF Replaced
    <2> QED BY <2>1, <2>2, <2>3, <2>4 DEF FundingInv, LoadInv
  <1>10. load_pc' # "admitted"
    BY <1>1 DEF LoadPending, loadVars
  <1> QED BY <1>7, <1>8, <1>9, <1>10 DEF FundingInv

LEMMA StoreDayKeepsFunding ==
    ASSUME FundingInv, StoreDay
    PROVE  FundingInv'
  <1>1. /\ LoadPending /\ UNCHANGED <<truth, window, backfills, loadVars>>
    BY DEF StoreDay
  <1>2. PICK d \in DaysToStore :
           /\ stored[d] = NoPartition
           /\ stored' = [stored EXCEPT ![d] = [version |-> backfills, rows |-> OfDay(frame, d)]]
           /\ frame' = RowsAt(frame, {i \in 1 .. Len(frame) : DateOf(frame[i]) # d})
    BY DEF StoreDay
  <1> DEFINE kept == {i \in 1 .. Len(frame) : DateOf(frame[i]) # d}
             stores == [version |-> backfills, rows |-> OfDay(frame, d)]
  <1>3. month \in 0 .. Months - 1 /\ month < Months /\ backfills > 0 /\ d \in Days /\ Months \in Nat
    BY <1>2, MonthOfFrame, FundingSeriesAssumption
  <1>4. month' = IF frame' = <<>> THEN month + 1 ELSE month
    BY DEF StoreDay
  <1>5. frame \in Seq(Settlements) /\ backfills \in Nat
    BY DEF FundingInv, FundingType
  <1>6. stores \in Partitions
    <2>1. {i \in 1 .. Len(frame) : DateOf(frame[i]) = d} \in SUBSET (1 .. Len(frame))
      OBVIOUS
    <2>2. OfDay(frame, d) \in Seq(Settlements)
      BY <1>5, <2>1, RowsAtFacts DEF OfDay
    <2> QED BY <1>5, <2>2 DEF Partitions
  <1>7. /\ frame' \in Seq(Settlements)
        /\ \A k \in 1 .. Len(frame') : \E i \in kept : frame'[k] = frame[i]
    <2>1. kept \in SUBSET (1 .. Len(frame))
      OBVIOUS
    <2>2. frame' = RowsAt(frame, kept)
      BY <1>2
    <2> HIDE DEF kept
    <2>3. /\ RowsAt(frame, kept) \in Seq(Settlements)
          /\ Len(RowsAt(frame, kept)) = Cardinality(kept)
          /\ \A k \in 1 .. Cardinality(kept) :
                RowsAt(frame, kept)[k] = frame[Nth(kept, k)] /\ Nth(kept, k) \in kept
      BY <1>5, <2>1, RowsAtFacts
    <2> QED BY <2>2, <2>3
  <1>8. DaysToStore' \subseteq DaysToStore \ {d}
    <2>1. ASSUME NEW e \in DaysToStore' PROVE e \in DaysToStore /\ e # d
      <3>1. PICK k \in 1 .. Len(frame') : e = DateOf(frame'[k])
        BY DEF DaysToStore, DateOf
      <3>2. PICK i \in kept : frame'[k] = frame[i]
        BY <1>7
      <3>3. e = DateOf(frame[i]) /\ i \in 1 .. Len(frame) /\ DateOf(frame[i]) # d
        BY <3>1, <3>2
      <3> QED BY <3>3 DEF DaysToStore
    <2> QED BY <2>1
  <1>9. stored'[d] = stores /\ \A e \in Days : e # d => stored'[e] = stored[e]
    BY <1>2, <1>3 DEF FundingInv, FundingType
  <1>10. FundingType'
    <2>1. stored' \in [Days -> Partitions]
      BY <1>2, <1>6 DEF FundingInv, FundingType
    <2>2. Settlements' = Settlements /\ Partitions' = Partitions
      BY <1>1 DEF Settlements, Partitions
    <2>3. month' \in 0 .. Months
      BY <1>3, <1>4
    <2> QED BY <1>1, <1>7, <2>1, <2>2, <2>3 DEF FundingInv, FundingType, loadVars
  <1>11. BackfillInv'
    <2>1. /\ FirstDayOf(month) \in Nat /\ FirstDayOf(month + 1) \in Nat
          /\ FirstDayOf(month) < FirstDayOf(month + 1)
      BY <1>3, OneMoreMonth
    <2>2. \A e \in DaysToStore : e \in FirstDayOf(month) .. FirstDayOf(month + 1) - 1
      BY DEF FundingInv, BackfillInv
    <2>3. ASSUME NEW e \in Days, stored'[e].version = backfills
          PROVE  e \notin DaysToStore' /\ e < FirstDayOf(month + 1)
      <3>1. CASE e = d
        BY <1>8, <2>1, <2>2, <3>1
      <3>2. CASE e # d
        <4>1. stored[e].version = backfills
          BY <1>9, <2>3, <3>2
        <4> QED BY <1>3, <1>8, <4>1 DEF FundingInv, BackfillInv
      <3> QED BY <3>1, <3>2
    <2>4. \A e \in Days : /\ stored'[e].version <= backfills
                          /\ stored'[e] # NoPartition => stored'[e].version > 0
      <3>1. stores.version = backfills
        OBVIOUS
      <3> HIDE DEF stores
      <3> QED BY <1>3, <1>5, <1>9, <3>1 DEF FundingInv, BackfillInv
    <2>5. CASE frame' = <<>>
      <3>1. DaysToStore' = {} /\ month' = month + 1
        BY <1>4, <2>5 DEF DaysToStore
      <3>2. ASSUME month' < Months, NEW e \in Days, stored'[e].version = backfills
            PROVE  e < FirstDayOf(month') /\ e < FirstDayOf(month' + 1)
        <4>1. month + 1 \in 0 .. Months - 1
          BY <1>3, <3>1, <3>2
        <4>2. FirstDayOf(month + 1) < FirstDayOf((month + 1) + 1) /\ FirstDayOf((month + 1) + 1) \in Nat
          BY <4>1, OneMoreMonth
        <4>3. e \in Int /\ e < FirstDayOf(month + 1)
          BY <2>3, <3>2 DEF Days
        <4> QED BY <2>1, <3>1, <4>2, <4>3
      <3> QED BY <1>1, <1>3, <2>4, <2>5, <3>1, <3>2 DEF BackfillInv
    <2>6. CASE frame' # <<>>
      <3>1. month' = month
        BY <1>4, <2>6
      <3>2. \A e \in DaysToStore' : e \in FirstDayOf(month') .. FirstDayOf(month' + 1) - 1
        BY <1>8, <2>2, <3>1
      <3> QED BY <1>1, <1>3, <2>3, <2>4, <2>6, <3>1, <3>2 DEF BackfillInv
    <2> QED BY <2>5, <2>6
  <1>12. LoadInv'
    <2>1. /\ window' = window /\ load_pc' = load_pc /\ load_day' = load_day /\ before' = before
          /\ series' = series /\ evidence' = evidence /\ backfills' = backfills
      BY <1>1 DEF loadVars
    <2>2. RowsOf(evidence)' = RowsOf(evidence)
      BY <2>1 DEF RowsOf
    <2>3. ASSUME load_pc \in {"read", "confirm"}
          PROVE  /\ stored[load_day] = before => stored'[load_day] = before
                 /\ Replaced => Replaced'
      <3>1. load_day \in Days /\ before # NoPartition
        <4>1. load_day \in window[1] .. window[2] - 1 /\ before # NoPartition
          BY <2>3, WindowType DEF FundingInv, FundingType, LoadInv
        <4> QED BY <4>1, WindowType DEF FundingInv, FundingType
      <3>2. stored[load_day] = before => stored'[load_day] = before
        BY <1>2, <1>9, <3>1
      <3>3. Replaced => Replaced'
        <4>1. stores.version = backfills
          OBVIOUS
        <4>2. before.version \in Nat /\ backfills \in Nat
          BY DEF FundingInv, FundingType, Partitions
        <4> HIDE DEF stores
        <4> QED BY <1>9, <2>1, <3>1, <4>1, <4>2 DEF Replaced
      <3> QED BY <3>2, <3>3
    <2> QED BY <2>1, <2>2, <2>3 DEF FundingInv, LoadInv
  <1>13. load_pc' # "admitted"
    BY <1>1 DEF LoadPending, loadVars
  <1> QED BY <1>10, <1>11, <1>12, <1>13 DEF FundingInv

LEMMA BackfillUndisturbed ==
    ASSUME FundingInv, UNCHANGED fetchVars
    PROVE  BackfillInv'
  <1>1. stored' = stored /\ backfills' = backfills /\ month' = month /\ frame' = frame
    BY DEF fetchVars
  <1>2. DaysToStore' = DaysToStore
    BY <1>1 DEF DaysToStore
  <1> QED BY <1>1, <1>2 DEF FundingInv, BackfillInv

\* What is left to prove of a step of the load.
LEMMA LoadStep ==
    ASSUME FundingInv, UNCHANGED <<truth, window, fetchVars>>,
           load_pc' \in {"next_day", "read", "confirm", "admitted", "raised"},
           load_day' \in window[1] .. window[2], before' \in Partitions,
           series' \in Seq(Settlements), evidence' \in Seq(Partitions),
           LoadInv', load_pc' = "admitted" => Validated'
    PROVE  FundingInv'
  <1>1. Settlements' = Settlements /\ Partitions' = Partitions
    BY DEF Settlements, Partitions
  <1>2. FundingType'
    BY <1>1 DEF FundingInv, FundingType, fetchVars
  <1> QED BY <1>2, BackfillUndisturbed DEF FundingInv

LEMMA RaiseKeepsFunding ==
    ASSUME FundingInv, UNCHANGED <<truth, window, fetchVars>>, Raise("raised")
    PROVE  FundingInv'
  <1>1. load_pc' = "raised" /\ UNCHANGED <<load_day, before, series, evidence>>
    BY DEF Raise
  <1>2. LoadInv'
    BY <1>1 DEF LoadInv
  <1>3. /\ load_day' \in window[1] .. window[2] /\ before' \in Partitions
        /\ series' \in Seq(Settlements) /\ evidence' \in Seq(Partitions)
    BY <1>1 DEF FundingInv, FundingType
  <1> QED BY <1>1, <1>2, <1>3, LoadStep

LEMMA FingerprintDayKeepsFunding ==
    ASSUME FundingInv, FingerprintDay
    PROVE  FundingInv'
  <1>1. load_pc = "next_day" /\ load_day < window[2] /\ UNCHANGED <<truth, window, fetchVars>>
    BY DEF FingerprintDay
  <1>2. CASE stored[load_day] = NoPartition
    BY <1>1, <1>2, RaiseKeepsFunding DEF FingerprintDay
  <1>3. CASE stored[load_day] # NoPartition
    <2>1. /\ before' = stored[load_day] /\ load_pc' = "read"
          /\ UNCHANGED <<load_day, series, evidence>>
      BY <1>3 DEF FingerprintDay
    <2>2. load_day \in Days
      <3>1. load_day \in window[1] .. window[2] - 1
        BY <1>1, WindowType DEF FundingInv, FundingType
      <3> QED BY <3>1, WindowType DEF FundingInv, FundingType
    <2>3. before' \in Partitions /\ before'.version > 0 /\ before' # NoPartition
      BY <1>3, <2>1, <2>2 DEF FundingInv, FundingType, BackfillInv
    <2>4. stored' = stored /\ window' = window
      BY <1>1 DEF fetchVars
    <2>5. RowsOf(evidence)' = RowsOf(evidence)
      BY <2>1 DEF RowsOf
    <2>6. LoadInv'
      BY <1>1, <2>1, <2>3, <2>4, <2>5 DEF FundingInv, LoadInv
    <2>7. load_day' \in window[1] .. window[2] /\ series' \in Seq(Settlements) /\ evidence' \in Seq(Partitions)
      BY <2>1 DEF FundingInv, FundingType
    <2> QED BY <1>1, <2>1, <2>3, <2>6, <2>7, LoadStep
  <1> QED BY <1>2, <1>3

LEMMA RowsOfType ==
    ASSUME NEW e \in Seq(Partitions), NEW p \in Partitions
    PROVE  /\ RowsOf(e) \in Seq(Seq(Settlements)) /\ p.rows \in Seq(Settlements)
           /\ RowsOf(Append(e, p)) = Append(RowsOf(e), p.rows)
  <1>1. PICK n \in Nat : n = Len(e)
    OBVIOUS
  <1>2. p.rows \in Seq(Settlements) /\ \A i \in 1 .. n : e[i].rows \in Seq(Settlements)
    <2>1. \A q \in Partitions : q.rows \in Seq(Settlements)
      BY DEF Partitions
    <2>2. \A i \in 1 .. n : e[i] \in Partitions
      BY <1>1
    <2> QED BY <2>1, <2>2
  <1>3. RowsOf(e) \in Seq(Seq(Settlements)) /\ Len(RowsOf(e)) = n
    BY <1>1, <1>2 DEF RowsOf
  <1>4. Append(e, p) \in Seq(Partitions) /\ Len(Append(e, p)) = n + 1
    BY <1>1
  <1>5. \A i \in 1 .. n + 1 : RowsOf(Append(e, p))[i] = Append(RowsOf(e), p.rows)[i]
    <2>1. \A i \in 1 .. n + 1 : RowsOf(Append(e, p))[i] = Append(e, p)[i].rows
      BY <1>4 DEF RowsOf
    <2>2. \A i \in 1 .. n : Append(e, p)[i] = e[i] /\ Append(RowsOf(e), p.rows)[i] = RowsOf(e)[i]
                              /\ RowsOf(e)[i] = e[i].rows
      BY <1>1, <1>3 DEF RowsOf
    <2>3. Append(e, p)[n + 1] = p /\ Append(RowsOf(e), p.rows)[n + 1] = p.rows
      BY <1>1, <1>3
    <2>4. ASSUME NEW i \in 1 .. n + 1
          PROVE  RowsOf(Append(e, p))[i] = Append(RowsOf(e), p.rows)[i]
      <3>1. CASE i \in 1 .. n
        BY <2>1, <2>2, <3>1
      <3>2. CASE i = n + 1
        BY <2>1, <2>3, <3>2
      <3>3. i \in 1 .. n \/ i = n + 1
        OBVIOUS
      <3> QED BY <3>1, <3>2, <3>3, Zenon
    <2> QED BY <2>4
  <1>6. RowsOf(Append(e, p)) = [i \in 1 .. n + 1 |-> RowsOf(Append(e, p))[i]]
    BY <1>4 DEF RowsOf
  <1>7. Append(RowsOf(e), p.rows) = [i \in 1 .. n + 1 |-> Append(RowsOf(e), p.rows)[i]]
    BY <1>3
  <1> QED BY <1>2, <1>3, <1>5, <1>6, <1>7

LEMMA ReadDayKeepsFunding ==
    ASSUME FundingInv, ReadDay
    PROVE  FundingInv'
  <1>1. load_pc = "read" /\ UNCHANGED <<truth, window, fetchVars>>
    BY DEF ReadDay
  <1>2. CASE stored[load_day] = NoPartition
    BY <1>1, <1>2, RaiseKeepsFunding DEF ReadDay
  <1>3. CASE stored[load_day] # NoPartition
    <2>1. /\ series' = series \o stored[load_day].rows /\ evidence' = Append(evidence, before)
          /\ load_pc' = "confirm" /\ load_day' = load_day /\ before' = before
      BY <1>3 DEF ReadDay
    <2>2. load_day \in Days /\ load_day \in window[1] .. window[2] /\ load_day < window[2]
      <3>1. load_day \in window[1] .. window[2] - 1 /\ load_day < window[2]
        BY <1>1, WindowType DEF FundingInv, FundingType, LoadInv
      <3> QED BY <3>1, WindowType DEF FundingInv, FundingType
    <2>3. /\ before \in Partitions /\ stored[load_day] \in Partitions
          /\ series \in Seq(Settlements) /\ evidence \in Seq(Partitions)
      BY <2>2 DEF FundingInv, FundingType
    <2>4. series' \in Seq(Settlements) /\ evidence' \in Seq(Partitions)
      <3>1. stored[load_day].rows \in Seq(Settlements)
        BY <2>3 DEF Partitions
      <3> QED BY <2>1, <2>3, <3>1
    <2>5. /\ Len(evidence) = load_day - window[1] /\ series = FlattenSeq(RowsOf(evidence))
          /\ before # NoPartition /\ before.version > 0
          /\ stored[load_day] = before \/ Replaced
      BY <1>1 DEF FundingInv, LoadInv
    <2>6. Len(evidence') = load_day - window[1] + 1
      BY <2>1, <2>3, <2>5
    <2>7. stored' = stored /\ window' = window /\ backfills' = backfills
      BY <1>1 DEF fetchVars
    <2>8. Replaced => Replaced'
      BY <2>1, <2>7 DEF Replaced
    <2>9. ASSUME stored[load_day] = before
          PROVE  series' = FlattenSeq(RowsOf(evidence')) /\ stored'[load_day'] = before'
      <3>1. FlattenSeq(Append(RowsOf(evidence), before.rows))
               = FlattenSeq(RowsOf(evidence)) \o before.rows
        BY <2>3, RowsOfType, FlattenOneMore
      <3>2. RowsOf(evidence') = Append(RowsOf(evidence), before.rows)
        BY <2>1, <2>3, RowsOfType
      <3> QED BY <2>1, <2>5, <2>7, <2>9, <3>1, <3>2
    <2>10. LoadInv'
      BY <2>1, <2>2, <2>5, <2>6, <2>7, <2>8, <2>9 DEF LoadInv, RowsOf
    <2> QED BY <1>1, <2>1, <2>2, <2>3, <2>4, <2>10, LoadStep
  <1> QED BY <1>2, <1>3

LEMMA ConfirmDayKeepsFunding ==
    ASSUME FundingInv, ConfirmDay
    PROVE  FundingInv'
  <1>1. load_pc = "confirm" /\ UNCHANGED <<truth, window, fetchVars>>
    BY DEF ConfirmDay
  <1>2. CASE stored[load_day] # before
    BY <1>1, <1>2, RaiseKeepsFunding DEF ConfirmDay
  <1>3. CASE stored[load_day] = before
    <2>1. /\ load_day' = load_day + 1 /\ load_pc' = "next_day"
          /\ UNCHANGED <<before, series, evidence>>
      BY <1>3 DEF ConfirmDay
    <2>2. /\ Len(evidence) = load_day - window[1] + 1 /\ load_day < window[2]
          /\ before # NoPartition
          /\ (series = FlattenSeq(RowsOf(evidence)) /\ stored[load_day] = before) \/ Replaced
      BY <1>1 DEF FundingInv, LoadInv
    <2>3. ~ Replaced
      <3>1. before.version \in Nat
        BY DEF FundingInv, FundingType, Partitions
      <3> QED BY <1>3, <2>2, <3>1 DEF Replaced
    <2>4. load_day' \in window[1] .. window[2] /\ Len(evidence) = load_day' - window[1]
      BY <2>1, <2>2, WindowType DEF FundingInv, FundingType
    <2>5. RowsOf(evidence)' = RowsOf(evidence)
      BY <2>1 DEF RowsOf
    <2>6. LoadInv'
      BY <1>1, <2>1, <2>2, <2>3, <2>4, <2>5 DEF LoadInv
    <2>7. before' \in Partitions /\ series' \in Seq(Settlements) /\ evidence' \in Seq(Partitions)
      BY <2>1 DEF FundingInv, FundingType
    <2> QED BY <1>1, <2>1, <2>4, <2>6, <2>7, LoadStep
  <1> QED BY <1>2, <1>3

LEMMA AdmitKeepsFunding ==
    ASSUME FundingInv, Admit
    PROVE  FundingInv'
  <1>1. /\ load_pc = "next_day" /\ load_day = window[2]
        /\ load_pc' = IF Validated /\ StillEvidence THEN "admitted" ELSE "raised"
        /\ UNCHANGED <<truth, window, fetchVars, load_day, before, series, evidence>>
    BY DEF Admit
  <1>2. RowsOf(evidence)' = RowsOf(evidence)
    BY <1>1 DEF RowsOf
  <1>3. LoadInv'
    BY <1>1, <1>2 DEF FundingInv, LoadInv
  <1>4. load_pc' = "admitted" => Validated'
    BY <1>1 DEF Validated, Sane, WindowStart, WindowStop
  <1>5. load_pc' \in {"admitted", "raised"}
    BY <1>1
  <1>6. /\ load_day' \in window[1] .. window[2] /\ before' \in Partitions
        /\ series' \in Seq(Settlements) /\ evidence' \in Seq(Partitions)
    BY <1>1 DEF FundingInv, FundingType
  <1> QED BY <1>1, <1>3, <1>4, <1>5, <1>6, LoadStep

LEMMA FundingUndisturbed ==
    ASSUME FundingInv, UNCHANGED fundingVars
    PROVE  FundingInv'
  <1>1. UNCHANGED <<truth, window, fetchVars>> /\ UNCHANGED loadVars
    BY DEF fundingVars
  <1>2. UNCHANGED <<load_pc, load_day, before, series, evidence>>
    BY <1>1 DEF loadVars
  <1>3. stored' = stored /\ backfills' = backfills
    BY <1>1 DEF fetchVars
  <1>4. RowsOf(evidence)' = RowsOf(evidence) /\ Replaced' = Replaced
    BY <1>1, <1>2, <1>3 DEF RowsOf, Replaced
  <1>5. LoadInv'
    BY <1>1, <1>2, <1>3, <1>4 DEF FundingInv, LoadInv
  <1>6. load_pc' = "admitted" => Validated'
    BY <1>1, <1>2 DEF FundingInv, Validated, Sane, WindowStart, WindowStop
  <1>7. /\ load_day' \in window[1] .. window[2] /\ before' \in Partitions
        /\ series' \in Seq(Settlements) /\ evidence' \in Seq(Partitions)
        /\ load_pc' \in {"next_day", "read", "confirm", "admitted", "raised"}
    BY <1>2 DEF FundingInv, FundingType
  <1> QED BY <1>1, <1>5, <1>6, <1>7, LoadStep

LEMMA FundingStep ==
    ASSUME FundingInv, [DecisionNext]_<<rollingVars, sizingVars>>
    PROVE  FundingInv'
  <1>1. CASE UNCHANGED fundingVars
    BY <1>1, FundingUndisturbed
  <1>2. CASE FundingNext
    BY <1>2, StartBackfillKeepsFunding, FetchMonthKeepsFunding, NoArchiveKeepsFunding,
       ClearDayKeepsFunding, StoreDayKeepsFunding, BackfillKilledKeepsFunding,
       FingerprintDayKeepsFunding, ReadDayKeepsFunding, ConfirmDayKeepsFunding, AdmitKeepsFunding
       DEF FundingNext
  <1>3. [DecisionNext]_<<rollingVars, sizingVars>> => FundingNext \/ UNCHANGED fundingVars
    BY DEF DecisionNext, rollingVars, RollingNext, ObserveSettlement
  <1> QED BY <1>1, <1>2, <1>3

THEOREM FundingInvariant == DecisionSpec => []FundingInv
  <1>1. DecisionInit => FundingInv
    BY FundingInitially DEF DecisionInit
  <1>2. FundingInv /\ [DecisionNext]_<<rollingVars, sizingVars>> => FundingInv'
    BY FundingStep
  <1> QED BY <1>1, <1>2, PTL DEF DecisionSpec

(* The series of a study is what the partitions of its days held together  *)
(* when it was admitted, however often and in whatever order backfills     *)
(* cleared and replaced them while they were read one by one               *)
(* (SeriesIsOneStoredState).                                               *)
THEOREM SeriesIsAlwaysOneStoredState == DecisionSpec => SeriesIsOneStoredState
  <1>1. ASSUME FundingInv, [DecisionNext]_<<rollingVars, sizingVars>>
        PROVE  [load_pc' = "admitted" =>
                  series = FlattenSeq([i \in 1 .. window[2] - window[1] |->
                                          stored[window[1] + i - 1].rows])]_fundingVars
    <2> SUFFICES ASSUME load_pc' = "admitted", ~ UNCHANGED fundingVars
                 PROVE  series = FlattenSeq([i \in 1 .. window[2] - window[1] |->
                                                stored[window[1] + i - 1].rows])
      OBVIOUS
    <2>1. FundingNext
      BY <1>1 DEF DecisionNext, rollingVars, RollingNext, ObserveSettlement
    <2>2. Admit
      <3>1. \/ LoadPending /\ UNCHANGED loadVars
            \/ FingerprintDay \/ ReadDay \/ ConfirmDay \/ Admit
        BY <2>1 DEF FundingNext, StartBackfill, FetchMonth, NoArchive, ClearDay, StoreDay, BackfillKilled
      <3> QED BY <3>1 DEF LoadPending, loadVars, FingerprintDay, ReadDay, ConfirmDay, Raise
    <2>3. StillEvidence /\ load_pc = "next_day" /\ load_day = window[2]
      BY <2>2 DEF Admit
    <2>4. PICK n \in Nat : n = window[2] - window[1] /\ n = Len(evidence)
      BY <1>1, <2>3, WindowType DEF FundingInv, FundingType, LoadInv
    <2>5. \A i \in 1 .. n : stored[window[1] + i - 1] = evidence[i]
      BY <2>3, <2>4 DEF StillEvidence
    <2>6. [i \in 1 .. n |-> stored[window[1] + i - 1].rows] = RowsOf(evidence)
      BY <2>4, <2>5 DEF RowsOf
    <2> QED BY <1>1, <2>3, <2>4, <2>6 DEF FundingInv, LoadInv
  <1> QED BY <1>1, FundingInvariant, PTL DEF DecisionSpec, SeriesIsOneStoredState

------------------------------------------------------------------------------
\* The hour a row was settled for.
Mark(row) == row.time \div Hour

LEMMA RowFacts ==
    ASSUME truth \in Truths, NEW i \in 1 .. Len(truth)
    PROVE  /\ truth[i] \in Row /\ truth[i].time \in Nat /\ truth[i].hours \in Nat \ {0}
           /\ Mark(truth[i]) \in Nat
           /\ \E late \in 0 .. Tolerance : truth[i].time = Mark(truth[i]) * Hour + late
  <1>1. truth[i] \in Row /\ truth[i].time \in Nat /\ truth[i].hours \in Nat \ {0}
    <2>1. truth[i] \in Row
      BY TruthFacts
    <2>2. \A row \in Row : row.time \in Nat /\ row.hours \in Nat \ {0}
      BY DEF Row
    <2> QED BY <2>1, <2>2
  <1>2. PICK t \in Nat, h \in Nat \ {0} : t = truth[i].time /\ h = Hour
    BY <1>1, DayType
  <1>3. t \div h \in Nat /\ t % h \in Nat /\ t = (t \div h) * h + (t % h)
    <2>1. t \div h \in Nat /\ t % h \in Nat
      OBVIOUS
    <2>2. t = h * (t \div h) + (t % h)
      OBVIOUS
    <2>3. h * (t \div h) = (t \div h) * h
      BY <2>1
    <2> QED BY <2>1, <2>2, <2>3
  <1>4. t % h <= Tolerance
    BY <1>2, VenueAssumption
  <1>5. t % h \in 0 .. Tolerance
    BY <1>3, <1>4, FundingSeriesAssumption
  <1>6. Mark(truth[i]) = t \div h /\ Hour = h
    BY <1>2 DEF Mark
  <1>7. \E late \in 0 .. Tolerance : truth[i].time = Mark(truth[i]) * Hour + late
    BY <1>2, <1>3, <1>5, <1>6
  <1> QED BY <1>1, <1>3, <1>6, <1>7

LEMMA MarksInOrder ==
    ASSUME truth \in Truths, NEW i \in 1 .. Len(truth), NEW j \in i .. Len(truth)
    PROVE  Mark(truth[i]) <= Mark(truth[j])
  <1>1. PICK n \in Nat : n = Len(truth)
    BY TruthFacts
  <1>2. \A k \in 1 .. n : Mark(truth[k]) \in Nat /\ truth[k].hours \in Nat \ {0}
    BY <1>1, RowFacts
  <1> DEFINE S == {d \in 0 .. n - i : Mark(truth[i]) <= Mark(truth[i + d])}
  <1>3. 0 \in S
    BY <1>1, <1>2
  <1>4. ASSUME NEW d \in 0 .. (n - i) - 1, d \in S PROVE d + 1 \in S
    <2>1. i + d \in 1 .. n - 1 /\ (i + d) + 1 = i + (d + 1) /\ d + 1 \in 0 .. n - i
      BY <1>1
    <2>2. Mark(truth[(i + d) + 1]) = Mark(truth[i + d]) + truth[(i + d) + 1].hours
      BY <1>1, <2>1, VenueAssumption DEF Mark
    <2>3. Mark(truth[i]) <= Mark(truth[(i + d) + 1])
      BY <1>1, <1>2, <1>4, <2>1, <2>2
    <2> QED BY <2>1, <2>3
  <1>5. j - i \in S
    <2>1. j - i \in 0 .. n - i /\ n - i \in Nat
      BY <1>1
    <2> HIDE DEF S
    <2> QED BY <1>3, <1>4, <2>1, StepByStep
  <1>6. i + (j - i) = j
    BY <1>1
  <1> QED BY <1>5, <1>6

LEMMA MarksGrow ==
    ASSUME truth \in Truths, NEW i \in 1 .. Len(truth), NEW j \in i + 1 .. Len(truth)
    PROVE  Mark(truth[i]) + truth[j].hours <= Mark(truth[j])
  <1>1. PICK n \in Nat : n = Len(truth)
    BY TruthFacts
  <1>2. j - 1 \in i .. n /\ j - 1 \in 1 .. n - 1 /\ j \in 1 .. n /\ (j - 1) + 1 = j
    BY <1>1
  <1>3. Mark(truth[i]) <= Mark(truth[j - 1])
    BY <1>1, <1>2, MarksInOrder
  <1>4. Mark(truth[(j - 1) + 1]) = Mark(truth[j - 1]) + truth[(j - 1) + 1].hours
    BY <1>1, <1>2, VenueAssumption DEF Mark
  <1>5. Mark(truth[i]) \in Nat /\ Mark(truth[j - 1]) \in Nat /\ truth[j].hours \in Nat
    BY <1>1, <1>2, RowFacts
  <1> QED BY <1>2, <1>3, <1>4, <1>5

\* Two times on the hour, or a little later, are as many hours apart as it seems.
LEMMA HoursApart ==
    ASSUME NEW h \in Int, NEW x \in Int, -Tolerance <= x, x <= Tolerance,
           AbsoluteValue(h * Hour + x) <= Tolerance
    PROVE  h = 0
  <1>1. Tolerance \in Nat /\ Hour \in Nat \ {0} /\ 2 * Tolerance < Hour
    BY FundingSeriesAssumption
  <1>2. PICK y \in Int : y = h * Hour
    BY <1>1
  <1>3. -Tolerance <= y + x /\ y + x <= Tolerance
    BY <1>1, <1>2 DEF AbsoluteValue
  <1>4. ~ h >= 1
    <2> SUFFICES ASSUME 1 <= h PROVE FALSE
      OBVIOUS
    <2>1. 1 * Hour <= h * Hour
      BY <1>1, ProductOrder
    <2> QED BY <1>1, <1>2, <1>3, <2>1
  <1>5. ~ h <= -1
    <2> SUFFICES ASSUME h <= -1 PROVE FALSE
      OBVIOUS
    <2>1. h * Hour <= (-1) * Hour
      BY <1>1, ProductOrder
    <2> QED BY <1>1, <1>2, <1>3, <2>1
  <1> QED BY <1>4, <1>5

LEMMA TimesInOrder ==
    ASSUME truth \in Truths, NEW i \in 1 .. Len(truth), NEW j \in i + 1 .. Len(truth)
    PROVE  truth[i].time + Hour <= truth[j].time + Tolerance /\ truth[i].time < truth[j].time
  <1>1. j \in 1 .. Len(truth)
    BY TruthFacts
  <1>2. PICK m \in Nat, l \in 0 .. Tolerance :
           m = Mark(truth[i]) /\ truth[i].time = m * Hour + l
    BY RowFacts
  <1>3. PICK p \in Nat, q \in 0 .. Tolerance :
           p = Mark(truth[j]) /\ truth[j].time = p * Hour + q
    BY <1>1, RowFacts
  <1>4. m + 1 <= p
    <2>1. m + truth[j].hours <= p /\ truth[j].hours \in Nat \ {0}
      BY <1>1, <1>2, <1>3, MarksGrow, RowFacts
    <2> QED BY <2>1
  <1>5. Tolerance \in Nat /\ Hour \in Nat \ {0} /\ 2 * Tolerance < Hour
    BY FundingSeriesAssumption
  <1>6. (m + 1) * Hour <= p * Hour /\ (m + 1) * Hour = m * Hour + Hour
          /\ m * Hour \in Int /\ p * Hour \in Int
    BY <1>4, <1>5, ProductOrder
  <1>7. PICK y \in Int, z \in Int : y = m * Hour /\ z = p * Hour /\ y + Hour <= z
    BY <1>6
  <1>8. truth[i].time = y + l /\ truth[j].time = z + q
    BY <1>2, <1>3, <1>7
  <1> QED BY <1>5, <1>7, <1>8

\* A regular step of the venue's rows leaves none of them out.
LEMMA RegularStepIsNext ==
    ASSUME truth \in Truths, NEW i \in 1 .. Len(truth), NEW j \in i + 1 .. Len(truth),
           Regular(truth[j].time - truth[i].time, truth[j].hours)
    PROVE  j = i + 1
  <1>1. PICK n \in Nat : n = Len(truth)
    BY TruthFacts
  <1>2. j \in 1 .. n /\ j - 1 \in 1 .. n - 1 /\ (j - 1) + 1 = j /\ j - 1 \in 1 .. n
    BY <1>1
  <1>3. PICK m \in Nat, l \in 0 .. Tolerance :
           m = Mark(truth[i]) /\ truth[i].time = m * Hour + l
    BY RowFacts
  <1>4. PICK p \in Nat, q \in 0 .. Tolerance :
           p = Mark(truth[j]) /\ truth[j].time = p * Hour + q
    BY <1>1, <1>2, RowFacts
  <1>5. PICK h \in Nat : h = truth[j].hours
    BY <1>1, <1>2, RowFacts
  <1>6. Tolerance \in Nat /\ Hour \in Nat
    BY FundingSeriesAssumption
  <1>7. p - m - h = 0
    <2>1. (p * Hour + q) - (m * Hour + l) - h * Hour = (p - m - h) * Hour + (q - l)
      BY <1>6
    <2>2. AbsoluteValue((p - m - h) * Hour + (q - l)) <= Tolerance
      BY <1>3, <1>4, <1>5, <2>1 DEF Regular
    <2>3. -Tolerance <= q - l /\ q - l <= Tolerance /\ q - l \in Int /\ p - m - h \in Int
      BY <1>6
    <2> QED BY <2>2, <2>3, HoursApart
  <1>8. Mark(truth[(j - 1) + 1]) = Mark(truth[j - 1]) + truth[(j - 1) + 1].hours
    BY <1>1, <1>2, VenueAssumption DEF Mark
  <1>9. Mark(truth[j - 1]) = m /\ Mark(truth[j - 1]) \in Nat
    <2>1. PICK o \in Nat : o = Mark(truth[j - 1])
      BY <1>1, <1>2, RowFacts
    <2>2. p = o + h
      BY <1>2, <1>4, <1>5, <1>8, <2>1
    <2>3. p - m - h = 0 => o = m
      BY <2>2
    <2> QED BY <1>7, <2>1, <2>3
  <1>10. ASSUME i < j - 1 PROVE FALSE
    <2>1. j - 1 \in i + 1 .. n
      BY <1>1, <1>2, <1>10
    <2>2. m + truth[j - 1].hours <= m /\ truth[j - 1].hours \in Nat \ {0}
      BY <1>1, <1>2, <1>3, <1>9, <2>1, MarksGrow, RowFacts
    <2> QED BY <2>2
  <1> QED BY <1>1, <1>2, <1>10

LEMMA RowsAtInterval ==
    ASSUME NEW X, NEW rows \in Seq(X), NEW a \in 1 .. Len(rows), NEW c \in a .. Len(rows)
    PROVE  /\ RowsAt(rows, a .. c) \in Seq(X) /\ Len(RowsAt(rows, a .. c)) = c - a + 1
           /\ \A k \in 1 .. c - a + 1 : RowsAt(rows, a .. c)[k] = rows[a + k - 1]
  <1>1. PICK n \in Nat : n = Len(rows)
    OBVIOUS
  <1>2. a \in Nat /\ c \in Nat /\ 1 <= a /\ a <= c /\ c <= n
    BY <1>1
  <1>3. Cardinality(a .. c) = c - a + 1
    BY <1>2, FS_Interval
  <1>4. a .. c \in SUBSET (1 .. n)
    BY <1>2
  <1>5. /\ RowsAt(rows, a .. c) \in Seq(X) /\ Len(RowsAt(rows, a .. c)) = c - a + 1
        /\ \A k \in 1 .. c - a + 1 : RowsAt(rows, a .. c)[k] = rows[Nth(a .. c, k)]
    <2> DEFINE I == a .. c
    <2>1. Cardinality(I) = c - a + 1 /\ I \in SUBSET (1 .. Len(rows))
      BY <1>1, <1>3, <1>4
    <2> HIDE DEF I
    <2>2. /\ RowsAt(rows, I) \in Seq(X) /\ Len(RowsAt(rows, I)) = Cardinality(I)
          /\ \A k \in 1 .. Cardinality(I) : RowsAt(rows, I)[k] = rows[Nth(I, k)]
      BY <2>1, RowsAtFacts
    <2> QED BY <2>1, <2>2 DEF I
  <1>6. ASSUME NEW k \in 1 .. c - a + 1
        PROVE  Nth(a .. c, k) = a + k - 1
    <2>1. PICK i \in a .. c : i = a + k - 1
      BY <1>2
    <2>2. PositionsTo(a .. c, i) = a .. i
      BY <1>2, <2>1 DEF PositionsTo
    <2>3. Cardinality(a .. i) = k
      <3>1. i \in Int /\ ~ a > i /\ i - a + 1 = k
        BY <1>2, <2>1
      <3> QED BY <1>2, <3>1, FS_Interval
    <2>4. Nth(a .. c, Cardinality(PositionsTo(a .. c, i))) = i
      BY <1>1, <1>4, NthIs
    <2> QED BY <2>1, <2>2, <2>3, <2>4
  <1> QED BY <1>5, <1>6

\* A series that was validated is a run of the venue's settlements.
LEMMA SeriesIsARun ==
    ASSUME FundingType, Validated
    PROVE  \E a \in 1 .. Len(truth) :
              /\ a + Len(series) - 1 <= Len(truth)
              /\ \A k \in 1 .. Len(series) : series[k] = truth[a + k - 1]
  <1>1. truth \in Truths /\ series \in Seq(Settlements) /\ series # <<>>
    BY DEF FundingType, Validated
  <1>2. PICK n \in Nat, l \in Nat : n = Len(truth) /\ l = Len(series) /\ l >= 1
    BY <1>1, TruthFacts
  <1>3. ASSUME NEW k \in 1 .. l PROVE \E i \in 1 .. n : series[k] = truth[i]
    <2>1. series[k] \in Settlements
      BY <1>1, <1>2
    <2> QED BY <1>2, <2>1 DEF Settlements
  <1>4. PICK a \in 1 .. n : series[1] = truth[a]
    BY <1>2, <1>3
  <1> DEFINE S == {d \in 0 .. l - 1 : a + d <= n /\ series[d + 1] = truth[a + d]}
  <1>5. 0 \in S
    BY <1>2, <1>4
  <1>6. ASSUME NEW d \in 0 .. (l - 1) - 1, d \in S PROVE d + 1 \in S
    <2>1. PICK i \in 1 .. n : i = a + d /\ series[d + 1] = truth[i]
      BY <1>6
    <2>2. d + 1 \in 1 .. l - 1 /\ (d + 1) + 1 \in 1 .. l
      BY <1>2
    <2>3. PICK j \in 1 .. n : series[(d + 1) + 1] = truth[j]
      BY <1>3, <2>2
    <2>4. /\ truth[j].time > truth[i].time
          /\ Regular(truth[j].time - truth[i].time, truth[j].hours)
      BY <1>2, <2>1, <2>2, <2>3 DEF Validated
    <2>5. truth[j].time \in Nat /\ truth[i].time \in Nat
      BY <1>1, <1>2, RowFacts
    <2>6. i < j
      <3> SUFFICES ASSUME ~ i < j PROVE FALSE
        OBVIOUS
      <3>1. CASE i = j
        BY <2>4, <2>5, <3>1
      <3>2. CASE j < i
        <4>1. i \in j + 1 .. n
          BY <3>2
        <4>2. truth[j].time < truth[i].time
          BY <1>1, <1>2, <4>1, TimesInOrder
        <4> QED BY <2>4, <2>5, <4>2
      <3> QED BY <3>1, <3>2
    <2>7. j = i + 1
      <3>1. j \in i + 1 .. n
        BY <2>6
      <3> QED BY <1>1, <1>2, <2>4, <3>1, RegularStepIsNext
    <2>8. a + (d + 1) <= n /\ truth[a + (d + 1)] = truth[j] /\ d + 1 \in 0 .. l - 1
      BY <1>2, <2>1, <2>7
    <2> QED BY <2>3, <2>8
  <1>7. \A d \in 0 .. l - 1 : d \in S
    <2>1. l - 1 \in Nat
      BY <1>2
    <2> HIDE DEF S
    <2> QED BY <1>5, <1>6, <2>1, StepByStep
  <1>8. ASSUME NEW k \in 1 .. l PROVE series[k] = truth[a + k - 1] /\ a + k - 1 <= n
    <2>1. k - 1 \in 0 .. l - 1 /\ (k - 1) + 1 = k /\ a + (k - 1) = a + k - 1
      BY <1>2
    <2>2. k - 1 \in S
      BY <1>7, <2>1
    <2> QED BY <2>1, <2>2
  <1>9. a + l - 1 <= n
    BY <1>2, <1>8
  <1> HIDE DEF S
  <1> QED BY <1>2, <1>8, <1>9

\* So are the settlements of the window, and both begin with the same one.
LEMMA WindowIsARun ==
    ASSUME FundingType, Validated
    PROVE  \E a \in 1 .. Len(truth), c \in 1 .. Len(truth) :
              /\ a <= c /\ InWindow \in Seq(Settlements) /\ Len(InWindow) = c - a + 1
              /\ \A k \in 1 .. c - a + 1 : InWindow[k] = truth[a + k - 1]
              /\ \A i \in a .. c : truth[i].time < WindowStop
              /\ Len(series) <= c - a + 1
              /\ \A k \in 1 .. Len(series) : series[k] = truth[a + k - 1]
  <1>1. truth \in Truths /\ series \in Seq(Settlements) /\ series # <<>>
    BY DEF FundingType, Validated
  <1>2. PICK n \in Nat, l \in Nat : n = Len(truth) /\ l = Len(series) /\ l >= 1
    BY <1>1, TruthFacts
  <1>3. PICK a \in 1 .. n : a + l - 1 <= n /\ \A k \in 1 .. l : series[k] = truth[a + k - 1]
    BY <1>2, SeriesIsARun
  <1> DEFINE W == {i \in 1 .. n : truth[i].time \in WindowStart .. WindowStop - 1}
  <1>4. PICK start \in Int, stop \in Int : start = WindowStart /\ stop = WindowStop
    <2>1. window[1] \in Nat /\ window[2] \in Nat
      BY WindowType DEF FundingType
    <2> QED BY <2>1, DayType DEF WindowStart, WindowStop
  <1>5. \A i \in 1 .. n : truth[i].time \in Nat
    BY <1>1, <1>2, RowFacts
  <1>6. \A i \in 1 .. n, j \in 1 .. n : i < j =>
           truth[i].time < truth[j].time /\ truth[i].time + Hour <= truth[j].time + Tolerance
    <2> SUFFICES ASSUME NEW i \in 1 .. n, NEW j \in 1 .. n, i < j
                 PROVE  truth[i].time < truth[j].time /\ truth[i].time + Hour <= truth[j].time + Tolerance
      OBVIOUS
    <2>1. j \in i + 1 .. n
      OBVIOUS
    <2> QED BY <1>1, <1>2, <2>1, TimesInOrder
  <1>7. \A k \in 1 .. l : a + k - 1 \in W
    <2>1. ASSUME NEW k \in 1 .. l PROVE a + k - 1 \in 1 .. n
      BY <1>3
    <2>2. ASSUME NEW k \in 1 .. l PROVE truth[a + k - 1].time \in WindowStart .. WindowStop - 1
      BY <1>2, <1>3 DEF Validated
    <2> QED BY <2>1, <2>2
  <1>8. ASSUME NEW i \in W PROVE a <= i
    <2> SUFFICES ASSUME i < a PROVE FALSE
      OBVIOUS
    <2>1. truth[i].time + Hour <= truth[a].time + Tolerance /\ start <= truth[i].time
      BY <1>4, <1>6
    <2>2. truth[a].time - start <= Tolerance
      <3>1. series[1] = truth[a]
        BY <1>2, <1>3
      <3> QED BY <1>4, <3>1 DEF Validated
    <2>3. Tolerance \in Nat /\ Hour \in Nat /\ 2 * Tolerance < Hour
      BY FundingSeriesAssumption
    <2>4. PICK s \in Nat, t \in Nat : s = truth[a].time /\ t = truth[i].time
      BY <1>5
    <2> QED BY <2>1, <2>2, <2>3, <2>4
  <1>9. PICK c \in W : \A i \in W : i <= c
    <2>1. W \in SUBSET (0 .. n) /\ W # {}
      <3>1. 1 \in 1 .. l
        BY <1>2
      <3>2. \A i \in W : i \in 0 .. n
        OBVIOUS
      <3> HIDE DEF W
      <3> QED BY <1>7, <3>1, <3>2
    <2> HIDE DEF W
    <2> QED BY <2>1, MaxIsGreatest
  <1>10. W = a .. c
    <2>1. a \in W
      <3>1. a + 1 - 1 \in W
        BY <1>2, <1>7
      <3> QED BY <3>1
    <2>2. ASSUME NEW i \in a .. c PROVE i \in W
      <3>1. i \in 1 .. n
        BY <1>9
      <3>2. truth[a].time <= truth[i].time /\ truth[i].time <= truth[c].time
        <4>1. truth[a].time \in Nat /\ truth[i].time \in Nat /\ truth[c].time \in Nat
          BY <1>5, <1>9, <3>1
        <4>2. a # i => truth[a].time < truth[i].time
          BY <1>6, <3>1
        <4>3. i # c => truth[i].time < truth[c].time
          BY <1>6, <1>9, <3>1
        <4> QED BY <4>1, <4>2, <4>3
      <3>3. start <= truth[a].time /\ truth[c].time <= stop - 1
        BY <1>4, <1>9, <2>1
      <3>4. PICK s \in Nat, t \in Nat, u \in Nat :
               s = truth[a].time /\ t = truth[i].time /\ u = truth[c].time
        BY <1>5, <1>9, <3>1
      <3>5. truth[i].time \in start .. stop - 1
        BY <3>2, <3>3, <3>4
      <3> QED BY <1>4, <3>1, <3>5
    <2>3. ASSUME NEW i \in W PROVE i \in a .. c
      BY <1>8, <1>9
    <2> QED BY <2>2, <2>3
  <1>11. InWindow = RowsAt(truth, a .. c)
    BY <1>2, <1>10 DEF InWindow
  <1>12. c \in 1 .. n /\ a <= c /\ c \in a .. n
    BY <1>8, <1>9
  <1>13. /\ InWindow \in Seq(Settlements) /\ Len(InWindow) = c - a + 1
         /\ \A k \in 1 .. c - a + 1 : InWindow[k] = truth[a + k - 1]
    <2>1. truth \in Seq(Settlements)
      BY <1>1, TruthFacts
    <2>2. a \in 1 .. Len(truth) /\ c \in a .. Len(truth)
      BY <1>2, <1>12
    <2> QED BY <1>11, <2>1, <2>2, RowsAtInterval
  <1>14. l <= c - a + 1
    <2>1. a + l - 1 \in a .. c
      <3>1. l \in 1 .. l
        BY <1>2
      <3> HIDE DEF W
      <3> QED BY <1>7, <1>10, <3>1
    <2> QED BY <1>12, <2>1
  <1>15. \A i \in a .. c : truth[i].time < WindowStop
    <2>1. \A i \in a .. c : i \in 1 .. n /\ truth[i].time \in start .. stop - 1
      BY <1>4, <1>10
    <2> QED BY <1>4, <1>5, <2>1
  <1> HIDE DEF W
  <1> QED BY <1>2, <1>3, <1>12, <1>13, <1>14, <1>15

LEMMA ValidatedIsWhole ==
    ASSUME FundingType, Validated
    PROVE  /\ IsPrefix(series, InWindow)
           /\ \A i \in Len(series) + 1 .. Len(InWindow) : InWindow[i].hours < Last(series).hours
  <1>1. truth \in Truths /\ series \in Seq(Settlements) /\ series # <<>>
    BY DEF FundingType, Validated
  <1>2. PICK n \in Nat, l \in Nat : n = Len(truth) /\ l = Len(series) /\ l >= 1
    BY <1>1, TruthFacts
  <1>3. PICK a \in 1 .. n, c \in 1 .. n :
           /\ a <= c /\ InWindow \in Seq(Settlements) /\ Len(InWindow) = c - a + 1
           /\ \A k \in 1 .. c - a + 1 : InWindow[k] = truth[a + k - 1]
           /\ \A i \in a .. c : truth[i].time < WindowStop
           /\ l <= c - a + 1
           /\ \A k \in 1 .. l : series[k] = truth[a + k - 1]
    BY <1>2, WindowIsARun
  <1>4. IsPrefix(series, InWindow)
    <2>1. PICK m \in Nat : m = Len(InWindow) /\ m = c - a + 1 /\ l <= m
      BY <1>3
    <2>2. \A k \in 1 .. l : series[k] = InWindow[k]
      BY <1>3, <2>1
    <2>3. SubSeq(series, 1, l) = [k \in 1 .. l |-> series[k]]
      BY <1>1, <1>2
    <2>4. SubSeq(InWindow, 1, l) = [k \in 1 .. l |-> InWindow[k]]
      BY <1>3, <2>1
    <2>5. SubSeq(series, 1, l) = SubSeq(InWindow, 1, l)
      BY <2>2, <2>3, <2>4
    <2> QED BY <1>2, <2>1, <2>5 DEF IsPrefix
  <1>5. ASSUME NEW i \in l + 1 .. c - a + 1
        PROVE  InWindow[i].hours < series[l].hours
    <2>1. PICK b \in 1 .. n, j \in 1 .. n :
             b = a + l - 1 /\ j = a + i - 1 /\ b < j /\ j \in a .. c
      <3>1. a \in 1 .. n /\ c \in 1 .. n /\ l <= c - a + 1
        BY <1>3
      <3>2. a + l - 1 \in 1 .. n /\ a + i - 1 \in 1 .. n /\ a + l - 1 < a + i - 1 /\ a + i - 1 \in a .. c
        BY <1>2, <3>1
      <3> QED BY <3>2
    <2>2. series[l] = truth[b] /\ InWindow[i] = truth[j] /\ truth[j].time < WindowStop
      BY <1>2, <1>3, <2>1
    <2>3. PICK m \in Nat, late \in 0 .. Tolerance :
             m = Mark(truth[b]) /\ truth[b].time = m * Hour + late
      BY <1>1, <1>2, RowFacts
    <2>4. PICK p \in Nat, q \in 0 .. Tolerance :
             p = Mark(truth[j]) /\ truth[j].time = p * Hour + q
      BY <1>1, <1>2, RowFacts
    <2>5. PICK h \in Nat, g \in Nat : h = truth[b].hours /\ g = truth[j].hours
      BY <1>1, <1>2, RowFacts
    <2>6. m + g <= p
      <3>1. j \in b + 1 .. n
        BY <2>1
      <3> QED BY <1>1, <1>2, <2>3, <2>4, <2>5, <3>1, MarksGrow
    <2>7. PICK x \in Nat : WindowStop = x * Hour
      <3>1. window[2] \in Nat /\ DayHours \in Nat /\ Hour \in Nat
        BY WindowType, FundingSeriesAssumption DEF FundingType
      <3>2. window[2] * (DayHours * Hour) = (window[2] * DayHours) * Hour /\ window[2] * DayHours \in Nat
        BY <3>1
      <3> QED BY <3>2 DEF WindowStop, Day
    <2>8. Tolerance \in Nat /\ Hour \in Nat \ {0}
      BY FundingSeriesAssumption
    <2>9. x - m - h = 0
      <3>1. Regular(WindowStop - series[l].time, series[l].hours)
        BY <1>2 DEF Validated, Last
      <3>2. AbsoluteValue(x * Hour - (m * Hour + late) - h * Hour) <= Tolerance
        BY <2>2, <2>3, <2>5, <2>7, <3>1 DEF Regular
      <3>3. x * Hour - (m * Hour + late) - h * Hour = (x - m - h) * Hour + (-late)
        BY <2>8
      <3>4. -late \in Int /\ -Tolerance <= -late /\ -late <= Tolerance /\ x - m - h \in Int
        BY <2>8
      <3> QED BY <3>2, <3>3, <3>4, HoursApart
    <2>10. p < x
      <3> SUFFICES ASSUME x <= p PROVE FALSE
        OBVIOUS
      <3>1. x * Hour <= p * Hour /\ x * Hour \in Int /\ p * Hour \in Int
        BY <2>8, ProductOrder
      <3>2. PICK y \in Int, z \in Int : y = x * Hour /\ z = p * Hour /\ y <= z
        BY <3>1
      <3>3. z + q < y
        BY <2>2, <2>4, <2>7, <3>2
      <3> QED BY <2>8, <3>2, <3>3
    <2>11. g < h
      BY <2>6, <2>9, <2>10
    <2> QED BY <2>2, <2>5, <2>11
  <1>6. Last(series) = series[l]
    BY <1>2 DEF Last
  <1> QED BY <1>2, <1>3, <1>4, <1>5, <1>6

(* A window that is admitted has every settlement of the venue in it,      *)
(* whatever the intervals, the lateness, the losses of the archives and    *)
(* the course of the backfills: rows may be missing only at the very end,  *)
(* at shorter intervals than a last one that reaches to the end            *)
(* (AdmittedSeriesIsWhole).                                                *)
THEOREM AdmittedSeriesIsAlwaysWhole == DecisionSpec => []AdmittedSeriesIsWhole
  <1>1. FundingInv => AdmittedSeriesIsWhole
    BY ValidatedIsWhole DEF FundingInv, AdmittedSeriesIsWhole
  <1> QED BY <1>1, FundingInvariant, PTL

------------------------------------------------------------------------------
\* The settlements of the venue that a series gives, in the order of their times.
LEMMA SeriesFacts ==
    ASSUME FundingType, Validated
    PROVE  /\ \A k \in 1 .. Len(series) :
                 /\ series[k] \in Settlements /\ series[k].time \in Nat
                 /\ series[k].hours \in Nat \ {0}
           /\ \A k \in 1 .. Len(series), m \in 1 .. Len(series) : k < m => series[k].time < series[m].time
  <1>1. truth \in Truths /\ series \in Seq(Settlements)
    BY DEF FundingType
  <1>2. PICK n \in Nat, l \in Nat : n = Len(truth) /\ l = Len(series)
    BY <1>1, TruthFacts
  <1>3. PICK a \in 1 .. n : a + l - 1 <= n /\ \A k \in 1 .. l : series[k] = truth[a + k - 1]
    BY <1>2, SeriesIsARun
  <1>4. ASSUME NEW k \in 1 .. l
        PROVE  series[k] \in Settlements /\ series[k].time \in Nat /\ series[k].hours \in Nat \ {0}
    <2>1. a + k - 1 \in 1 .. n
      BY <1>3
    <2>2. series[k] = truth[a + k - 1]
      BY <1>3
    <2>3. series[k] \in Settlements
      BY <1>1, <1>2
    <2> QED BY <1>1, <1>2, <2>1, <2>2, <2>3, RowFacts
  <1>5. ASSUME NEW k \in 1 .. l, NEW m \in 1 .. l, k < m
        PROVE  series[k].time < series[m].time
    <2>1. PICK i \in 1 .. n, j \in 1 .. n : i = a + k - 1 /\ j = a + m - 1 /\ j \in i + 1 .. n
      BY <1>3, <1>5
    <2>2. series[k] = truth[i] /\ series[m] = truth[j]
      BY <1>3, <2>1
    <2> QED BY <1>1, <1>2, <2>1, <2>2, TimesInOrder
  <1> QED BY <1>2, <1>4, <1>5

\* Rows that are those of the series from one position to another.
IsRun(rows, a, o) ==
    /\ rows \in Seq(Settlements) /\ Len(rows) = o - a + 1
    /\ \A k \in 1 .. o - a + 1 : rows[k] = series[a + k - 1]

LEMMA LastOfRun ==
    ASSUME NEW a \in Nat \ {0}, NEW o \in Nat, a <= o, NEW rows, IsRun(rows, a, o)
    PROVE  rows # <<>> /\ Last(rows) = series[o]
  <1>1. Len(rows) = o - a + 1 /\ rows[o - a + 1] = series[a + (o - a + 1) - 1]
    BY DEF IsRun
  <1>2. a + (o - a + 1) - 1 = o /\ o - a + 1 # 0
    OBVIOUS
  <1>3. rows # <<>>
    BY <1>1, <1>2
  <1>4. Last(rows) = rows[o - a + 1]
    BY <1>1 DEF Last
  <1> QED BY <1>1, <1>2, <1>3, <1>4

\* What is not older than a time is the end of a run.
LEMMA SinceOfRun ==
    ASSUME FundingType, Validated, NEW o \in 0 .. Len(series), NEW a \in 1 .. o + 1,
           NEW rows, IsRun(rows, a, o), NEW t \in Int
    PROVE  \E b \in a .. o + 1 :
              /\ IsRun(Since(rows, t), b, o)
              /\ \A k \in a .. o : k >= b <=> series[k].time >= t
  <1>1. PICK l \in Nat : l = Len(series) /\ o \in 0 .. l
    BY DEF FundingType
  <1>2. PICK n \in Nat : n = o - a + 1
    BY <1>1
  <1>3. rows \in Seq(Settlements) /\ Len(rows) = n /\ \A k \in 1 .. n : rows[k] = series[a + k - 1]
    BY <1>2 DEF IsRun
  <1>4. \A k \in a .. o : series[k].time \in Nat
    <2>1. \A k \in a .. o : k \in 1 .. l
      BY <1>1
    <2> QED BY <1>1, <2>1, SeriesFacts
  <1>5. \A k \in a .. o, m \in a .. o : k < m => series[k].time < series[m].time
    <2>1. \A k \in a .. o : k \in 1 .. l
      BY <1>1
    <2> QED BY <1>1, <2>1, SeriesFacts
  <1> DEFINE W == {i \in 1 .. n : rows[i].time >= t}
  <1>6. Since(rows, t) = RowsAt(rows, W)
    BY <1>3 DEF Since
  <1>7. CASE W = {}
    <2>1. RowsAt(rows, W) = <<>>
      <3>1. Cardinality(W) = 0
        BY <1>7, FS_EmptySet
      <3> HIDE DEF W
      <3> QED BY <3>1 DEF RowsAt
    <2>2. o + 1 \in a .. o + 1 /\ o - (o + 1) + 1 = 0
      BY <1>1
    <2>3. IsRun(Since(rows, t), o + 1, o)
      BY <1>6, <2>1, <2>2 DEF IsRun
    <2>4. ASSUME NEW k \in a .. o PROVE ~ k >= o + 1 /\ ~ series[k].time >= t
      <3>1. k - a + 1 \in 1 .. n /\ a + (k - a + 1) - 1 = k
        BY <1>2
      <3>2. rows[k - a + 1] = series[k]
        BY <1>3, <3>1
      <3> QED BY <1>7, <3>1, <3>2
    <2> HIDE DEF W
    <2> QED BY <2>2, <2>3, <2>4
  <1>8. CASE W # {}
    <2>1. PICK f \in W : \A i \in W : f <= i
      <3>1. W \in SUBSET Nat
        OBVIOUS
      <3> HIDE DEF W
      <3> QED BY <1>8, <3>1, LeastElement
    <2>2. ASSUME NEW i \in f .. n PROVE i \in W
      <3>1. i \in 1 .. n /\ f \in 1 .. n /\ rows[f].time >= t
        BY <2>1
      <3>2. rows[i] = series[a + i - 1] /\ rows[f] = series[a + f - 1]
        BY <1>3, <3>1
      <3>3. a + i - 1 \in a .. o /\ a + f - 1 \in a .. o
        BY <1>2, <3>1
      <3>4. PICK x \in Nat, y \in Nat : x = rows[i].time /\ y = rows[f].time
        BY <1>4, <3>2, <3>3
      <3>5. f # i => y < x
        BY <1>5, <3>1, <3>2, <3>3, <3>4
      <3>6. x >= t
        BY <3>1, <3>4, <3>5
      <3> QED BY <3>1, <3>4, <3>6
    <2>3. W = f .. n
      <3>1. \A i \in W : i \in f .. n
        BY <2>1
      <3> HIDE DEF W
      <3> QED BY <2>2, <3>1
    <2>4. f \in 1 .. n /\ n \in f .. n
      BY <2>1
    <2>5. /\ RowsAt(rows, f .. n) \in Seq(Settlements) /\ Len(RowsAt(rows, f .. n)) = n - f + 1
          /\ \A k \in 1 .. n - f + 1 : RowsAt(rows, f .. n)[k] = rows[f + k - 1]
      <3>1. rows \in Seq(Settlements) /\ f \in 1 .. Len(rows) /\ n \in f .. Len(rows)
        BY <1>3, <2>4
      <3> HIDE DEF W
      <3>2. PICK g \in 1 .. Len(rows) : g = f
        BY <3>1
      <3>3. n \in g .. Len(rows)
        BY <3>1, <3>2
      <3>4. /\ RowsAt(rows, g .. n) \in Seq(Settlements) /\ Len(RowsAt(rows, g .. n)) = n - g + 1
            /\ \A k \in 1 .. n - g + 1 : RowsAt(rows, g .. n)[k] = rows[g + k - 1]
        BY <3>1, <3>3, RowsAtInterval
      <3> QED BY <3>2, <3>4
    <2>6. PICK b \in a .. o + 1 : b = a + f - 1 /\ o - b + 1 = n - f + 1
      BY <1>2, <2>4
    <2>7. IsRun(Since(rows, t), b, o)
      <3>1. ASSUME NEW k \in 1 .. o - b + 1 PROVE Since(rows, t)[k] = series[b + k - 1]
        <4>1. f + k - 1 \in 1 .. n /\ k \in 1 .. n - f + 1 /\ a + (f + k - 1) - 1 = b + k - 1
          BY <2>4, <2>6
        <4>2. Since(rows, t)[k] = rows[f + k - 1]
          BY <1>6, <2>3, <2>5, <4>1
        <4>3. rows[f + k - 1] = series[a + (f + k - 1) - 1]
          BY <1>3, <4>1
        <4> QED BY <4>1, <4>2, <4>3
      <3> HIDE DEF W
      <3> QED BY <1>6, <2>3, <2>5, <2>6, <3>1 DEF IsRun
    <2>8. ASSUME NEW k \in a .. o PROVE k >= b <=> series[k].time >= t
      <3>1. k - a + 1 \in 1 .. n /\ a + (k - a + 1) - 1 = k
        BY <1>2
      <3>2. rows[k - a + 1] = series[k]
        BY <1>3, <3>1
      <3>3. k - a + 1 \in W <=> series[k].time >= t
        BY <3>1, <3>2
      <3>4. k - a + 1 \in f .. n <=> k >= b
        BY <2>4, <2>6, <3>1
      <3> QED BY <2>3, <3>3, <3>4
    <2> HIDE DEF W
    <2> QED BY <2>7, <2>8
  <1> QED BY <1>7, <1>8

------------------------------------------------------------------------------
\* The positions of the series that the model should still keep.
Kept(o) ==
    {k \in 1 .. o :
        /\ series[k].time >= series[o].time - RollingWindow
        /\ \A j \in k .. o : series[j].hours = series[o].hours}

(* The inductive invariant of the funding model: it keeps a run of the     *)
(* admitted series that ends with the last row it was given, back to the   *)
(* change of cadence or the beginning of its window.                       *)
RollingInv ==
    /\ observed \in 0 .. Len(series) /\ stream_pc = "streaming"
    /\ observed > 0 => load_pc = "admitted"
    /\ \E a \in 1 .. observed + 1 : IsRun(history, a, observed) /\ Kept(observed) = a .. observed
    /\ frozen # <<>> => \E k \in 1 .. observed : Last(frozen) = series[k]
    /\ ForecastIsOfTheRecentPast

LEMMA RollingInitially == DecisionInit => RollingInv
  <1> SUFFICES ASSUME DecisionInit PROVE RollingInv
    OBVIOUS
  <1>1. /\ history = <<>> /\ observed = 0 /\ frozen = <<>> /\ record = NoRecord
        /\ stream_pc = "streaming" /\ series = <<>>
    BY DEF DecisionInit, RollingInit, FundingInit
  <1>2. IsRun(<<>>, 1, 0)
    BY DEF IsRun
  <1>3. Kept(0) = 1 .. 0
    BY DEF Kept
  <1>4. ForecastIsOfTheRecentPast
    BY <1>1 DEF NoRecord, ForecastIsOfTheRecentPast
  <1> QED BY <1>1, <1>2, <1>3, <1>4 DEF RollingInv

\* Nothing changes what was admitted.
LEMMA AdmittedIsFinal ==
    ASSUME load_pc = "admitted", FundingNext
    PROVE  FALSE
  BY DEF FundingNext, StartBackfill, FetchMonth, NoArchive, ClearDay, StoreDay, BackfillKilled,
         FingerprintDay, ReadDay, ConfirmDay, Admit, LoadPending

LEMMA VenueUnchanged ==
    ASSUME [DecisionNext]_<<rollingVars, sizingVars>>
    PROVE  UNCHANGED <<truth, window>>
  <1>1. FundingNext => UNCHANGED <<truth, window>>
    BY DEF FundingNext, StartBackfill, FetchMonth, NoArchive, ClearDay, StoreDay, BackfillKilled,
           FingerprintDay, ReadDay, ConfirmDay, Admit
  <1> QED BY <1>1 DEF DecisionNext, RollingNext, ObserveSettlement, rollingVars, fundingVars

\* What a forecast should rest on depends on the venue alone.
LEMMA ForecastUndisturbed ==
    ASSUME ForecastIsOfTheRecentPast, UNCHANGED <<truth, window>>, record' = record
    PROVE  ForecastIsOfTheRecentPast'
  <1>1. InWindow' = InWindow
    BY DEF InWindow, WindowStart, WindowStop
  <1>2. RecentTruth(record.time)' = RecentTruth(record.time)
    BY <1>1 DEF RecentTruth, SinceCadenceChange
  <1> QED BY <1>2 DEF ForecastIsOfTheRecentPast

LEMMA RollingUndisturbed ==
    ASSUME RollingInv, FundingInv, [DecisionNext]_<<rollingVars, sizingVars>>, UNCHANGED modelVars
    PROVE  RollingInv'
  <1>1. /\ history' = history /\ observed' = observed /\ frozen' = frozen /\ record' = record
        /\ stream_pc' = stream_pc
    BY DEF modelVars
  <1>2. ForecastIsOfTheRecentPast'
    BY <1>1, VenueUnchanged, ForecastUndisturbed DEF RollingInv
  <1>3. CASE UNCHANGED fundingVars
    <2>1. series' = series /\ load_pc' = load_pc /\ truth' = truth
      BY <1>3 DEF fundingVars, loadVars
    <2>2. Settlements' = Settlements
      BY <2>1 DEF Settlements
    <2>3. Kept(observed)' = Kept(observed)
      BY <1>1, <2>1 DEF Kept
    <2>4. \A a : IsRun(history, a, observed)' <=> IsRun(history, a, observed)
      BY <1>1, <2>1, <2>2 DEF IsRun
    <2>5. \E a \in 1 .. observed + 1 : IsRun(history, a, observed)' /\ Kept(observed)' = a .. observed
      BY <2>3, <2>4 DEF RollingInv
    <2> QED BY <1>1, <1>2, <2>1, <2>5 DEF RollingInv
  <1>4. CASE FundingNext
    <2>1. observed = 0
      BY <1>4, AdmittedIsFinal DEF RollingInv
    <2>2. history = <<>>
      <3>1. PICK a \in 1 .. 1 : IsRun(history, a, 0)
        BY <2>1 DEF RollingInv
      <3>2. Len(history) = 0 /\ history \in Seq(Settlements)
        BY <3>1 DEF IsRun
      <3> QED BY <3>2
    <2>3. frozen = <<>>
      BY <2>1 DEF RollingInv
    <2>4. IsRun(<<>>, 1, 0)'
      BY DEF IsRun
    <2>5. Kept(0)' = 1 .. 0
      BY DEF Kept
    <2>6. series' \in Seq(Settlements')
      BY FundingStep DEF FundingInv, FundingType
    <2>7. Len(series') \in Nat
      BY <2>6
    <2> QED BY <1>1, <1>2, <2>1, <2>2, <2>3, <2>4, <2>5, <2>7 DEF RollingInv
  <1> QED BY <1>3, <1>4 DEF DecisionNext, rollingVars, RollingNext, ObserveSettlement

\* The model keeps of the series what it should, one row later.
LEMMA UpdatedRun ==
    ASSUME FundingType, Validated, NEW o \in 0 .. Len(series) - 1, NEW a \in 1 .. o + 1,
           IsRun(history, a, o), Kept(o) = a .. o
    PROVE  \E b \in 1 .. o + 2 :
              IsRun(Updated(history, series[o + 1]), b, o + 1) /\ Kept(o + 1) = b .. o + 1
  <1>1. PICK l \in Nat : l = Len(series) /\ o \in 0 .. l - 1 /\ o + 1 \in 1 .. l
    BY DEF FundingType
  <1> DEFINE row == series[o + 1]
             kept == IF history # <<>> /\ Last(history).hours # row.hours THEN <<>> ELSE history
  <1>2. /\ \A k \in 1 .. l : /\ series[k] \in Settlements /\ series[k].time \in Nat
                             /\ series[k].hours \in Nat \ {0}
        /\ \A k \in 1 .. l, m \in 1 .. l : k < m => series[k].time < series[m].time
    BY <1>1, SeriesFacts
  <1>3. PICK w \in Nat : w = RollingWindow
    BY RollingAssumption, DayType DEF RollingWindow
  <1>4. o # 0 => o \in a .. o
    <2> SUFFICES ASSUME o # 0 PROVE o \in Kept(o)
      OBVIOUS
    <2>1. series[o].time \in Nat /\ series[o].time >= series[o].time - w
      BY <1>1, <1>2
    <2> QED BY <1>1, <1>3, <2>1 DEF Kept
  <1>5. PICK c \in 1 .. o + 1 :
           /\ IsRun(kept, c, o)
           /\ \A k \in 1 .. o : k >= c <=> k >= a /\ series[o].hours = row.hours
    <2>1. CASE o = 0
      <3>1. history = <<>>
        <4>1. Len(history) = 0 /\ history \in Seq(Settlements)
          BY <2>1 DEF IsRun
        <4> QED BY <4>1
      <3>2. kept = history /\ 1 \in 1 .. o + 1 /\ a = 1
        BY <2>1, <3>1
      <3> HIDE DEF kept
      <3> QED BY <2>1, <3>2
    <2>2. CASE o # 0
      <3>1. history # <<>> /\ Last(history) = series[o]
        <4>1. a \in Nat \ {0} /\ o \in Nat /\ a <= o
          BY <1>1, <1>4, <2>2
        <4> QED BY <4>1, LastOfRun
      <3>2. CASE series[o].hours = row.hours
        <4>1. kept = history
          BY <3>1, <3>2
        <4> HIDE DEF kept, row
        <4> QED BY <3>2, <4>1
      <3>3. CASE series[o].hours # row.hours
        <4>1. kept = <<>>
          BY <3>1, <3>3
        <4>2. IsRun(<<>>, o + 1, o)
          <5>1. o - (o + 1) + 1 = 0
            BY <1>1
          <5> QED BY <5>1 DEF IsRun
        <4>3. o + 1 \in 1 .. o + 1 /\ \A k \in 1 .. o : ~ k >= o + 1
          BY <1>1
        <4> HIDE DEF kept, row
        <4> QED BY <3>3, <4>1, <4>2, <4>3
      <3> QED BY <3>2, <3>3
    <2> QED BY <2>1, <2>2
  <1>6. Updated(history, row) = Since(Append(kept, row), row.time - w)
    BY <1>3 DEF Updated
  <1>7. IsRun(Append(kept, row), c, o + 1)
    <2>1. row \in Settlements
      BY <1>1, <1>2
    <2>2. kept \in Seq(Settlements) /\ Len(kept) = o - c + 1 /\ \A k \in 1 .. o - c + 1 : kept[k] = series[c + k - 1]
      BY <1>5 DEF IsRun
    <2> HIDE DEF kept
    <2>3. PICK n \in Nat : n = o - c + 1 /\ (o + 1) - c + 1 = n + 1 /\ c + (n + 1) - 1 = o + 1
      BY <1>1
    <2>4. Append(kept, row) \in Seq(Settlements) /\ Len(Append(kept, row)) = n + 1
            /\ Append(kept, row)[n + 1] = row
            /\ \A k \in 1 .. n : Append(kept, row)[k] = kept[k]
      BY <2>1, <2>2, <2>3
    <2>5. ASSUME NEW k \in 1 .. n + 1 PROVE Append(kept, row)[k] = series[c + k - 1]
      <3>1. CASE k = n + 1
        BY <2>3, <2>4, <3>1
      <3>2. CASE k \in 1 .. n
        BY <2>2, <2>3, <2>4, <3>2
      <3>3. k = n + 1 \/ k \in 1 .. n
        OBVIOUS
      <3> QED BY <3>1, <3>2, <3>3, Zenon
    <2> QED BY <2>3, <2>4, <2>5 DEF IsRun
  <1> HIDE DEF kept
  <1>8. PICK t \in Int : t = row.time - w
    BY <1>1, <1>2
  <1>9. PICK b \in c .. (o + 1) + 1 :
           /\ IsRun(Since(Append(kept, row), t), b, o + 1)
           /\ \A k \in c .. o + 1 : k >= b <=> series[k].time >= t
    <2>1. o + 1 \in 0 .. Len(series) /\ c \in 1 .. (o + 1) + 1
      BY <1>1
    <2> HIDE DEF row
    <2> QED BY <1>7, <2>1, SinceOfRun
  <1>10. b \in 1 .. o + 2
    BY <1>1, <1>9
  <1>11. ASSUME NEW k \in b .. o + 1 PROVE k \in Kept(o + 1)
    <2>1. k \in 1 .. o + 1 /\ k \in c .. o + 1
      BY <1>1, <1>10, <1>9
    <2>2. series[k].time >= t
      BY <1>9, <1>11, <2>1
    <2>3. ASSUME NEW j \in k .. o + 1 PROVE series[j].hours = row.hours
      <3>1. CASE j = o + 1
        BY <3>1
      <3>2. CASE j # o + 1
        <4>1. j \in 1 .. o /\ k \in 1 .. o /\ k >= c /\ j \in k .. o
          BY <1>1, <2>1, <3>2
        <4>2. k >= a /\ series[o].hours = row.hours
          BY <1>5, <4>1
        <4>3. k \in Kept(o)
          BY <4>1, <4>2
        <4>4. series[j].hours = series[o].hours
          BY <4>1, <4>3 DEF Kept
        <4> QED BY <4>2, <4>4
      <3> QED BY <3>1, <3>2
    <2> QED BY <1>3, <1>8, <2>1, <2>2, <2>3 DEF Kept
  <1>12. ASSUME NEW k \in Kept(o + 1) PROVE k \in b .. o + 1
    <2>1. k \in 1 .. o + 1 /\ series[k].time >= t /\ \A j \in k .. o + 1 : series[j].hours = row.hours
      BY <1>3, <1>8 DEF Kept
    <2>2. k >= c
      <3>1. CASE k = o + 1
        BY <1>1, <3>1
      <3>2. CASE k # o + 1
        <4>1. k \in 1 .. o /\ o \in k .. o + 1 /\ \A j \in k .. o : j \in k .. o + 1
          BY <1>1, <2>1, <3>2
        <4>2. series[o].hours = row.hours /\ \A j \in k .. o : series[j].hours = row.hours
          BY <2>1, <4>1
        <4>3. series[k].time >= series[o].time - w
          <5>1. o \in 1 .. l /\ k \in 1 .. l /\ o < o + 1
            BY <1>1, <4>1
          <5>2. series[o].time < row.time
            BY <1>1, <1>2, <5>1
          <5>3. PICK x \in Nat : x = series[k].time
            BY <1>1, <1>2, <5>1
          <5>4. PICK y \in Nat : y = series[o].time
            BY <1>1, <1>2, <5>1
          <5>5. PICK z \in Nat : z = row.time
            BY <1>1, <1>2, <5>1
          <5>6. x >= t /\ y < z /\ t = z - w
            BY <1>8, <2>1, <5>2, <5>3, <5>4, <5>5
          <5>7. x >= y - w
            BY <5>6
          <5> QED BY <5>3, <5>4, <5>7
        <4>4. k \in Kept(o)
          BY <1>3, <4>1, <4>2, <4>3 DEF Kept
        <4>5. k >= a
          BY <4>1, <4>4
        <4> QED BY <1>5, <4>1, <4>2, <4>5
      <3> QED BY <3>1, <3>2
    <2>3. k \in c .. o + 1
      BY <1>1, <2>1, <2>2
    <2>4. k >= b
      BY <1>9, <2>1, <2>3
    <2> QED BY <1>1, <1>10, <2>1, <2>4
  <1>13. Kept(o + 1) = b .. o + 1
    BY <1>11, <1>12
  <1> HIDE DEF row
  <1> QED BY <1>6, <1>8, <1>9, <1>10, <1>13 DEF row

\* The rows of a run are as many as its positions.
LEMMA RunAsSet ==
    ASSUME FundingType, Validated, NEW o \in 1 .. Len(series), NEW b \in 1 .. o + 1,
           NEW rows, IsRun(rows, b, o)
    PROVE  /\ Range(rows) = {series[i] : i \in b .. o}
           /\ Len(rows) = Cardinality({series[i] : i \in b .. o})
  <1>1. PICK l \in Nat : l = Len(series) /\ o \in 1 .. l
    BY DEF FundingType
  <1>2. PICK n \in Nat : n = o - b + 1
    BY <1>1
  <1>3. rows \in Seq(Settlements) /\ Len(rows) = n /\ \A k \in 1 .. n : rows[k] = series[b + k - 1]
    BY <1>2 DEF IsRun
  <1>4. rows \in [1 .. n -> Settlements]
    BY <1>3
  <1> DEFINE T == {series[i] : i \in b .. o}
  <1>5. ASSUME NEW k \in 1 .. n PROVE b + k - 1 \in b .. o /\ rows[k] \in T
    <2>1. b + k - 1 \in b .. o
      BY <1>1, <1>2
    <2> QED BY <1>3, <2>1
  <1>6. ASSUME NEW i \in b .. o PROVE \E k \in 1 .. n : rows[k] = series[i]
    <2>1. PICK k \in 1 .. n : k = i - b + 1 /\ b + k - 1 = i
      BY <1>1, <1>2
    <2> QED BY <1>3, <2>1
  <1>7. Range(rows) = T
    <2>1. DOMAIN rows = 1 .. n
      BY <1>4
    <2>2. ASSUME NEW x \in T PROVE x \in Range(rows)
      <3>1. PICK i \in b .. o : x = series[i]
        OBVIOUS
      <3> QED BY <1>6, <2>1, <3>1 DEF Range
    <2>3. ASSUME NEW x \in Range(rows) PROVE x \in T
      <3>1. PICK k \in 1 .. n : x = rows[k]
        BY <2>1 DEF Range
      <3> QED BY <1>5, <3>1
    <2> HIDE DEF T
    <2> QED BY <2>2, <2>3
  <1>8. ASSUME NEW j \in 1 .. n, NEW k \in 1 .. n, j < k PROVE rows[j] # rows[k]
    <2>1. PICK x \in 1 .. l, y \in 1 .. l : x = b + j - 1 /\ y = b + k - 1 /\ x < y
      BY <1>1, <1>2, <1>8
    <2>2. series[x].time < series[y].time /\ series[x].time \in Nat
      BY <1>1, <2>1, SeriesFacts
    <2>3. rows[j] = series[x] /\ rows[k] = series[y]
      BY <1>3, <2>1
    <2>4. series[x].time # series[y].time
      BY <2>2
    <2> QED BY <2>3, <2>4
  <1>9. rows \in Injection(1 .. n, T)
    <2>1. rows \in [1 .. n -> T]
      BY <1>4, <1>5
    <2>2. \A j \in 1 .. n, k \in 1 .. n : rows[j] = rows[k] => j = k
      BY <1>8
    <2> HIDE DEF T
    <2> QED BY <2>1, <2>2 DEF Injection, IsInjective
  <1>10. rows \in Surjection(1 .. n, T)
    <2>1. rows \in [1 .. n -> T]
      BY <1>4, <1>5
    <2>2. \A x \in T : \E k \in 1 .. n : rows[k] = x
      BY <1>6
    <2> HIDE DEF T
    <2> QED BY <2>1, <2>2 DEF Surjection
  <1>11. IsFiniteSet(1 .. n) /\ Cardinality(1 .. n) = n
    <2>1. Cardinality(1 .. n) = IF 1 > n THEN 0 ELSE n - 1 + 1
      BY FS_Interval
    <2> QED BY <2>1, FS_Interval
  <1>12. Cardinality(T) = n
    <2> HIDE DEF T
    <2>1. ExistsBijection(1 .. n, T)
      BY <1>9, <1>10 DEF ExistsBijection, Bijection
    <2> QED BY <1>11, <2>1, FS_Bijection
  <1> QED BY <1>3, <1>7, <1>12

\* What a forecast should rest on, said of the series.
LEMMA RecentTruthOfSeries ==
    ASSUME FundingType, Validated, NEW o \in 1 .. Len(series) - 1, NEW a \in 1 .. o + 1,
           Kept(o) = a .. o, NEW b \in a .. o + 1,
           \A k \in a .. o : k >= b <=> series[k].time >= series[o + 1].time - RollingWindow
    PROVE  RecentTruth(series[o + 1].time) = {series[i] : i \in b .. o}
  <1>1. truth \in Truths
    BY DEF FundingType
  <1>2. PICK l \in Nat, n \in Nat :
           l = Len(series) /\ n = Len(truth) /\ o \in 1 .. l /\ o + 1 \in 1 .. l
    BY <1>1, TruthFacts DEF FundingType
  <1>3. PICK e \in 1 .. n, c \in 1 .. n :
           /\ e <= c /\ Len(InWindow) = c - e + 1
           /\ \A k \in 1 .. c - e + 1 : InWindow[k] = truth[e + k - 1]
           /\ l <= c - e + 1
           /\ \A k \in 1 .. l : series[k] = truth[e + k - 1]
    BY <1>2, WindowIsARun
  <1>4. PICK m \in Nat : m = c - e + 1 /\ m = Len(InWindow) /\ l <= m
    BY <1>3
  <1>5. \A k \in 1 .. l : k \in 1 .. m /\ InWindow[k] = series[k]
    BY <1>3, <1>4
  <1>6. ASSUME NEW j \in 1 .. m, NEW k \in 1 .. m, j < k
        PROVE  InWindow[j].time < InWindow[k].time
    <2>1. PICK x \in 1 .. n, y \in 1 .. n : x = e + j - 1 /\ y = e + k - 1 /\ y \in x + 1 .. n
      BY <1>3, <1>4, <1>6
    <2>2. InWindow[j] = truth[x] /\ InWindow[k] = truth[y]
      BY <1>3, <1>4, <2>1
    <2>3. truth[x].time < truth[y].time
      BY <1>1, <1>2, <2>1, TimesInOrder
    <2> QED BY <2>2, <2>3
  <1>7. ASSUME NEW k \in 1 .. m PROVE InWindow[k].time \in Nat
    <2>1. PICK x \in 1 .. n : x = e + k - 1
      BY <1>3, <1>4
    <2>2. InWindow[k] = truth[x]
      BY <1>3, <1>4, <2>1
    <2> QED BY <1>1, <1>2, <2>1, <2>2, RowFacts
  <1>8. PICK t \in Nat : t = series[o + 1].time /\ t = InWindow[o + 1].time
    BY <1>2, <1>5, <1>7
  <1>9. ASSUME NEW k \in 1 .. m PROVE InWindow[k].time < t <=> k <= o
    <2>1. o + 1 \in 1 .. m
      BY <1>2, <1>5
    <2>2. CASE k <= o
      <3>1. k < o + 1
        BY <2>2
      <3> QED BY <1>6, <1>8, <2>1, <2>2, <3>1
    <2>3. CASE k = o + 1
      <3>1. ~ InWindow[k].time < t
        BY <1>8, <2>3
      <3>2. ~ k <= o
        BY <2>3
      <3> QED BY <3>1, <3>2
    <2>4. CASE k > o + 1
      <3>1. t < InWindow[k].time /\ InWindow[k].time \in Nat
        BY <1>6, <1>7, <1>8, <2>1, <2>4
      <3>2. ~ InWindow[k].time < t
        BY <3>1
      <3>3. ~ k <= o
        BY <2>4
      <3> QED BY <3>2, <3>3
    <2> QED BY <2>2, <2>3, <2>4
  <1>10. PICK w \in Nat : w = RollingWindow
    BY RollingAssumption, DayType DEF RollingWindow
  <1> DEFINE R == {k \in SinceCadenceChange(t) : InWindow[k].time >= t - w}
  <1>11. ASSUME NEW k \in R PROVE k \in b .. o
    <2>1. k \in 1 .. m /\ InWindow[k].time < t /\ InWindow[k].time >= t - w
            /\ \A j \in k .. m : InWindow[j].time < t => InWindow[j].hours = InWindow[k].hours
      BY <1>4 DEF SinceCadenceChange
    <2>2. k \in 1 .. o
      BY <1>9, <2>1
    <2>3. ASSUME NEW j \in k .. o PROVE series[j].hours = series[k].hours
      <3>1. j \in 1 .. l /\ k \in 1 .. l /\ j \in 1 .. m /\ j \in k .. m /\ j <= o
        BY <1>2, <1>5, <2>2
      <3>2. InWindow[j].time < t
        BY <1>9, <3>1
      <3>3. InWindow[j].hours = InWindow[k].hours
        BY <2>1, <3>1, <3>2
      <3> QED BY <1>5, <3>1, <3>3
    <2>4. k \in 1 .. l /\ o \in k .. o
      BY <1>2, <2>2
    <2>5. \A j \in k .. o : series[j].hours = series[o].hours
      BY <2>3, <2>4
    <2>6. series[k].time >= t - w
      BY <1>5, <2>1, <2>4
    <2>7. series[k].time >= series[o].time - w
      <3>1. PICK x \in Nat : x = series[k].time
        BY <1>5, <1>7, <2>4
      <3>2. PICK y \in Nat : y = series[o].time
        BY <1>2, <1>5, <1>7
      <3>3. y < t
        BY <1>2, <1>5, <1>9, <3>2
      <3>4. x >= t - w
        BY <2>6, <3>1
      <3>5. x >= y - w
        BY <3>3, <3>4
      <3> QED BY <3>1, <3>2, <3>5
    <2>8. k \in a .. o
      BY <1>10, <2>2, <2>5, <2>7 DEF Kept
    <2>9. k >= b
      BY <1>8, <1>10, <2>6, <2>8
    <2> QED BY <2>8, <2>9
  <1>12. ASSUME NEW k \in b .. o PROVE k \in R /\ InWindow[k] = series[k]
    <2>1. k \in a .. o /\ k \in 1 .. o /\ k \in 1 .. l /\ k \in 1 .. m
      BY <1>2, <1>5
    <2>2. \A j \in k .. o : series[j].hours = series[o].hours
      BY <2>1 DEF Kept
    <2>3. series[k].time >= t - w
      BY <1>8, <1>10, <2>1
    <2>4. InWindow[k] = series[k]
      BY <1>5, <2>1
    <2>5. ASSUME NEW j \in k .. m, InWindow[j].time < t
          PROVE  InWindow[j].hours = InWindow[k].hours
      <3>1. j \in 1 .. m
        BY <2>1
      <3>2. j <= o
        BY <1>9, <2>5, <3>1
      <3>3. j \in k .. o /\ k \in k .. o /\ j \in 1 .. l
        BY <1>2, <2>1, <3>2
      <3>4. series[j].hours = series[k].hours
        BY <2>2, <3>3
      <3> QED BY <1>5, <2>4, <3>3, <3>4
    <2>6. InWindow[k].time < t
      BY <1>9, <2>1
    <2>7. k \in SinceCadenceChange(t)
      BY <1>4, <2>1, <2>5, <2>6 DEF SinceCadenceChange
    <2> QED BY <2>3, <2>4, <2>7
  <1>13. RecentTruth(t) = {InWindow[i] : i \in R}
    BY <1>10 DEF RecentTruth
  <1>14. R = b .. o
    <2> HIDE DEF R
    <2> QED BY <1>11, <1>12
  <1>15. RecentTruth(t) = {series[i] : i \in b .. o}
    <2>1. \A i \in b .. o : InWindow[i] = series[i]
      BY <1>12
    <2> HIDE DEF R
    <2> QED BY <1>13, <1>14, <2>1
  <1> QED BY <1>8, <1>15

\* A series that was validated is one the model accepts row by row.
LEMMA NextRowIsAccepted ==
    ASSUME RollingInv, FundingInv, Streaming
    PROVE  ~Refused(history, series[observed + 1])
  <1>1. FundingType /\ Validated
    BY DEF FundingInv, Streaming
  <1>2. PICK l \in Nat, o \in Nat :
           l = Len(series) /\ o = observed /\ o \in 0 .. l - 1 /\ o + 1 \in 1 .. l /\ l # 0
    BY <1>1 DEF FundingType, RollingInv, Streaming
  <1>3. PICK a \in 1 .. o + 1 : IsRun(history, a, o) /\ Kept(o) = a .. o
    BY <1>2 DEF RollingInv
  <1>4. series[o + 1].sane
    BY <1>1, <1>2 DEF Validated, Sane
  <1>5. ASSUME history # <<>>
        PROVE  /\ ~ series[o + 1].time <= Last(history).time
               /\ Regular(series[o + 1].time - Last(history).time, series[o + 1].hours)
    <2>1. a <= o
      <3>1. Len(history) = o - a + 1 /\ history \in Seq(Settlements)
        BY <1>3 DEF IsRun
      <3>2. Len(history) # 0
        BY <1>5, <3>1
      <3> QED BY <1>2, <3>1, <3>2
    <2>2. Last(history) = series[o]
      <3>1. a \in Nat \ {0} /\ o \in Nat
        BY <1>2
      <3> QED BY <1>3, <2>1, <3>1, LastOfRun
    <2>3. o \in 1 .. l - 1 /\ o \in 1 .. l
      BY <1>2, <2>1
    <2>4. series[o + 1].time > series[o].time /\ Regular(series[o + 1].time - series[o].time, series[o + 1].hours)
      BY <1>1, <1>2, <2>3 DEF Validated
    <2>5. series[o].time \in Nat /\ series[o + 1].time \in Nat
      BY <1>1, <1>2, <2>3, SeriesFacts
    <2>6. ~ series[o + 1].time <= series[o].time
      BY <2>4, <2>5
    <2> QED BY <2>2, <2>4, <2>6
  <1> QED BY <1>2, <1>4, <1>5 DEF Refused

\* The forecast of a settlement rests on what it should.
LEMMA ForecastOfTheNext ==
    ASSUME RollingInv, FundingInv, ObserveSettlement
    PROVE  ForecastIsOfTheRecentPast'
  <1>1. FundingType /\ Validated /\ Streaming
    BY DEF FundingInv, Streaming, ObserveSettlement
  <1>2. PICK l \in Nat, o \in Nat :
           l = Len(series) /\ o = observed /\ o \in 0 .. l - 1 /\ o + 1 \in 1 .. l /\ l # 0
    BY <1>1 DEF FundingType, RollingInv, Streaming
  <1>3. PICK a \in 1 .. o + 1 : IsRun(history, a, o) /\ Kept(o) = a .. o
    BY <1>2 DEF RollingInv
  <1>4. PICK t \in Nat : t = series[o + 1].time
    BY <1>1, <1>2, SeriesFacts
  <1>5. UNCHANGED <<truth, window>>
    BY DEF ObserveSettlement, fundingVars
  <1>6. RecentTruth(t)' = RecentTruth(t)
    <2>1. InWindow' = InWindow
      BY <1>5 DEF InWindow, WindowStart, WindowStop
    <2> QED BY <2>1 DEF RecentTruth, SinceCadenceChange
  <1>7. CASE record' = record
    BY <1>5, <1>7, ForecastUndisturbed DEF RollingInv
  <1>8. CASE record' = Forecast(t) /\ t >= StudyStart * Day
    <2>1. CASE ~Available(history, t)
      <3>1. record'.status = "unavailable"
        BY <1>8, <2>1 DEF Forecast
      <3> QED BY <3>1 DEF ForecastIsOfTheRecentPast
    <2>2. CASE Available(history, t)
      <3>1. record'.time = t /\ record'.fitted = Selected(history, t) /\ record'.frozen = frozen'
        BY <1>8, <2>2 DEF Forecast
      <3>2. history # <<>> /\ Len(Selected(history, t)) >= MinSettlements
        BY <2>2 DEF Available, Fresh
      <3>3. a <= o /\ o \in 1 .. l /\ o \in 1 .. l - 1
        <4>1. Len(history) = o - a + 1 /\ history \in Seq(Settlements)
          BY <1>3 DEF IsRun
        <4>2. Len(history) # 0
          BY <3>2, <4>1
        <4> QED BY <1>2, <4>1, <4>2
      <3>4. PICK w \in Nat : w = RollingWindow
        BY RollingAssumption, DayType DEF RollingWindow
      <3>5. PICK b \in a .. o + 1 :
               /\ IsRun(Selected(history, t), b, o)
               /\ \A k \in a .. o : k >= b <=> series[k].time >= t - w
        <4>1. t - w \in Int /\ o \in 0 .. l
          BY <1>2
        <4>2. PICK b \in a .. o + 1 :
                 /\ IsRun(Since(history, t - w), b, o)
                 /\ \A k \in a .. o : k >= b <=> series[k].time >= t - w
          BY <1>1, <1>2, <1>3, <4>1, SinceOfRun
        <4> QED BY <3>4, <4>2 DEF Selected
      <3>6. b \in 1 .. o + 1 /\ b \in Nat \ {0} /\ o \in Nat
        BY <1>2, <3>5
      <3>7. RecentTruth(t) = {series[i] : i \in b .. o}
        <4>1. \A k \in a .. o : k >= b <=> series[k].time >= series[o + 1].time - RollingWindow
          BY <1>4, <3>4, <3>5
        <4>2. RecentTruth(series[o + 1].time) = {series[i] : i \in b .. o}
          BY <1>1, <1>2, <1>3, <3>3, <3>5, <4>1, RecentTruthOfSeries
        <4> QED BY <1>4, <4>2
      <3>8. /\ Range(Selected(history, t)) = RecentTruth(t)
            /\ Len(Selected(history, t)) = Cardinality(RecentTruth(t))
        BY <1>1, <1>2, <3>3, <3>5, <3>6, <3>7, RunAsSet
      <3>9. b <= o
        <4>1. Len(Selected(history, t)) = o - b + 1
          BY <3>5 DEF IsRun
        <4> QED BY <3>2, <3>6, <4>1, RollingAssumption
      <3>10. Last(Selected(history, t)) = series[o] /\ Last(history) = series[o]
        <4>1. a \in Nat \ {0}
          OBVIOUS
        <4> QED BY <1>3, <3>3, <3>5, <3>6, <3>9, <4>1, LastOfRun
      <3>11. /\ Cadence(frozen') = Cadence(Selected(history, t))
             /\ Last(frozen').time <= Last(Selected(history, t)).time
        <4>1. series[o].time \in Nat
          BY <1>1, <1>2, <3>3, SeriesFacts
        <4>2. CASE frozen # <<>> => Cadence(frozen) # Cadence(history)
          <5>1. frozen' = Selected(history, t)
            BY <1>2, <1>4, <1>8, <2>2, <4>2 DEF ObserveSettlement
          <5> QED BY <3>10, <4>1, <5>1
        <4>3. CASE frozen # <<>> /\ Cadence(frozen) = Cadence(history)
          <5>1. frozen' = frozen
            BY <1>2, <1>4, <4>3 DEF ObserveSettlement
          <5>2. PICK k \in 1 .. o : Last(frozen) = series[k]
            BY <1>2, <4>3 DEF RollingInv
          <5>3. series[k].time <= series[o].time
            <6>1. CASE k = o
              BY <4>1, <6>1
            <6>2. CASE k # o
              <7>1. k \in 1 .. l /\ k < o
                BY <1>2, <6>2
              <7>2. series[k].time < series[o].time /\ series[k].time \in Nat
                BY <1>1, <1>2, <3>3, <7>1, SeriesFacts
              <7> QED BY <4>1, <7>2
            <6> QED BY <6>1, <6>2
          <5> QED BY <3>10, <4>3, <5>1, <5>2, <5>3 DEF Cadence
        <4> QED BY <4>2, <4>3
      <3> QED BY <1>6, <3>1, <3>2, <3>8, <3>11 DEF ForecastIsOfTheRecentPast
    <2> QED BY <2>1, <2>2
  <1> QED BY <1>2, <1>4, <1>7, <1>8 DEF ObserveSettlement

LEMMA ObserveSettlementKeepsRolling ==
    ASSUME RollingInv, FundingInv, ObserveSettlement
    PROVE  RollingInv'
  <1>1. FundingType /\ Validated /\ Streaming
    BY DEF FundingInv, Streaming, ObserveSettlement
  <1>2. PICK l \in Nat, o \in Nat :
           l = Len(series) /\ o = observed /\ o \in 0 .. l - 1 /\ o + 1 \in 1 .. l /\ l # 0
    BY <1>1 DEF FundingType, RollingInv, Streaming
  <1>3. PICK a \in 1 .. o + 1 : IsRun(history, a, o) /\ Kept(o) = a .. o
    BY <1>2 DEF RollingInv
  <1>4. /\ history' = Updated(history, series[o + 1]) /\ observed' = o + 1
        /\ stream_pc' = stream_pc
    BY <1>2, NextRowIsAccepted, <1>1 DEF ObserveSettlement
  <1>5. UNCHANGED fundingVars /\ series' = series /\ truth' = truth /\ load_pc' = load_pc
    BY DEF ObserveSettlement, fundingVars, loadVars
  <1>6. PICK b \in 1 .. o + 2 : IsRun(history', b, o + 1) /\ Kept(o + 1) = b .. o + 1
    BY <1>1, <1>2, <1>3, <1>4, UpdatedRun
  <1>7. \E c \in 1 .. observed' + 1 : IsRun(history, c, observed)' /\ Kept(observed)' = c .. observed'
    <2>1. Kept(observed)' = Kept(o + 1)
      BY <1>4, <1>5 DEF Kept
    <2>2. IsRun(history, b, observed)'
      BY <1>4, <1>5, <1>6 DEF IsRun, Settlements
    <2>3. o + 2 = observed' + 1
      BY <1>2, <1>4
    <2> QED BY <1>4, <1>6, <2>1, <2>2, <2>3
  <1>8. frozen' # <<>> => \E k \in 1 .. observed' : Last(frozen') = series'[k]
    <2> SUFFICES ASSUME frozen' # <<>> PROVE \E k \in 1 .. o + 1 : Last(frozen') = series[k]
      BY <1>4, <1>5
    <2>1. CASE frozen' = frozen
      <3>1. PICK k \in 1 .. o : Last(frozen) = series[k]
        BY <1>2, <2>1 DEF RollingInv
      <3>2. k \in 1 .. o + 1
        BY <1>2
      <3> QED BY <2>1, <3>1, <3>2
    <2>2. CASE frozen' = Selected(history, series[o + 1].time)
      <3>1. PICK t \in Int : t = series[o + 1].time - RollingWindow
        BY <1>1, <1>2, SeriesFacts, RollingAssumption, DayType DEF RollingWindow
      <3>2. PICK e \in a .. o + 1 : IsRun(frozen', e, o)
        <4>1. o \in 0 .. l
          BY <1>2
        <4>2. PICK e \in a .. o + 1 : IsRun(Since(history, t), e, o)
          BY <1>1, <1>2, <1>3, <4>1, SinceOfRun
        <4> QED BY <2>2, <3>1, <4>2 DEF Selected
      <3>3. e <= o
        <4>1. Len(frozen') = o - e + 1 /\ frozen' \in Seq(Settlements)
          BY <3>2 DEF IsRun
        <4>2. Len(frozen') # 0
          BY <4>1
        <4> QED BY <1>2, <4>1, <4>2
      <3>4. e \in Nat \ {0} /\ o \in Nat /\ o \in 1 .. o + 1
        BY <1>2, <3>3
      <3>5. Last(frozen') = series[o]
        BY <3>2, <3>3, <3>4, LastOfRun
      <3> QED BY <3>4, <3>5
    <2> QED BY <1>2, <2>1, <2>2 DEF ObserveSettlement
  <1>9. observed' \in 0 .. Len(series')
    BY <1>2, <1>4, <1>5
  <1>10. load_pc' = "admitted"
    BY <1>1, <1>5 DEF Streaming
  <1>11. ForecastIsOfTheRecentPast'
    BY ForecastOfTheNext
  <1>12. stream_pc' = "streaming"
    BY <1>4 DEF RollingInv
  <1> QED BY <1>7, <1>8, <1>9, <1>10, <1>11, <1>12 DEF RollingInv

LEMMA RollingStep ==
    ASSUME RollingInv, FundingInv, [DecisionNext]_<<rollingVars, sizingVars>>
    PROVE  RollingInv'
  <1>1. CASE ObserveSettlement
    BY <1>1, ObserveSettlementKeepsRolling
  <1>2. CASE UNCHANGED modelVars
    BY <1>2, RollingUndisturbed
  <1> QED BY <1>1, <1>2 DEF DecisionNext, RollingNext, rollingVars

\* The funding model keeps what it should, whatever is loaded.
THEOREM RollingInvariant == DecisionSpec => []RollingInv
  <1>1. DecisionSpec => RollingInv
    BY RollingInitially DEF DecisionSpec
  <1>2. RollingInv /\ FundingInv /\ [DecisionNext]_<<rollingVars, sizingVars>> => RollingInv'
    BY RollingStep
  <1> QED BY <1>1, <1>2, FundingInvariant, PTL DEF DecisionSpec

(* A study that began never breaks off: the model refuses no settlement of *)
(* a series that the load admitted (AdmittedSeriesIsAccepted).             *)
THEOREM AdmittedSeriesIsAlwaysAccepted == DecisionSpec => []AdmittedSeriesIsAccepted
  <1>1. RollingInv => AdmittedSeriesIsAccepted
    BY DEF RollingInv, AdmittedSeriesIsAccepted
  <1> QED BY <1>1, RollingInvariant, PTL

(* A forecast is fitted to the settlements of the venue in its window, all *)
(* of them since the last change of cadence and no other, and the frozen   *)
(* comparator is of its cadence and not newer, for every length of the     *)
(* window and every study (ForecastIsOfTheRecentPast).                     *)
THEOREM ForecastIsAlwaysOfTheRecentPast == DecisionSpec => []ForecastIsOfTheRecentPast
  <1>1. RollingInv => ForecastIsOfTheRecentPast
    BY DEF RollingInv
  <1> QED BY <1>1, RollingInvariant, PTL
==============================================================================
