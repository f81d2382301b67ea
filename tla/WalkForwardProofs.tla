-------------------------- MODULE WalkForwardProofs --------------------------
(***************************************************************************)
(* What the walk-forward runner promises for every configuration, fee      *)
(* schedule, price, curve and stream of events: its schedule, its position *)
(* and its two legs agree, its sized entries are affordable, its folds are *)
(* sealed; and what the command's footer says of the study is so.          *)
(***************************************************************************)
EXTENDS BacktestCommand, TLAPS

LegType == [quantity : Int, basis : Int, realized : Int]

EventKinds == {"funding", "finance", "spot", "perp"}

LedgerType == [initial : Int, cash : Int, next_funding : Nat, time : Nat,
               last_funding : Nat \cup {Never}, event_ids : SUBSET (Nat \X EventKinds),
               spot : LegType, perp : LegType,
               funding : Int, fees : Int, financing : Int, execution_cost : Int]

PositionType == [planned : Nat, held : Nat, opened : Nat \cup {Never}]

Seals == [fold : Int, sha : {curve.sha : curve \in Curves}]

TradeType == [time : Nat, quantity : Int, curve : Curves \cup {NoOpportunity.curve}]

RunnerTypeOK ==
    /\ mode \in {"inferred", "book"}
    /\ ledger \in LedgerType
    /\ \A id \in ledger.event_ids : id[1] < seen
    /\ position \in PositionType
    /\ last_time \in Nat /\ next_observation \in Nat /\ next_decision \in Nat
    /\ seen \in Nat
    /\ fold_curves \in Seq(Seals)
    /\ trades \in Seq(TradeType)

\* The clocks agree, and an event that is before the coming decision is strictly so.
ScheduleInv ==
    /\ OneDecisionPerSettlement
    /\ next_observation % Cadence = 0
    /\ last_time < End
    /\ ledger.last_funding = Never => last_time < Start
    /\ ledger.last_funding # Never =>
          /\ Start <= ledger.last_funding /\ ledger.last_funding <= last_time
          /\ next_decision = ledger.last_funding + Delay => last_time < next_decision

PositionInv ==
    /\ HeldForThePlan
    /\ position # NoPosition => position.opened # Never

\* The perp leg is never long.
LegsInv == LegsPaired /\ ledger.perp.quantity <= 0

\* An entry, and any inferred fill, rests on an admitted curve.
Rests(i) == mode = "inferred" \/ i % 2 = 1

\* A fold has one seal, and a trade that rests on a curve rests on its fold's.
SealsInv ==
    /\ \A i, j \in 1 .. Len(fold_curves) :
          fold_curves[i].fold = fold_curves[j].fold => fold_curves[i].sha = fold_curves[j].sha
    /\ \A i \in 1 .. Len(trades) : Rests(i) =>
          /\ trades[i].curve # NoOpportunity.curve
          /\ trades[i].curve.evidence_end <= FoldStart(trades[i].time)
          /\ \E j \in 1 .. Len(fold_curves) :
                /\ fold_curves[j].fold = FoldStart(trades[i].time)
                /\ fold_curves[j].sha = trades[i].curve.sha

RunnerInv ==
    /\ RunnerTypeOK
    /\ ScheduleInv
    /\ PositionInv
    /\ LegsInv
    /\ SealsInv
    /\ FillsAreNeverRefused
    /\ SizedEntriesAreAffordable

\* What was written is what was settled and decided, one decision behind at most.
OutputInv ==
    /\ output \in [status : {"running", "error", "complete", "incomplete_coverage"},
                   last_funding : Nat \cup {Never}, last_market : Nat \cup {Never},
                   settlements : Nat, decisions : Nat]
    /\ output.last_funding = ledger.last_funding
    /\ output.last_market <= last_time
    /\ IF ledger.last_funding = Never
       THEN output.settlements = 0 /\ output.decisions = 0 /\ output.last_market = Never
       ELSE /\ output.settlements * Cadence = ledger.last_funding + Cadence - Start
            /\ output.decisions = IF next_decision = next_observation + Delay
                                  THEN output.settlements ELSE output.settlements - 1

CommandInv == RunnerInv /\ OutputInv /\ CompleteMeansCovered
------------------------------------------------------------------------------
(* Arithmetic. *)

\* Products of a signed quantity.
LEMMA Distributes ==
    ASSUME NEW x \in Int, NEW y \in Int, NEW z \in Int
    PROVE  /\ x * y \in Int
           /\ -x * y = -(x * y)
           /\ x * (y - z) = x * y - x * z
           /\ -x * (y - z) = x * z - x * y
           /\ (x + y) * z = x * z + y * z
  OBVIOUS

LEMMA DivMod ==
    ASSUME NEW a \in Int, NEW m \in Nat \ {0}
    PROVE  /\ a \div m \in Int /\ a % m \in 0 .. m - 1
           /\ a = m * (a \div m) + (a % m)
  BY SMT

LEMMA ProductIsMonotone ==
    ASSUME NEW x \in Int, NEW y \in Int, NEW m \in Nat, x <= y
    PROVE  m * x <= m * y /\ x * m <= y * m
  <1>1. PICK d \in Nat : y = x + d
    BY y - x \in Nat
  <1>2. m * y = m * x + m * d /\ m * d \in Nat /\ m * x \in Int /\ x * m = m * x /\ y * m = m * y
    BY <1>1
  <1> QED BY <1>2

\* Rounding down keeps an order.
LEMMA DivIsMonotone ==
    ASSUME NEW a \in Int, NEW b \in Int, NEW m \in Nat \ {0}, a <= b
    PROVE  a \div m <= b \div m
  <1> DEFINE p == a \div m
             q == b \div m
  <1>1. /\ p \in Int /\ a % m \in 0 .. m - 1 /\ a = m * p + (a % m)
        /\ q \in Int /\ b % m \in 0 .. m - 1 /\ b = m * q + (b % m)
    BY DivMod
  <1> HIDE DEF p, q
  <1>2. SUFFICES ASSUME q + 1 <= p PROVE FALSE
    BY <1>1 DEF p, q
  <1>3. m * (q + 1) <= m * p /\ m * (q + 1) = m * q + m /\ m * p \in Int /\ m * q \in Int
    BY <1>1, <1>2, ProductIsMonotone
  <1> QED BY <1>1, <1>3

\* Multiples of m are m apart.
LEMMA MultiplesAreApart ==
    ASSUME NEW a \in Nat, NEW b \in Nat, NEW m \in Nat \ {0}, a % m = 0, b % m = 0, a < b
    PROVE  a + m <= b
  <1> DEFINE p == a \div m
             q == b \div m
  <1>1. p \in Int /\ a = m * p /\ q \in Int /\ b = m * q
    BY DivMod
  <1> HIDE DEF p, q
  <1>2. SUFFICES ASSUME q <= p PROVE FALSE
    <2>1. CASE q > p
      <3>1. m * (p + 1) <= m * q /\ m * (p + 1) = m * p + m
        BY <1>1, <2>1, ProductIsMonotone
      <3> QED BY <1>1, <3>1
    <2> QED BY <1>1, <1>2, <2>1
  <1>3. m * q <= m * p
    BY <1>1, <1>2, ProductIsMonotone
  <1> QED BY <1>1, <1>3

LEMMA MultipleHasNoRest ==
    ASSUME NEW k \in Int, NEW m \in Nat \ {0}
    PROVE  (m * k) % m = 0
  <1> DEFINE a == m * k
             r == a % m
             q == a \div m
             d == k - q
  <1>1. a \in Int
    OBVIOUS
  <1> HIDE DEF a
  <1>2. r \in 0 .. m - 1 /\ q \in Int /\ a = m * q + r
    BY <1>1, DivMod
  <1> HIDE DEF r, q
  <1>3. d \in Int /\ m * d = m * k - m * q /\ m * k \in Int /\ m * q \in Int
    BY <1>2
  <1>4. m * d = r
    BY <1>2, <1>3 DEF a
  <1> HIDE DEF d
  <1>5. CASE d <= -1
    <2>1. m * d <= m * (-1) /\ m * (-1) = -m
      BY <1>3, <1>5, ProductIsMonotone
    <2> QED BY <1>2, <1>4, <2>1
  <1>6. CASE d >= 1
    <2>1. m * 1 <= m * d /\ m * 1 = m
      BY <1>3, <1>6, ProductIsMonotone
    <2> QED BY <1>2, <1>4, <2>1
  <1>7. CASE d = 0
    BY <1>2, <1>4, <1>7 DEF r, a
  <1> QED BY <1>3, <1>5, <1>6, <1>7

LEMMA NextMultiple ==
    ASSUME NEW a \in Nat, NEW m \in Nat \ {0}, a % m = 0
    PROVE  (a + m) % m = 0
  <1> DEFINE p == a \div m
  <1>1. p \in Int /\ a = m * p
    BY DivMod
  <1> HIDE DEF p
  <1>2. a + m = m * (p + 1)
    BY <1>1
  <1> QED BY <1>1, <1>2, MultipleHasNoRest

LEMMA MultipleOfMultiple ==
    ASSUME NEW k \in Int, NEW f \in Nat \ {0}, NEW m \in Nat \ {0}, f % m = 0
    PROVE  (k * f) % m = 0
  <1> DEFINE p == f \div m
  <1>1. p \in Int /\ f = m * p
    BY DivMod
  <1> HIDE DEF p
  <1>2. k * f = m * (k * p) /\ k * p \in Int
    BY <1>1
  <1> QED BY <1>2, MultipleHasNoRest
------------------------------------------------------------------------------
(* What Config promises of the constants. *)

LEMMA Configured ==
    /\ Cadence \in Nat \ {0} /\ Guard \in Nat /\ Parts \in Nat \ {0}
    /\ WarmupStart \in Nat /\ Start \in Nat /\ End \in Nat /\ Delay \in Nat
    /\ WarmupStart < Start /\ Start < End
    /\ Guard < Delay /\ Delay < Cadence - Guard
    /\ Horizon \in Nat \ {0} /\ Capital \in Nat \ {0} /\ Collateral \in Nat \ {0}
    /\ FoldLength \in Nat \ {0} /\ FoldLength % Cadence = 0
    /\ WarmupStart % Cadence = 0
  <1>1. Hour \in Nat \ {0} /\ Interval \in Nat \ {0}
    BY AccountingAssumption, ConfigAssumption DEF ValidConfig
  <1>2. Cadence \in Nat \ {0}
    BY <1>1 DEF Cadence
  <1> QED BY <1>2, AccountingAssumption, ConfigAssumption DEF ValidConfig

\* A study begins with a settlement.
LEMMA StartIsSettlement == Start % Cadence = 0 /\ WarmupStart + Cadence <= Start
  <1>1. Start \div FoldLength \in Int /\ (Start \div FoldLength) * FoldLength = Start
    BY Configured, DivMod, ConfigAssumption DEF ValidConfig, FoldStart
  <1>2. Start % Cadence = 0
    BY <1>1, Configured, MultipleOfMultiple
  <1> QED BY <1>2, Configured, MultiplesAreApart

LEMMA Chosen ==
    /\ Quantities \subseteq Nat \ {0} /\ SpotMid \in Nat \ {0}
    /\ PerpMids \subseteq Nat \ {0} /\ Marks \subseteq Nat \ {0}
    /\ Slips \subseteq Nat /\ BookSlips \subseteq Nat
    /\ Rates \subseteq Int /\ Costs \subseteq Nat
    /\ WorstSlip \in Nat /\ \A slip \in Slips : slip <= WorstSlip
    /\ \A slip \in Slips \cup BookSlips : \A mid \in PerpMids : slip < mid
    /\ Modes \subseteq {"inferred", "book"}
  <1>1. \E worst \in Slips : \A slip \in Slips : slip <= worst
    BY ConfigAssumption DEF ValidConfig
  <1>2. WorstSlip \in Slips /\ \A slip \in Slips : slip <= WorstSlip
    BY <1>1 DEF WorstSlip
  <1> QED BY <1>2, ConfigAssumption DEF ValidConfig
------------------------------------------------------------------------------
(* What the ledger's functions yield. *)

FillType == [id : Nat \X EventKinds, time : Nat, market : Market, quantity : Int,
             price : Int, reference_mid : Int]

LEMMA AverageIsInt ==
    ASSUME NEW leg \in LegType, leg.quantity # 0
    PROVE  Average(leg) \in Int
  <1>1. leg.quantity \in Int /\ leg.basis \in Int
    BY DEF LegType
  <1>2. CASE leg.quantity > 0
    BY <1>1, <1>2 DEF Average
  <1>3. CASE leg.quantity < 0
    <2>1. -leg.quantity \in Nat \ {0} /\ -leg.basis \in Int
      BY <1>1, <1>3
    <2> QED BY <1>1, <1>3, <2>1 DEF Average
  <1> QED BY <1>1, <1>2, <1>3

LEMMA TradeIsTyped ==
    ASSUME NEW leg \in LegType, NEW q \in Int, NEW p \in Int
    PROVE  /\ Traded(leg, q, p) \in LegType
           /\ Realized(leg, q, p) \in Int
           /\ Traded(leg, q, p).quantity = leg.quantity + q
           /\ Traded(leg, q, p).basis = IF Closes(leg, q) THEN (leg.quantity + q) * Average(leg)
                                                          ELSE leg.basis + q * p
  <1> DEFINE A == Average(leg)
             R == Realized(leg, q, p)
             B == IF Closes(leg, q) THEN (leg.quantity + q) * A ELSE leg.basis + q * p
  <1>1. leg.quantity \in Int /\ leg.basis \in Int /\ leg.realized \in Int
    BY DEF LegType
  <1>2. ASSUME Closes(leg, q) PROVE A \in Int
    <2>1. leg.quantity # 0
      BY <1>1, <1>2 DEF Closes
    <2> QED BY <2>1, AverageIsInt
  <1>3. R \in Int
    <2>1. CASE Closes(leg, q)
      <3>1. R = -q * (p - A) /\ A \in Int
        BY <1>2, <2>1 DEF Realized
      <3> HIDE DEF R, A
      <3> QED BY <3>1
    <2> QED BY <2>1 DEF Realized
  <1>4. B \in Int
    <2>1. CASE Closes(leg, q)
      <3> HIDE DEF A
      <3> QED BY <1>1, <1>2, <2>1
    <2> QED BY <1>1, <2>1
  <1>5. Traded(leg, q, p) = [quantity |-> leg.quantity + q, basis |-> B,
                             realized |-> leg.realized + R]
    BY DEF Traded
  <1> HIDE DEF R, B, A
  <1>6. Traded(leg, q, p) \in LegType /\ Traded(leg, q, p).quantity = leg.quantity + q
        /\ Traded(leg, q, p).basis = B
    BY <1>1, <1>3, <1>4, <1>5 DEF LegType
  <1> QED BY <1>3, <1>6 DEF R, B, A

\* The fee of a lot is a whole amount, and a better price for the seller costs him more.
LEMMA FeeIsInt ==
    ASSUME NEW m \in Market, NEW t \in Nat, NEW q \in Int, NEW p \in Int,
           Quotable(m, t) # {}
    PROVE  /\ Fee(m, t, q, p) \in Int
           /\ q \in Nat => \A lower \in Int : lower <= p => Fee(m, t, -q, lower) <= Fee(m, t, q, p)
  <1> DEFINE period == CHOOSE x \in Quotable(m, t) : TRUE
             taker == period.taker
  <1>1. period \in Quotable(m, t)
    OBVIOUS
  <1>2. period \in FeePeriods
    BY <1>1 DEF Quotable, Covering
  <1>3. taker \in Nat
    BY <1>2, AccountingAssumption DEF ValidFeeSchedule
  <1>4. \A x, y : Fee(m, t, x, y) = ((IF x < 0 THEN -x ELSE x) * y * taker) \div Parts
    BY DEF Fee
  <1> HIDE DEF taker
  <1>5. Fee(m, t, q, p) \in Int
    <2> DEFINE size == IF q < 0 THEN -q ELSE q
    <2>1. size \in Int
      OBVIOUS
    <2>2. Fee(m, t, q, p) = (size * p * taker) \div Parts
      BY <1>4
    <2> HIDE DEF size
    <2>3. size * p * taker \in Int
      BY <1>3, <2>1
    <2> QED BY <2>2, <2>3, AccountingAssumption
  <1>6. ASSUME q \in Nat, NEW lower \in Int, lower <= p
        PROVE  Fee(m, t, -q, lower) <= Fee(m, t, q, p)
    <2>1. Fee(m, t, -q, lower) = (q * lower * taker) \div Parts
      <3>1. (IF -q < 0 THEN -(-q) ELSE -q) = q
        BY <1>6
      <3> QED BY <1>4, <3>1
    <2>2. Fee(m, t, q, p) = (q * p * taker) \div Parts
      <3>1. (IF q < 0 THEN -q ELSE q) = q
        BY <1>6
      <3> QED BY <1>4, <3>1
    <2>3. q * lower <= q * p /\ q * lower \in Int /\ q * p \in Int
      BY <1>6, ProductIsMonotone
    <2>4. q * lower * taker <= q * p * taker /\ q * lower * taker \in Int /\ q * p * taker \in Int
      BY <1>3, <2>3, ProductIsMonotone
    <2> QED BY <2>1, <2>2, <2>4, DivIsMonotone, AccountingAssumption
  <1> QED BY <1>5, <1>6

\* A ledger with typed fields put in.
LEMMA LedgerWith ==
    ASSUME NEW l \in LedgerType, NEW time \in Nat, NEW ids \in SUBSET (Nat \X EventKinds),
           NEW leg \in LegType, NEW cash \in Int, NEW x \in Int, NEW y \in Int
    PROVE  /\ [l EXCEPT !.time = time, !.event_ids = ids, !.spot = leg, !.cash = cash,
                        !.fees = x, !.execution_cost = y] \in LedgerType
           /\ [l EXCEPT !.time = time, !.event_ids = ids, !.perp = leg, !.cash = cash,
                        !.fees = x, !.execution_cost = y] \in LedgerType
  BY DEF LedgerType

LEMMA SpotFilled ==
    ASSUME NEW l \in LedgerType, NEW f \in FillType, f.market = "spot",
           Quotable(f.market, f.time) # {}
    PROVE  /\ Filled(l, f) \in LedgerType
           /\ Filled(l, f).spot = Traded(l.spot, f.quantity, f.price)
           /\ Filled(l, f).perp = l.perp
           /\ Filled(l, f).cash = l.cash - f.quantity * f.price
                                    - Fee("spot", f.time, f.quantity, f.price)
           /\ Filled(l, f).event_ids = l.event_ids \cup {f.id}
           /\ Filled(l, f).time = f.time
           /\ Filled(l, f).next_funding = l.next_funding
           /\ Filled(l, f).last_funding = l.last_funding
  <1> DEFINE fee == Fee("spot", f.time, f.quantity, f.price)
             leg == Traded(l.spot, f.quantity, f.price)
             gap == f.quantity * (f.price - f.reference_mid)
             paid == -f.quantity * f.price
  <1>1. f.quantity \in Int /\ f.price \in Int /\ f.reference_mid \in Int /\ f.time \in Nat
        /\ f.id \in Nat \X EventKinds /\ "spot" \in Market
    BY DEF FillType, Market
  <1>2. fee \in Int
    BY <1>1, FeeIsInt
  <1>3. leg \in LegType
    BY <1>1, TradeIsTyped DEF LedgerType
  <1>4. /\ paid = -(f.quantity * f.price) /\ f.quantity * f.price \in Int
        /\ gap = f.quantity * f.price - f.quantity * f.reference_mid
        /\ f.quantity * f.reference_mid \in Int
    BY <1>1, Distributes
  <1>5. Filled(l, f) = [Recorded(l, f) EXCEPT
              !["spot"] = leg, !.cash = @ + paid - fee, !.fees = @ + fee,
              !.execution_cost = @ + gap]
    BY DEF Filled
  <1> HIDE DEF fee, leg, gap, paid
  <1>6. Filled(l, f) = [l EXCEPT !.time = f.time, !.event_ids = l.event_ids \cup {f.id},
              !.spot = leg, !.cash = l.cash + paid - fee, !.fees = l.fees + fee,
              !.execution_cost = l.execution_cost + gap]
    BY <1>5 DEF Recorded, LedgerType
  <1>7. /\ l.cash + paid - fee \in Int /\ l.fees + fee \in Int
        /\ l.execution_cost + gap \in Int
        /\ l.event_ids \cup {f.id} \in SUBSET (Nat \X EventKinds)
        /\ l.cash \in Int
    BY <1>1, <1>2, <1>4 DEF LedgerType
  <1>8. Filled(l, f) \in LedgerType
    <2> DEFINE ids == l.event_ids \cup {f.id}
               cash == l.cash + paid - fee
               x == l.fees + fee
               y == l.execution_cost + gap
    <2>1. /\ f.time \in Nat /\ ids \in SUBSET (Nat \X EventKinds) /\ leg \in LegType
          /\ cash \in Int /\ x \in Int /\ y \in Int
      BY <1>1, <1>3, <1>7
    <2> HIDE DEF ids, cash, x, y
    <2>2. [l EXCEPT !.time = f.time, !.event_ids = ids, !.spot = leg, !.cash = cash,
                    !.fees = x, !.execution_cost = y] \in LedgerType
      BY <2>1, LedgerWith
    <2> QED BY <1>6, <2>2 DEF ids, cash, x, y
  <1>9. /\ Filled(l, f).spot = leg /\ Filled(l, f).perp = l.perp
        /\ Filled(l, f).cash = l.cash + paid - fee
        /\ Filled(l, f).event_ids = l.event_ids \cup {f.id}
        /\ Filled(l, f).time = f.time
        /\ Filled(l, f).next_funding = l.next_funding
        /\ Filled(l, f).last_funding = l.last_funding
    BY <1>6 DEF LedgerType
  <1>10. l.cash + paid - fee = l.cash - f.quantity * f.price - fee
    BY <1>2, <1>4, <1>7
  <1> QED BY <1>8, <1>9, <1>10 DEF fee, leg

LEMMA PerpFilled ==
    ASSUME NEW l \in LedgerType, NEW f \in FillType, f.market = "perp",
           Quotable(f.market, f.time) # {}
    PROVE  /\ Filled(l, f) \in LedgerType
           /\ Filled(l, f).perp = Traded(l.perp, f.quantity, f.price)
           /\ Filled(l, f).spot = l.spot
           /\ Filled(l, f).cash = l.cash + Realized(l.perp, f.quantity, f.price)
                                    - Fee("perp", f.time, f.quantity, f.price)
           /\ Filled(l, f).event_ids = l.event_ids \cup {f.id}
           /\ Filled(l, f).time = f.time
           /\ Filled(l, f).next_funding = l.next_funding
           /\ Filled(l, f).last_funding = l.last_funding
  <1> DEFINE fee == Fee("perp", f.time, f.quantity, f.price)
             leg == Traded(l.perp, f.quantity, f.price)
             gap == f.quantity * (f.price - f.reference_mid)
             paid == Realized(l.perp, f.quantity, f.price)
  <1>1. f.quantity \in Int /\ f.price \in Int /\ f.reference_mid \in Int /\ f.time \in Nat
        /\ f.id \in Nat \X EventKinds /\ "perp" \in Market
    BY DEF FillType, Market
  <1>2. fee \in Int
    BY <1>1, FeeIsInt
  <1>3. leg \in LegType /\ paid \in Int
    BY <1>1, TradeIsTyped DEF LedgerType
  <1>4. gap \in Int
    BY <1>1, Distributes
  <1>5. Filled(l, f) = [Recorded(l, f) EXCEPT
              !["perp"] = leg, !.cash = @ + paid - fee, !.fees = @ + fee,
              !.execution_cost = @ + gap]
    BY DEF Filled
  <1> HIDE DEF fee, leg, gap, paid
  <1>6. Filled(l, f) = [l EXCEPT !.time = f.time, !.event_ids = l.event_ids \cup {f.id},
              !.perp = leg, !.cash = l.cash + paid - fee, !.fees = l.fees + fee,
              !.execution_cost = l.execution_cost + gap]
    BY <1>5 DEF Recorded, LedgerType
  <1>7. /\ l.cash + paid - fee \in Int /\ l.fees + fee \in Int
        /\ l.execution_cost + gap \in Int
        /\ l.event_ids \cup {f.id} \in SUBSET (Nat \X EventKinds)
    BY <1>1, <1>2, <1>3, <1>4 DEF LedgerType
  <1>8. Filled(l, f) \in LedgerType
    <2> DEFINE ids == l.event_ids \cup {f.id}
               cash == l.cash + paid - fee
               x == l.fees + fee
               y == l.execution_cost + gap
    <2>1. /\ f.time \in Nat /\ ids \in SUBSET (Nat \X EventKinds) /\ leg \in LegType
          /\ cash \in Int /\ x \in Int /\ y \in Int
      BY <1>1, <1>3, <1>7
    <2> HIDE DEF ids, cash, x, y
    <2>2. [l EXCEPT !.time = f.time, !.event_ids = ids, !.perp = leg, !.cash = cash,
                    !.fees = x, !.execution_cost = y] \in LedgerType
      BY <2>1, LedgerWith
    <2> QED BY <1>6, <2>2 DEF ids, cash, x, y
  <1>9. /\ Filled(l, f).perp = leg /\ Filled(l, f).spot = l.spot
        /\ Filled(l, f).cash = l.cash + paid - fee
        /\ Filled(l, f).event_ids = l.event_ids \cup {f.id}
        /\ Filled(l, f).time = f.time
        /\ Filled(l, f).next_funding = l.next_funding
        /\ Filled(l, f).last_funding = l.last_funding
    BY <1>6 DEF LedgerType
  <1> QED BY <1>8, <1>9 DEF fee, leg, paid

LEMMA SettledFields ==
    ASSUME NEW l \in LedgerType,
           NEW e, e.id \in Nat \X EventKinds, e.time \in Nat, e.interval \in Nat,
           e.mark \in Int, e.rate \in Int
    PROVE  /\ Settled(l, e) \in LedgerType
           /\ Settled(l, e).spot = l.spot /\ Settled(l, e).perp = l.perp
           /\ Settled(l, e).event_ids = l.event_ids \cup {e.id}
           /\ Settled(l, e).next_funding = e.time + e.interval * Hour
           /\ Settled(l, e).last_funding = e.time
  <1> DEFINE paid == Payment(l, e)
             next == e.time + e.interval * Hour
  <1>1. l.perp.quantity \in Int
    BY DEF LedgerType, LegType
  <1>2. paid \in Int
    <2>1. -l.perp.quantity * e.mark * e.rate \in Int
      BY <1>1
    <2> QED BY <2>1, AccountingAssumption DEF Payment
  <1>3. next \in Nat
    BY AccountingAssumption
  <1>4. Settled(l, e) = [Recorded(l, e) EXCEPT
            !.cash = @ + paid, !.funding = @ + paid, !.next_funding = next,
            !.last_funding = e.time]
    BY DEF Settled
  <1> HIDE DEF paid, next
  <1>5. Settled(l, e) = [l EXCEPT !.time = e.time, !.event_ids = l.event_ids \cup {e.id},
            !.cash = l.cash + paid, !.funding = l.funding + paid, !.next_funding = next,
            !.last_funding = e.time]
    BY <1>4 DEF Recorded, LedgerType
  <1>6. /\ l.cash + paid \in Int /\ l.funding + paid \in Int
        /\ l.event_ids \cup {e.id} \in SUBSET (Nat \X EventKinds)
    BY <1>2 DEF LedgerType
  <1>7. Settled(l, e) \in LedgerType
    <2> DEFINE ids == l.event_ids \cup {e.id}
               cash == l.cash + paid
               funding == l.funding + paid
    <2>1. /\ ids \in SUBSET (Nat \X EventKinds) /\ cash \in Int /\ funding \in Int
          /\ e.time \in Nat \cup {Never}
      BY <1>6
    <2> HIDE DEF ids, cash, funding
    <2>2. [l EXCEPT !.time = e.time, !.event_ids = ids, !.cash = cash, !.funding = funding,
                    !.next_funding = next, !.last_funding = e.time] \in LedgerType
      BY <1>3, <2>1 DEF LedgerType
    <2> QED BY <1>5, <2>2 DEF ids, cash, funding
  <1>8. /\ Settled(l, e).spot = l.spot /\ Settled(l, e).perp = l.perp
        /\ Settled(l, e).event_ids = l.event_ids \cup {e.id}
        /\ Settled(l, e).next_funding = next
        /\ Settled(l, e).last_funding = e.time
    BY <1>5 DEF LedgerType
  <1> QED BY <1>7, <1>8 DEF next

LEMMA FinancedFields ==
    ASSUME NEW l \in LedgerType,
           NEW e, e.id \in Nat \X EventKinds, e.time \in Nat, e.cost \in Int
    PROVE  /\ Financed(l, e) \in LedgerType
           /\ Financed(l, e).spot = l.spot /\ Financed(l, e).perp = l.perp
           /\ Financed(l, e).event_ids = l.event_ids \cup {e.id}
           /\ Financed(l, e).time = e.time
           /\ Financed(l, e).next_funding = l.next_funding
           /\ Financed(l, e).last_funding = l.last_funding
  <1>1. Financed(l, e) = [l EXCEPT !.time = e.time, !.event_ids = l.event_ids \cup {e.id},
            !.cash = l.cash - e.cost, !.financing = l.financing + e.cost]
    BY DEF Financed, Recorded, LedgerType
  <1>2. /\ l.cash - e.cost \in Int /\ l.financing + e.cost \in Int
        /\ l.event_ids \cup {e.id} \in SUBSET (Nat \X EventKinds)
    BY DEF LedgerType
  <1>3. Financed(l, e) \in LedgerType
    BY <1>1, <1>2 DEF LedgerType
  <1>4. /\ Financed(l, e).spot = l.spot /\ Financed(l, e).perp = l.perp
        /\ Financed(l, e).event_ids = l.event_ids \cup {e.id}
        /\ Financed(l, e).time = e.time
        /\ Financed(l, e).next_funding = l.next_funding
        /\ Financed(l, e).last_funding = l.last_funding
    BY <1>1 DEF LedgerType
  <1> QED BY <1>3, <1>4
------------------------------------------------------------------------------
(* What is known of a market event that is accepted, and of its fills. *)

LEMMA MarketEvent ==
    ASSUME RunnerTypeOK, NEW t \in EventTimes, NEW e \in MarketEvents(t)
    PROVE  /\ e.id = seen /\ e.time \in Nat /\ e.perp_mid \in PerpMids /\ e.mark \in Nat \ {0}
           /\ e.decide \in BOOLEAN /\ e.financing \in Nat
           /\ e.opportunity # NoOpportunity =>
                 e.opportunity.fold \in Int /\ e.opportunity.curve \in Curves
  <1>1. t \in Nat
    BY DEF EventTimes
  <1>2. /\ e.id = seen /\ e.time = t /\ e.perp_mid \in PerpMids /\ e.mark \in Marks
        /\ e.decide \in BOOLEAN /\ e.financing \in Costs
        /\ e.opportunity \in {NoOpportunity} \cup
              [fold : {FoldStart(t), FoldStart(t) - FoldLength}, curve : Curves]
    BY DEF MarketEvents
  <1>3. FoldStart(t) \in Int /\ FoldStart(t) - FoldLength \in Int
    <2>1. t \div FoldLength \in Int
      BY <1>1, Configured, DivMod
    <2> QED BY <2>1, Configured DEF FoldStart
  <1>4. e.opportunity # NoOpportunity =>
                 e.opportunity.fold \in Int /\ e.opportunity.curve \in Curves
    BY <1>2, <1>3
  <1> QED BY <1>1, <1>2, <1>4, Chosen

LEMMA FinancedEvent ==
    ASSUME RunnerTypeOK, NEW t \in EventTimes, NEW e \in MarketEvents(t)
    PROVE  /\ FinancedBy(e) \in LedgerType
           /\ FinancedBy(e).spot = ledger.spot /\ FinancedBy(e).perp = ledger.perp
           /\ FinancedBy(e).event_ids = ledger.event_ids \cup {<<seen, "finance">>}
           /\ FinancedBy(e).time = e.time
           /\ FinancedBy(e).next_funding = ledger.next_funding
           /\ FinancedBy(e).last_funding = ledger.last_funding
  <1>1. ledger \in LedgerType /\ seen \in Nat
    BY DEF RunnerTypeOK
  <1>2. e.id = seen /\ e.time \in Nat /\ e.financing \in Int
    BY MarketEvent
  <1>3. /\ Charge(e).id = <<seen, "finance">> /\ Charge(e).id \in Nat \X EventKinds
        /\ Charge(e).time = e.time /\ Charge(e).cost = e.financing
    BY <1>1, <1>2 DEF Charge, EventKinds
  <1> QED BY <1>1, <1>2, <1>3, FinancedFields DEF FinancedBy

\* A market event comes after the first settlement and before the next one, and a
\* decision at its delay after the last.
LEMMA AcceptedEvent ==
    ASSUME RunnerTypeOK, ScheduleInv,
           NEW t \in EventTimes, NEW e \in MarketEvents(t), MarketAccepted(e)
    PROVE  /\ Start <= e.time /\ e.time < End /\ last_time <= e.time
           /\ ledger.last_funding \in Nat /\ ledger.last_funding # Never
           /\ ledger.next_funding = ledger.last_funding + Cadence
           /\ next_observation = ledger.last_funding + Cadence
           /\ e.time < ledger.next_funding
           /\ e.time <= next_decision
           /\ e.decide <=> e.time = next_decision
           /\ e.decide => next_decision = ledger.last_funding + Delay
  <1>1. /\ e.time \in Nat /\ e.decide \in BOOLEAN
    BY MarketEvent
  <1>2. /\ ledger.next_funding \in Nat /\ ledger.last_funding \in Nat \cup {Never}
        /\ last_time \in Nat /\ next_observation \in Nat /\ next_decision \in Nat
    BY DEF RunnerTypeOK, LedgerType
  <1>3. /\ ~(e.time < last_time) /\ ~(e.time >= End)
        /\ ~(e.time >= Start /\ e.time > next_decision)
        /\ ~(e.time < Start) /\ e.decide = (e.time = next_decision)
    BY <1>1 DEF MarketAccepted, OutOfStream, OffSchedule
  <1>4. ~(e.time >= ledger.next_funding)
    <2>1. FinanceError(ledger, Charge(e)) = NoError /\ Charge(e).time = e.time
      BY DEF MarketAccepted, Charge
    <2> QED BY <2>1 DEF FinanceError, NoError
  <1>5. ledger.last_funding # Never
    BY <1>1, <1>2, <1>3, <1>4, Configured DEF ScheduleInv, OneDecisionPerSettlement
  <1>6. /\ next_observation = ledger.last_funding + Cadence
        /\ ledger.next_funding = next_observation
        /\ \/ next_decision = next_observation + Delay
           \/ next_decision = ledger.last_funding + Delay
    BY <1>5 DEF ScheduleInv, OneDecisionPerSettlement
  <1>7. ledger.last_funding \in Nat
    BY <1>2, <1>5
  <1>8. /\ Start <= e.time /\ e.time < End /\ last_time <= e.time
        /\ e.time < ledger.next_funding /\ e.time <= next_decision
    BY <1>1, <1>2, <1>3, <1>4, Configured
  <1>9. e.time = next_decision => next_decision = ledger.last_funding + Delay
    BY <1>1, <1>6, <1>7, <1>8, Configured
  <1>10. e.decide <=> e.time = next_decision
    BY <1>1, <1>3
  <1> QED BY <1>5, <1>6, <1>7, <1>8, <1>9, <1>10

\* The two fills of a pair are typed, and known by the event and their market.
LEMMA FillsAreTyped ==
    ASSUME RunnerTypeOK, NEW t \in EventTimes, NEW e \in MarketEvents(t),
           NEW q \in Int, NEW slip \in Nat
    PROVE  /\ SpotFill(e, q, slip) \in FillType
           /\ SpotFill(e, q, slip).id = <<seen, "spot">>
           /\ SpotFill(e, q, slip).market = "spot"
           /\ SpotFill(e, q, slip).time = e.time
           /\ SpotFill(e, q, slip).quantity = q
           /\ SpotFill(e, q, slip).price = SpotMid
           /\ PerpFill(e, q, slip) \in FillType
           /\ PerpFill(e, q, slip).id = <<seen, "perp">>
           /\ PerpFill(e, q, slip).market = "perp"
           /\ PerpFill(e, q, slip).time = e.time
           /\ PerpFill(e, q, slip).quantity = -q
           /\ PerpFill(e, q, slip).price = IF -q < 0 THEN e.perp_mid - slip
                                                     ELSE e.perp_mid + slip
  <1>1. seen \in Nat /\ e.id = seen /\ e.time \in Nat /\ e.perp_mid \in Nat /\ SpotMid \in Nat
    BY MarketEvent, Chosen DEF RunnerTypeOK
  <1>2. <<seen, "spot">> \in Nat \X EventKinds /\ <<seen, "perp">> \in Nat \X EventKinds
    BY <1>1 DEF EventKinds
  <1> DEFINE price == IF -q < 0 THEN e.perp_mid - slip ELSE e.perp_mid + slip
  <1>3. price \in Int /\ -q \in Int
    BY <1>1
  <1>4. SpotFill(e, q, slip) = [id |-> <<seen, "spot">>, time |-> e.time, market |-> "spot",
                                quantity |-> q, price |-> SpotMid, reference_mid |-> SpotMid]
    BY <1>1 DEF SpotFill, LegFill
  <1>5. PerpFill(e, q, slip) = [id |-> <<seen, "perp">>, time |-> e.time, market |-> "perp",
                                quantity |-> -q, price |-> price, reference_mid |-> e.perp_mid]
    BY <1>1 DEF PerpFill, LegFill
  <1> HIDE DEF price
  <1>6. SpotFill(e, q, slip) \in FillType /\ PerpFill(e, q, slip) \in FillType
    BY <1>1, <1>2, <1>3, <1>4, <1>5 DEF FillType, Market
  <1>7. PerpFill(e, q, slip).price = price
    BY <1>5
  <1> QED BY <1>4, <1>5, <1>6, <1>7 DEF price

\* What a pair of fills that is not refused makes of the ledger.
LEMMA PairBooked ==
    ASSUME RunnerTypeOK, NEW t \in EventTimes, NEW e \in MarketEvents(t),
           NEW q \in Int, NEW slip \in Nat, FillRefusal(e, q, slip) = NoError
    PROVE  LET price == PerpFill(e, q, slip).price
           IN  /\ Proposed(e, q, slip) \in LedgerType
               /\ Proposed(e, q, slip).spot = Traded(ledger.spot, q, SpotMid)
               /\ Proposed(e, q, slip).perp = Traded(ledger.perp, -q, price)
               /\ Proposed(e, q, slip).cash
                     = FinancedBy(e).cash - q * SpotMid - Fee("spot", e.time, q, SpotMid)
                         + Realized(ledger.perp, -q, price) - Fee("perp", e.time, -q, price)
               /\ Proposed(e, q, slip).event_ids
                     = ledger.event_ids \cup {<<seen, "finance">>, <<seen, "spot">>, <<seen, "perp">>}
               /\ Proposed(e, q, slip).next_funding = ledger.next_funding
               /\ Proposed(e, q, slip).last_funding = ledger.last_funding
               /\ Quotable("spot", e.time) # {} /\ Quotable("perp", e.time) # {}
  <1> DEFINE l == FinancedBy(e)
             spot == SpotFill(e, q, slip)
             perp == PerpFill(e, q, slip)
             half == Filled(l, spot)
             full == Filled(half, perp)
  <1>1. /\ spot \in FillType /\ spot.id = <<seen, "spot">> /\ spot.market = "spot"
        /\ spot.time = e.time /\ spot.quantity = q /\ spot.price = SpotMid
        /\ perp \in FillType /\ perp.id = <<seen, "perp">> /\ perp.market = "perp"
        /\ perp.time = e.time /\ perp.quantity = -q
    BY FillsAreTyped
  <1>2. /\ l \in LedgerType /\ l.spot = ledger.spot /\ l.perp = ledger.perp
        /\ l.event_ids = ledger.event_ids \cup {<<seen, "finance">>}
        /\ l.next_funding = ledger.next_funding /\ l.last_funding = ledger.last_funding
    BY FinancedEvent
  <1>3. FillError(l, spot) = NoError /\ FillError(half, perp) = NoError
    BY DEF FillRefusal
  <1>4. Proposed(e, q, slip) = full
    BY DEF Proposed
  <1> HIDE DEF l, spot, perp
  <1>5. Quotable(spot.market, spot.time) # {}
    BY <1>3 DEF FillError, NoError
  <1>6. /\ half \in LedgerType
        /\ half.spot = Traded(l.spot, q, SpotMid) /\ half.perp = l.perp
        /\ half.cash = l.cash - q * SpotMid - Fee("spot", e.time, q, SpotMid)
        /\ half.event_ids = l.event_ids \cup {spot.id}
        /\ half.next_funding = l.next_funding
        /\ half.last_funding = l.last_funding
    BY <1>1, <1>2, <1>5, SpotFilled
  <1> HIDE DEF half
  <1>7. Quotable(perp.market, perp.time) # {}
    BY <1>3 DEF FillError, NoError
  <1>8. /\ full \in LedgerType
        /\ full.perp = Traded(half.perp, -q, perp.price) /\ full.spot = half.spot
        /\ full.cash = half.cash + Realized(half.perp, -q, perp.price)
                                 - Fee("perp", e.time, -q, perp.price)
        /\ full.event_ids = half.event_ids \cup {perp.id}
        /\ full.next_funding = half.next_funding
        /\ full.last_funding = half.last_funding
    <2>1. half \in LedgerType /\ perp \in FillType /\ perp.market = "perp"
      BY <1>1, <1>6
    <2>2. /\ full \in LedgerType
          /\ full.perp = Traded(half.perp, perp.quantity, perp.price) /\ full.spot = half.spot
          /\ full.cash = half.cash + Realized(half.perp, perp.quantity, perp.price)
                                   - Fee("perp", perp.time, perp.quantity, perp.price)
          /\ full.event_ids = half.event_ids \cup {perp.id}
          /\ full.next_funding = half.next_funding
          /\ full.last_funding = half.last_funding
      BY <1>7, <2>1, PerpFilled
    <2> QED BY <1>1, <2>2
  <1> HIDE DEF full
  <1>9. full.event_ids
            = ledger.event_ids \cup {<<seen, "finance">>, <<seen, "spot">>, <<seen, "perp">>}
    BY <1>1, <1>2, <1>6, <1>8
  <1>10. Quotable("spot", e.time) # {} /\ Quotable("perp", e.time) # {}
    BY <1>1, <1>5, <1>7
  <1>11. full.cash = l.cash - q * SpotMid - Fee("spot", e.time, q, SpotMid)
                       + Realized(ledger.perp, -q, perp.price) - Fee("perp", e.time, -q, perp.price)
    BY <1>2, <1>6, <1>8
  <1>12. /\ full.spot = Traded(ledger.spot, q, SpotMid)
         /\ full.perp = Traded(ledger.perp, -q, perp.price)
    BY <1>2, <1>6, <1>8
  <1> QED BY <1>2, <1>4, <1>6, <1>8, <1>9, <1>10, <1>11, <1>12 DEF l, perp

\* The lot of an entry, or of the exit from what is held.
LotOf(q) ==
    \/ position = NoPosition /\ q \in Nat \ {0}
    \/ position # NoPosition /\ q = ledger.perp.quantity

LEMMA LegsAreOpposite ==
    ASSUME RunnerTypeOK, LegsInv, NEW q, LotOf(q)
    PROVE  /\ ledger.spot \in LegType /\ ledger.perp \in LegType
           /\ ledger.perp.quantity \in Int /\ ledger.perp.quantity <= 0
           /\ ledger.spot.quantity = -ledger.perp.quantity
           /\ q \in Int /\ q # 0
           /\ ledger.spot.quantity + q >= 0 /\ ledger.perp.quantity + (-q) <= 0
  <1>1. /\ ledger.spot \in LegType /\ ledger.perp \in LegType
        /\ ledger.perp.quantity \in Int
    BY DEF RunnerTypeOK, LedgerType, LegType
  <1>2. /\ ledger.perp.quantity <= 0
        /\ ledger.spot.quantity = -ledger.perp.quantity
        /\ position = NoPosition <=> ledger.perp.quantity = 0
    BY DEF LegsInv, LegsPaired
  <1>3. CASE position = NoPosition /\ q \in Nat \ {0}
    BY <1>1, <1>2, <1>3
  <1>4. CASE position # NoPosition /\ q = ledger.perp.quantity
    BY <1>1, <1>2, <1>4
  <1> QED BY <1>3, <1>4 DEF LotOf

\* The ledger takes both fills of a decision, if the fee schedule covers its time.
LEMMA PairIsTaken ==
    ASSUME RunnerTypeOK, ScheduleInv, LegsInv,
           NEW t \in EventTimes, NEW e \in MarketEvents(t), MarketAccepted(e), e.decide,
           NEW q, LotOf(q), NEW slip \in Nat
    PROVE  FillRefusal(e, q, slip) \in {NoError, "no_fee"}
  <1> DEFINE l == FinancedBy(e)
             spot == SpotFill(e, q, slip)
             perp == PerpFill(e, q, slip)
             half == Filled(l, spot)
  <1>1. /\ ledger.perp.quantity \in Int /\ ledger.spot.quantity = -ledger.perp.quantity
        /\ q \in Int /\ q # 0
        /\ ledger.spot.quantity + q >= 0 /\ ledger.perp.quantity + (-q) <= 0
    BY LegsAreOpposite
  <1>2. /\ spot \in FillType /\ spot.id = <<seen, "spot">> /\ spot.market = "spot"
        /\ spot.time = e.time /\ spot.quantity = q
        /\ perp \in FillType /\ perp.id = <<seen, "perp">> /\ perp.market = "perp"
        /\ perp.time = e.time /\ perp.quantity = -q
    BY <1>1, FillsAreTyped
  <1>3. /\ l \in LedgerType /\ l.spot = ledger.spot /\ l.perp = ledger.perp
        /\ l.event_ids = ledger.event_ids \cup {<<seen, "finance">>}
        /\ l.time = e.time
        /\ l.next_funding = ledger.next_funding /\ l.last_funding = ledger.last_funding
    BY FinancedEvent
  <1>4. /\ e.time \in Nat /\ e.time = ledger.last_funding + Delay
        /\ ledger.next_funding = ledger.last_funding + Cadence
        /\ ledger.last_funding \in Nat
    BY AcceptedEvent, MarketEvent
  <1>5. ~(e.time >= ledger.next_funding)
        /\ ~(ledger.next_funding - e.time <= Guard) /\ ~(e.time - ledger.last_funding <= Guard)
    BY <1>4, Configured
  <1>6. /\ <<seen, "spot">> \notin ledger.event_ids \cup {<<seen, "finance">>}
        /\ <<seen, "perp">> \notin ledger.event_ids \cup {<<seen, "finance">>, <<seen, "spot">>}
    <2>1. seen \in Nat /\ \A id \in ledger.event_ids : id[1] < seen
      BY DEF RunnerTypeOK
    <2>2. <<seen, "spot">>[1] = seen /\ <<seen, "perp">>[1] = seen
      OBVIOUS
    <2>3. <<seen, "spot">> \notin ledger.event_ids /\ <<seen, "perp">> \notin ledger.event_ids
      BY <2>1, <2>2
    <2> QED BY <2>3
  <1> HIDE DEF l, spot, perp, half
  <1>7. FillError(l, spot) = IF Quotable("spot", e.time) = {} THEN "no_fee" ELSE NoError
    <2>1. ~Misplaced(l, spot)
      BY <1>2, <1>3, <1>4, <1>6 DEF Misplaced
    <2>2. ~Reverses("spot", l.spot, q)
      BY <1>1, <1>3 DEF Reverses
    <2> QED BY <1>1, <1>2, <1>3, <1>5, <2>1, <2>2 DEF FillError
  <1>8. ASSUME FillError(l, spot) = NoError
        PROVE  FillError(half, perp) = IF Quotable("perp", e.time) = {} THEN "no_fee" ELSE NoError
    <2>1. Quotable(spot.market, spot.time) # {}
      BY <1>2, <1>7, <1>8 DEF NoError
    <2>2. /\ half.perp = l.perp /\ half.event_ids = l.event_ids \cup {spot.id}
          /\ half.time = spot.time
          /\ half.next_funding = l.next_funding /\ half.last_funding = l.last_funding
      BY <1>2, <1>3, <2>1, SpotFilled DEF half
    <2>3. ~Misplaced(half, perp)
      BY <1>2, <1>3, <1>4, <1>6, <2>2 DEF Misplaced
    <2>4. ~Ambiguous(half, e.time)
      BY <1>3, <1>5, <2>2 DEF Ambiguous
    <2>5. ~Reverses("perp", half.perp, -q)
      BY <1>1, <1>3, <2>2 DEF Reverses
    <2>6. -q # 0
      BY <1>1
    <2> QED BY <1>2, <1>3, <1>5, <2>2, <2>3, <2>4, <2>5, <2>6 DEF FillError
  <1>9. FillRefusal(e, q, slip) =
            IF FillError(l, spot) # NoError THEN FillError(l, spot) ELSE FillError(half, perp)
    BY DEF FillRefusal, l, spot, perp, half
  <1> QED BY <1>7, <1>8, <1>9

\* An entry opens both legs alike.
LEMMA PairOpens ==
    ASSUME RunnerTypeOK, LegsInv, position = NoPosition,
           NEW t \in EventTimes, NEW e \in MarketEvents(t),
           NEW q \in Nat \ {0}, NEW slip \in Nat, FillRefusal(e, q, slip) = NoError
    PROVE  /\ Proposed(e, q, slip).spot.quantity = q
           /\ Proposed(e, q, slip).perp.quantity = -q
           /\ Proposed(e, q, slip).perp.basis = -(q * (e.perp_mid - slip))
           /\ Proposed(e, q, slip).cash
                 = FinancedBy(e).cash - q * SpotMid - Fee("spot", e.time, q, SpotMid)
                     - Fee("perp", e.time, -q, e.perp_mid - slip)
  <1> DEFINE P == Proposed(e, q, slip)
             price == e.perp_mid - slip
  <1>1. e.perp_mid \in Nat /\ SpotMid \in Nat /\ e.time \in Nat
    BY MarketEvent, Chosen
  <1>2. price \in Int /\ PerpFill(e, q, slip).price = price
    BY <1>1, FillsAreTyped
  <1> HIDE DEF price
  <1>3. /\ P.spot = Traded(ledger.spot, q, SpotMid)
        /\ P.perp = Traded(ledger.perp, -q, price)
        /\ P.cash = FinancedBy(e).cash - q * SpotMid - Fee("spot", e.time, q, SpotMid)
                         + Realized(ledger.perp, -q, price) - Fee("perp", e.time, -q, price)
        /\ Quotable("spot", e.time) # {} /\ Quotable("perp", e.time) # {}
    BY <1>2, PairBooked
  <1> HIDE DEF P
  <1>4. /\ ledger.perp.quantity = 0 /\ ledger.spot.quantity = 0
        /\ ledger.perp.basis = 0 /\ ledger.spot.basis = 0
        /\ ledger.spot \in LegType /\ ledger.perp \in LegType
    BY DEF LegsInv, LegsPaired, RunnerTypeOK, LedgerType
  <1>5. ~Closes(ledger.perp, -q) /\ ~Closes(ledger.spot, q)
    BY <1>4 DEF Closes
  <1>6. Realized(ledger.perp, -q, price) = 0
    BY <1>5 DEF Realized
  <1>7. P.spot.quantity = q /\ P.perp.quantity = -q
    BY <1>1, <1>2, <1>3, <1>4, TradeIsTyped
  <1>8. P.perp.basis = -(q * price)
    <2>1. P.perp.basis = ledger.perp.basis + (-q) * price
      <3> DEFINE n == -q
      <3>1. n \in Int
        OBVIOUS
      <3>2. P.perp = Traded(ledger.perp, n, price) /\ ~Closes(ledger.perp, n)
        BY <1>3, <1>5
      <3> HIDE DEF n
      <3>3. P.perp.basis = ledger.perp.basis + n * price
        BY <1>2, <1>4, <3>1, <3>2, TradeIsTyped
      <3> QED BY <3>3 DEF n
    <2>2. (-q) * price = -(q * price) /\ q * price \in Int
      BY <1>2
    <2> QED BY <1>4, <2>1, <2>2
  <1>9. P.cash = FinancedBy(e).cash - q * SpotMid - Fee("spot", e.time, q, SpotMid)
                   - Fee("perp", e.time, -q, price)
    <2>1. FinancedBy(e).cash \in Int
      BY FinancedEvent DEF LedgerType
    <2>2. Fee("spot", e.time, q, SpotMid) \in Int /\ Fee("perp", e.time, -q, price) \in Int
      <3>1. "spot" \in Market /\ "perp" \in Market /\ -q \in Int /\ q \in Int /\ SpotMid \in Int
        BY <1>1 DEF Market
      <3>2. Fee("spot", e.time, q, SpotMid) \in Int
        BY <1>1, <1>3, <3>1, FeeIsInt
      <3> QED BY <1>1, <1>2, <1>3, <3>1, <3>2, FeeIsInt
    <2>3. q * SpotMid \in Int
      BY <1>1
    <2> QED BY <1>3, <1>6, <2>1, <2>2, <2>3
  <1> QED BY <1>7, <1>8, <1>9 DEF P, price

\* An exit leaves neither leg nor basis.
LEMMA PairCloses ==
    ASSUME RunnerTypeOK, LegsInv, position # NoPosition,
           NEW t \in EventTimes, NEW e \in MarketEvents(t), NEW slip \in Nat,
           FillRefusal(e, ledger.perp.quantity, slip) = NoError
    PROVE  LET P == Proposed(e, ledger.perp.quantity, slip)
           IN  /\ P.spot.quantity = 0 /\ P.perp.quantity = 0
               /\ P.spot.basis = 0 /\ P.perp.basis = 0
  <1> DEFINE q == ledger.perp.quantity
             P == Proposed(e, q, slip)
             price == PerpFill(e, q, slip).price
  <1>1. /\ q \in Int /\ q < 0 /\ ledger.spot.quantity = -q
        /\ ledger.spot \in LegType /\ ledger.perp \in LegType
    <2>1. ledger \in LedgerType
      BY DEF RunnerTypeOK
    <2>2. ledger.spot \in LegType /\ ledger.perp \in LegType
      BY <2>1 DEF LedgerType
    <2>3. q \in Int
      BY <2>2 DEF LegType
    <2>4. ledger.spot.quantity = -q /\ q # 0 /\ q <= 0
      BY DEF LegsInv, LegsPaired
    <2> QED BY <2>2, <2>3, <2>4
  <1>2. price \in Int /\ SpotMid \in Int
    BY <1>1, FillsAreTyped, Chosen DEF FillType
  <1>3. /\ P.spot = Traded(ledger.spot, q, SpotMid)
        /\ P.perp = Traded(ledger.perp, -q, price)
    BY <1>1, PairBooked
  <1> HIDE DEF P, price
  <1>4. Closes(ledger.spot, q) /\ Closes(ledger.perp, -q)
    <2>1. PICK n \in Nat \ {0} : q = -n
      BY <1>1, -q \in Nat \ {0}, q = -(-q)
    <2>2. n * n > 0 /\ (-q) * q = -(n * n) /\ q * (-q) = -(n * n)
      BY <2>1
    <2> HIDE DEF q
    <2>3. (-q) * q < 0 /\ q * (-q) < 0
      BY <2>2
    <2> QED BY <1>1, <2>3 DEF Closes, q
  <1>5. /\ P.spot.quantity = -q + q
        /\ P.spot.basis = (-q + q) * Average(ledger.spot)
    BY <1>1, <1>2, <1>3, <1>4, TradeIsTyped
  <1>6. /\ P.perp.quantity = q + (-q)
        /\ P.perp.basis = (q + (-q)) * Average(ledger.perp)
    BY <1>1, <1>2, <1>3, <1>4, TradeIsTyped
  <1>7. P.spot.basis \in Int /\ P.perp.basis \in Int
    BY <1>1, <1>2, <1>3, TradeIsTyped DEF LegType
  <1>8. /\ Average(ledger.spot) \in Int /\ Average(ledger.perp) \in Int
    BY <1>1, AverageIsInt
  <1>9. -q + q = 0 /\ q + (-q) = 0
    BY <1>1
  <1> HIDE DEF q
  <1> QED BY <1>5, <1>6, <1>8, <1>9 DEF P, q
------------------------------------------------------------------------------
(* Capital. *)

LEMMA CoveredWhenFlat ==
    ASSUME NEW l \in LedgerType, NEW mark \in Int, Covers(l, mark),
           l.perp.quantity = 0, l.perp.basis = 0
    PROVE  l.cash >= 0
  <1>1. l.cash \in Int
    BY DEF LedgerType
  <1>2. Unrealized(l.perp, mark) = 0
    BY DEF Unrealized
  <1>3. -l.perp.quantity * mark * Collateral = 0
    BY Configured
  <1>4. 0 \div Parts = 0
    BY Configured
  <1>5. l.cash + 0 >= 0
    BY <1>2, <1>3, <1>4 DEF Covers
  <1> QED BY <1>1, <1>5

\* What the sizing cap lets through is covered after its fills, at any slip of the curve.
LEMMA SizedIsCovered ==
    ASSUME RunnerTypeOK, LegsInv, position = NoPosition,
           NEW t \in EventTimes, NEW e \in MarketEvents(t),
           NEW q \in Affordable(e), NEW slip \in Slips, FillRefusal(e, q, slip) = NoError
    PROVE  Covers(Proposed(e, q, slip), e.mark)
  <1> DEFINE P == Proposed(e, q, slip)
             cash == FinancedBy(e).cash
             spotFee == Fee("spot", e.time, q, SpotMid)
             perpFee == Fee("perp", e.time, q, e.perp_mid)
             paidFee == Fee("perp", e.time, -q, e.perp_mid - slip)
             reserve == (q * e.mark * Collateral) \div Parts
             adverse == IF e.mark > e.perp_mid THEN e.mark - e.perp_mid ELSE 0
  <1>1. /\ q \in Nat \ {0} /\ slip \in Nat /\ slip <= WorstSlip /\ WorstSlip \in Nat
        /\ SpotMid \in Nat /\ e.perp_mid \in Nat /\ e.mark \in Nat /\ e.time \in Nat
        /\ Collateral \in Nat
    BY MarketEvent, Chosen, Configured DEF Affordable
  <1>2. /\ P.perp.quantity = -q
        /\ P.perp.basis = -(q * (e.perp_mid - slip))
        /\ P.cash = cash - q * SpotMid - spotFee - paidFee
    BY <1>1, PairOpens
  <1>3. Quotable("spot", e.time) # {} /\ Quotable("perp", e.time) # {}
    BY <1>1, PairBooked
  <1>4. spotFee \in Int /\ perpFee \in Int /\ paidFee \in Int /\ paidFee <= perpFee
    <2>1. "spot" \in Market /\ "perp" \in Market /\ q \in Int /\ -q \in Int
      BY <1>1 DEF Market
    <2>2. spotFee \in Int
      BY <1>1, <1>3, <2>1, FeeIsInt
    <2>3. perpFee \in Int
      BY <1>1, <1>3, <2>1, FeeIsInt
    <2>4. e.perp_mid - slip \in Int /\ e.perp_mid - slip <= e.perp_mid
      BY <1>1
    <2>5. paidFee \in Int
      BY <1>3, <1>1, <2>1, <2>4, FeeIsInt
    <2>6. paidFee <= perpFee
      BY <1>1, <1>3, <2>1, <2>4, FeeIsInt
    <2> QED BY <2>2, <2>3, <2>5, <2>6
  <1>5. reserve \in Int /\ cash \in Int
    <2>1. q * e.mark * Collateral \in Int
      BY <1>1
    <2>2. reserve \in Int
      BY <2>1, Configured, DivMod
    <2>3. cash \in Int
      BY FinancedEvent DEF LedgerType
    <2> QED BY <2>2, <2>3
  <1>6. q * SpotMid + spotFee + reserve + q * adverse + q * WorstSlip + perpFee <= cash
    BY DEF Affordable, WorstCost
  <1>7. Unrealized(P.perp, e.mark) = -(q * e.mark) + q * e.perp_mid - q * slip
    <2>1. P.perp.quantity * e.mark = -(q * e.mark)
      BY <1>1, <1>2
    <2>2. q * (e.perp_mid - slip) = q * e.perp_mid - q * slip
      BY <1>1
    <2>3. q * e.mark \in Int /\ q * e.perp_mid \in Int /\ q * slip \in Int
      BY <1>1
    <2> QED BY <1>2, <2>1, <2>2, <2>3 DEF Unrealized
  <1>8. (-P.perp.quantity * e.mark * Collateral) \div Parts = reserve
    <2>1. -P.perp.quantity * e.mark * Collateral = q * e.mark * Collateral
      BY <1>1, <1>2
    <2> QED BY <2>1
  <1>9. /\ q * slip <= q * WorstSlip /\ q * slip \in Int /\ q * WorstSlip \in Int
        /\ q * (e.mark - e.perp_mid) <= q * adverse /\ q * adverse \in Int
        /\ q * (e.mark - e.perp_mid) = q * e.mark - q * e.perp_mid
        /\ q * e.mark \in Int /\ q * e.perp_mid \in Int /\ q * SpotMid \in Int
    <2>1. adverse \in Int /\ e.mark - e.perp_mid \in Int /\ e.mark - e.perp_mid <= adverse
      BY <1>1
    <2>2. q * slip <= q * WorstSlip
      BY <1>1, ProductIsMonotone
    <2>3. q * (e.mark - e.perp_mid) <= q * adverse
      BY <1>1, <2>1, ProductIsMonotone
    <2>4. q * (e.mark - e.perp_mid) = q * e.mark - q * e.perp_mid
      BY <1>1
    <2> HIDE DEF adverse
    <2>5. q * adverse \in Int /\ q * slip \in Int /\ q * WorstSlip \in Int
          /\ q * e.mark \in Int /\ q * e.perp_mid \in Int /\ q * SpotMid \in Int
      BY <1>1, <2>1
    <2> QED BY <2>2, <2>3, <2>4, <2>5
  <1> HIDE DEF P, cash, spotFee, perpFee, paidFee, reserve, adverse
  <1> DEFINE spot == q * SpotMid
             worst == q * WorstSlip
             slipped == q * slip
             marked == q * e.mark
             sold == q * e.perp_mid
             moved == q * adverse
  <1>10. /\ spot + spotFee + reserve + moved + worst + perpFee <= cash
         /\ P.cash = cash - spot - spotFee - paidFee
         /\ Unrealized(P.perp, e.mark) = -marked + sold - slipped
         /\ slipped <= worst /\ marked - sold <= moved
         /\ spot \in Int /\ worst \in Int /\ slipped \in Int /\ marked \in Int /\ sold \in Int
         /\ moved \in Int
    BY <1>2, <1>6, <1>7, <1>9
  <1> HIDE DEF spot, worst, slipped, marked, sold, moved
  <1>11. P.cash + Unrealized(P.perp, e.mark) >= reserve
    BY <1>4, <1>5, <1>10
  <1> QED BY <1>8, <1>11 DEF Covers, P
------------------------------------------------------------------------------
(* The steps. *)

LEMMA InitInv == RunnerInit => RunnerInv
  <1> SUFFICES ASSUME RunnerInit PROVE RunnerInv
    OBVIOUS
  <1>1. ledger = [initial |-> Capital, cash |-> Capital, next_funding |-> Start,
                  time |-> 0, last_funding |-> Never, event_ids |-> {},
                  spot |-> FlatLeg, perp |-> FlatLeg,
                  funding |-> 0, fees |-> 0, financing |-> 0, execution_cost |-> 0]
    BY DEF RunnerInit, NewLedger
  <1>2. FlatLeg \in LegType
    BY DEF FlatLeg, LegType
  <1>3. ledger \in LedgerType
    BY <1>1, <1>2, Configured DEF LedgerType
  <1>4. /\ ledger.last_funding = Never /\ ledger.next_funding = Start
        /\ ledger.cash = Capital /\ ledger.event_ids = {}
        /\ ledger.spot = FlatLeg /\ ledger.perp = FlatLeg
    BY <1>1
  <1>5. RunnerTypeOK
    <2>1. NoPosition \in PositionType
      BY DEF NoPosition, PositionType
    <2>2. mode \in {"inferred", "book"}
      BY Chosen DEF RunnerInit
    <2>3. Start + Delay \in Nat
      BY Configured
    <2>4. fold_curves \in Seq(Seals) /\ trades \in Seq(TradeType)
      BY DEF RunnerInit
    <2> QED BY <1>3, <1>4, <2>1, <2>2, <2>3, <2>4, Configured DEF RunnerTypeOK, RunnerInit
  <1>6. ScheduleInv
    BY <1>4, Configured, StartIsSettlement
    DEF ScheduleInv, OneDecisionPerSettlement, RunnerInit
  <1>7. PositionInv
    BY DEF PositionInv, HeldForThePlan, RunnerInit
  <1>8. LegsInv
    <2>1. Len(trades) = 0 /\ 0 % 2 = 0
      BY DEF RunnerInit
    <2>2. /\ ledger.perp.quantity = 0 /\ ledger.perp.basis = 0
          /\ ledger.spot.quantity = 0 /\ ledger.spot.basis = 0 /\ ledger.cash >= 0
      BY <1>4, Configured DEF FlatLeg
    <2>3. position = NoPosition /\ Len(trades) % 2 = 0
      BY <2>1 DEF RunnerInit
    <2>4. ledger.spot.quantity = -ledger.perp.quantity /\ ledger.perp.quantity <= 0
      <3>1. (\A x, y \in Int : x + y = 0 => x = -y) /\ 0 + 0 = 0 /\ 0 <= 0
        OBVIOUS
      <3>2. ledger.spot.quantity = 0 /\ ledger.perp.quantity = 0 /\ 0 \in Int
        BY <2>2
      <3> QED BY <3>1, <3>2, Zenon
    <2> HIDE DEF RunnerInit
    <2> QED BY <2>2, <2>3, <2>4, Zenon DEF LegsInv, LegsPaired
  <1>9. SealsInv
    BY DEF SealsInv, RunnerInit
  <1>10. FillsAreNeverRefused /\ SizedEntriesAreAffordable
    BY DEF FillsAreNeverRefused, SizedEntriesAreAffordable, RunnerInit, NoError
  <1> QED BY <1>5, <1>6, <1>7, <1>8, <1>9, <1>10 DEF RunnerInv

\* A stream that fails leaves what was accounted.
LEMMA FailInv ==
    ASSUME RunnerInv, NEW why, why # "fill_refused", Fails(why)
    PROVE  RunnerInv'
  BY DEF RunnerInv, Fails, scheduleVars, RunnerTypeOK, ScheduleInv, OneDecisionPerSettlement,
         PositionInv, HeldForThePlan, LegsInv, LegsPaired, SealsInv, Rests,
         FillsAreNeverRefused, SizedEntriesAreAffordable

LEMMA WarmupInv ==
    ASSUME RunnerInv, NEW t \in EventTimes, NEW e \in FundingEvents(t), FundingWarmup(e)
    PROVE  RunnerInv'
  <1>1. /\ ~(e.time < last_time) /\ ~(e.time >= End) /\ e.time < Start
        /\ e.time = next_observation /\ e.interval = Interval
    BY DEF FundingWarmup, OutOfStream, Misscheduled
  <1>2. /\ last_time' = e.time /\ seen' = seen + 1
        /\ next_observation' = next_observation + e.interval * Hour
        /\ mode' = mode /\ ledger' = ledger /\ position' = position
        /\ next_decision' = next_decision /\ fold_curves' = fold_curves
        /\ decision' = decision /\ failure' = failure /\ trades' = trades
    BY DEF FundingWarmup
  <1>3. /\ last_time \in Nat /\ next_observation \in Nat /\ next_decision \in Nat /\ seen \in Nat
        /\ ledger.last_funding \in Nat \cup {Never}
    BY DEF RunnerInv, RunnerTypeOK, LedgerType
  <1>4. next_observation' = next_observation + Cadence
    BY <1>1, <1>2 DEF Cadence
  <1>5. ledger.last_funding = Never
    BY <1>1, <1>3, Configured DEF RunnerInv, ScheduleInv
  <1>6. next_observation % Cadence = 0
    BY DEF RunnerInv, ScheduleInv
  <1>7. next_observation' <= Start /\ next_observation' % Cadence = 0
    BY <1>1, <1>3, <1>4, <1>6, Configured, StartIsSettlement, MultiplesAreApart, NextMultiple
  <1>8. RunnerTypeOK'
    <2>1. \A id \in ledger.event_ids : id[1] < seen + 1
      <3>1. ASSUME NEW id \in ledger.event_ids PROVE id[1] < seen + 1
        <4>1. id[1] \in Nat /\ id[1] < seen
          BY DEF RunnerInv, RunnerTypeOK, LedgerType
        <4> QED BY <1>3, <4>1
      <3> QED BY <3>1
    <2>2. next_observation' \in Nat /\ e.time \in Nat /\ seen + 1 \in Nat
      BY <1>1, <1>3, <1>4, Configured
    <2> QED BY <1>2, <2>1, <2>2 DEF RunnerInv, RunnerTypeOK
  <1>9. ScheduleInv'
    <2>1. OneDecisionPerSettlement'
      BY <1>2, <1>5, <1>7 DEF RunnerInv, ScheduleInv, OneDecisionPerSettlement
    <2>2. last_time' < End /\ last_time' < Start
      BY <1>1, <1>2, <1>3, Configured
    <2> QED BY <1>2, <1>5, <1>7, <2>1, <2>2 DEF ScheduleInv
  <1>10. PositionInv' /\ LegsInv' /\ SealsInv' /\ FillsAreNeverRefused'
         /\ SizedEntriesAreAffordable'
    BY <1>2, <1>5 DEF RunnerInv, ScheduleInv, OneDecisionPerSettlement, PositionInv,
       HeldForThePlan, LegsInv, LegsPaired, SealsInv, Rests, FillsAreNeverRefused,
       SizedEntriesAreAffordable
  <1> QED BY <1>8, <1>9, <1>10 DEF RunnerInv

LEMMA SettlesInv ==
    ASSUME RunnerInv, NEW t \in EventTimes, NEW e \in FundingEvents(t), FundingSettles(e)
    PROVE  RunnerInv'
  <1>1. /\ ~(e.time < last_time) /\ ~(e.time >= End) /\ e.time >= Start
        /\ ~(e.time >= Start /\ e.time > next_decision)
        /\ e.time = next_observation /\ e.interval = Interval /\ e.time = ledger.next_funding
    <2>1. ~OutOfStream(e) /\ ~Misscheduled(e) /\ e.time >= Start
      BY DEF FundingSettles
    <2>2. SettleError(ledger, Settlement(e)) = NoError /\ Settlement(e).time = e.time
      BY DEF FundingSettles, Settlement
    <2>3. e.time = ledger.next_funding
      BY <2>2 DEF SettleError, NoError
    <2> QED BY <2>1, <2>3 DEF OutOfStream, Misscheduled
  <1>2. /\ last_time' = e.time /\ seen' = seen + 1
        /\ next_observation' = next_observation + e.interval * Hour
        /\ ledger' = Settled(ledger, Settlement(e))
        /\ Covers(ledger', e.mark)
        /\ mode' = mode /\ next_decision' = next_decision /\ fold_curves' = fold_curves
        /\ decision' = "none" /\ failure' = failure /\ trades' = trades
        /\ position' = IF position = NoPosition THEN position
                       ELSE [position EXCEPT !.held = @ + 1]
    BY DEF FundingSettles
  <1>3. /\ last_time \in Nat /\ next_observation \in Nat /\ next_decision \in Nat /\ seen \in Nat
        /\ ledger \in LedgerType /\ ledger.last_funding \in Nat \cup {Never}
        /\ position \in PositionType
    BY DEF RunnerInv, RunnerTypeOK, LedgerType
  <1>4. /\ e.id \in {seen - 1, seen} /\ ~(e.id < seen) /\ e.mark \in Marks \cup {0}
        /\ e.rate \in Rates
    BY DEF FundingEvents, FundingSettles, OutOfStream
  <1>5. e.id = seen /\ e.mark \in Int /\ e.rate \in Int /\ e.time \in Nat /\ Interval \in Nat
    <2>1. Interval \in Nat
      BY ConfigAssumption DEF ValidConfig
    <2>2. Marks \subseteq Int /\ Rates \subseteq Int
      BY Chosen
    <2>3. e.mark \in Int /\ e.rate \in Int
      <3>1. 0 \in Int
        OBVIOUS
      <3> QED BY <1>4, <2>2, <3>1, Zenon
    <2> QED BY <1>1, <1>3, <1>4, <2>1, <2>3
  <1>6. /\ ledger' \in LedgerType
        /\ ledger'.spot = ledger.spot /\ ledger'.perp = ledger.perp
        /\ ledger'.event_ids = ledger.event_ids \cup {<<seen, "funding">>}
        /\ ledger'.next_funding = e.time + Cadence
        /\ ledger'.last_funding = e.time
    <2>1. Settlement(e) = [id |-> <<seen, "funding">>, time |-> e.time, interval |-> Interval,
                           rate |-> e.rate, mark |-> e.mark]
      BY <1>1, <1>5 DEF Settlement
    <2>2. <<seen, "funding">> \in Nat \X EventKinds
      BY <1>3 DEF EventKinds
    <2> DEFINE s == Settlement(e)
    <2>3. /\ s.id = <<seen, "funding">> /\ s.time = e.time /\ s.interval = Interval
          /\ s.rate = e.rate /\ s.mark = e.mark
      BY <2>1
    <2>4. ledger' = Settled(ledger, s)
      BY <1>2
    <2> HIDE DEF s
    <2> QED BY <1>3, <1>5, <2>2, <2>3, <2>4, SettledFields DEF Cadence
  <1>7. next_observation' = e.time + Cadence /\ next_observation' % Cadence = 0
    BY <1>1, <1>2, <1>3, Configured, NextMultiple DEF RunnerInv, ScheduleInv, Cadence
  <1>8. next_decision = e.time + Delay
    BY <1>1, <1>3, Configured DEF RunnerInv, ScheduleInv, OneDecisionPerSettlement
  <1>9. ledger.last_funding # Never =>
            /\ e.time = ledger.last_funding + Cadence
            /\ next_decision > ledger.last_funding + Delay
    BY <1>1, <1>3, <1>8, Configured DEF RunnerInv, ScheduleInv, OneDecisionPerSettlement
  <1>10. ASSUME position # NoPosition
         PROVE  /\ position.opened # Never /\ ledger.last_funding # Never
                /\ position.opened \in Nat /\ position.held \in Nat /\ position.planned \in Nat
                /\ position' = [position EXCEPT !.held = position.held + 1]
                /\ position'.held = position.held + 1 /\ position'.opened = position.opened
                /\ position'.planned = position.planned
                /\ position' # NoPosition /\ position' \in PositionType
    <2>1. position.opened # Never /\ ledger.last_funding # Never
      BY <1>10 DEF RunnerInv, PositionInv, ScheduleInv, OneDecisionPerSettlement
    <2>2. position.opened \in Nat /\ position.held \in Nat /\ position.planned \in Nat
      BY <1>3, <2>1 DEF PositionType
    <2>3. position' = [position EXCEPT !.held = position.held + 1]
      BY <1>2, <1>10
    <2>4. position'.held = position.held + 1 /\ position'.opened = position.opened
          /\ position'.planned = position.planned /\ position' \in PositionType
      BY <1>3, <2>3 DEF PositionType
    <2>5. position' # NoPosition
      BY <2>1, <2>4 DEF NoPosition
    <2> QED BY <2>1, <2>2, <2>3, <2>4, <2>5
  <1>11. RunnerTypeOK'
    <2>1. \A id \in ledger'.event_ids : id[1] < seen + 1
      <3>1. ASSUME NEW id \in ledger.event_ids PROVE id[1] < seen + 1
        <4>1. id[1] \in Nat /\ id[1] < seen
          BY DEF RunnerInv, RunnerTypeOK, LedgerType
        <4> QED BY <1>3, <4>1
      <3> QED BY <1>3, <1>6, <3>1
    <2>2. next_observation' \in Nat /\ seen + 1 \in Nat
      BY <1>3, <1>5, <1>7, Configured
    <2>3. position' \in PositionType
      BY <1>2, <1>3, <1>10
    <2> QED BY <1>2, <1>5, <1>6, <2>1, <2>2, <2>3 DEF RunnerInv, RunnerTypeOK
  <1>12. ScheduleInv'
    <2>1. OneDecisionPerSettlement'
      BY <1>2, <1>5, <1>6, <1>7, <1>8, Configured DEF OneDecisionPerSettlement, Never
    <2>2. last_time' < End /\ ledger'.last_funding # Never
      BY <1>1, <1>2, <1>5, <1>6, Configured DEF Never
    <2>3. /\ Start <= ledger'.last_funding /\ ledger'.last_funding <= last_time'
          /\ last_time' < next_decision'
      BY <1>1, <1>2, <1>5, <1>6, <1>8, Configured
    <2> QED BY <1>7, <2>1, <2>2, <2>3 DEF ScheduleInv
  <1>13. PositionInv'
    <2>1. ASSUME position' # NoPosition
          PROVE  /\ position'.opened + position'.held * Cadence = ledger'.last_funding + Delay
                 /\ position'.held <= position'.planned
                 /\ next_decision' > ledger'.last_funding + Delay
                       => position'.held < position'.planned
                 /\ position'.opened # Never
      <3>1. position # NoPosition
        BY <1>2, <2>1
      <3>2. /\ position.opened + position.held * Cadence = ledger.last_funding + Delay
            /\ position.held < position.planned
        BY <1>9, <1>10, <3>1 DEF RunnerInv, PositionInv, HeldForThePlan
      <3>3. (position.held + 1) * Cadence = position.held * Cadence + Cadence
            /\ position.held * Cadence \in Nat
        BY <1>10, <3>1, Configured
      <3>4. ledger.last_funding \in Nat /\ e.time = ledger.last_funding + Cadence
        BY <1>3, <1>9, <1>10, <3>1
      <3>5. position.opened + (position.held + 1) * Cadence = e.time + Delay
        BY <1>10, <3>1, <3>2, <3>3, <3>4, Configured
      <3>6. ~(next_decision' > ledger'.last_funding + Delay)
        BY <1>2, <1>3, <1>6, <1>8
      <3>7. position.held + 1 <= position.planned
        BY <1>10, <3>1, <3>2
      <3> QED BY <1>6, <1>10, <3>1, <3>5, <3>6, <3>7
    <2> QED BY <2>1 DEF PositionInv, HeldForThePlan
  <1>14. LegsInv'
    <2>1. position' = NoPosition <=> position = NoPosition
      BY <1>2, <1>10
    <2>2. position = NoPosition => ledger'.cash >= 0
      <3>1. position = NoPosition => ledger'.perp.quantity = 0 /\ ledger'.perp.basis = 0
        BY <1>6 DEF RunnerInv, LegsInv, LegsPaired
      <3> QED BY <1>2, <1>5, <1>6, <3>1, CoveredWhenFlat
    <2> QED BY <1>2, <1>6, <2>1, <2>2 DEF RunnerInv, LegsInv, LegsPaired
  <1>15. SealsInv' /\ FillsAreNeverRefused' /\ SizedEntriesAreAffordable'
    BY <1>2 DEF RunnerInv, SealsInv, Rests, FillsAreNeverRefused, SizedEntriesAreAffordable
  <1> QED BY <1>11, <1>12, <1>13, <1>14, <1>15 DEF RunnerInv
------------------------------------------------------------------------------
(* What every market event that is accepted keeps. *)

\* The ledger still expects the same settlement: what MarketEnds does to the schedule.
LEMMA MarketKeepsSchedule ==
    ASSUME RunnerTypeOK, ScheduleInv,
           NEW t \in EventTimes, NEW e \in MarketEvents(t), MarketAccepted(e), MarketEnds(e),
           ledger'.last_funding = ledger.last_funding,
           ledger'.next_funding = ledger.next_funding
    PROVE  /\ ScheduleInv'
           /\ last_time' \in Nat /\ next_observation' \in Nat /\ next_decision' \in Nat
           /\ seen' \in Nat /\ seen' = seen + 1
           /\ e.decide => next_decision' = ledger.last_funding + Delay + Cadence
           /\ ~e.decide => next_decision' = next_decision
  <1>1. /\ Start <= e.time /\ e.time < End /\ last_time <= e.time /\ e.time \in Nat
        /\ ledger.last_funding \in Nat /\ ledger.last_funding # Never
        /\ ledger.next_funding = ledger.last_funding + Cadence
        /\ next_observation = ledger.last_funding + Cadence
        /\ e.time <= next_decision
        /\ e.decide <=> e.time = next_decision
        /\ e.decide => next_decision = ledger.last_funding + Delay
    BY AcceptedEvent, MarketEvent
  <1>2. /\ last_time' = e.time /\ seen' = seen + 1 /\ next_observation' = next_observation
        /\ next_decision' = IF e.decide THEN next_decision + Cadence ELSE next_decision
    BY DEF MarketEnds
  <1>3. last_time \in Nat /\ next_observation \in Nat /\ next_decision \in Nat /\ seen \in Nat
    BY DEF RunnerTypeOK
  <1>4. /\ next_observation % Cadence = 0
        /\ \/ next_decision = next_observation + Delay
           \/ next_decision = ledger.last_funding + Delay
        /\ Start <= ledger.last_funding /\ ledger.last_funding <= last_time
    BY <1>1 DEF ScheduleInv, OneDecisionPerSettlement
  <1>5. CASE e.decide
    <2>1. next_decision' = ledger.last_funding + Delay + Cadence
      BY <1>1, <1>2, <1>5
    <2>2. next_decision' = next_observation' + Delay /\ next_decision' # ledger.last_funding + Delay
      BY <1>1, <1>2, <2>1, Configured
    <2>3. ScheduleInv'
      BY <1>1, <1>2, <1>3, <1>4, <2>2 DEF ScheduleInv, OneDecisionPerSettlement
    <2>4. next_decision' \in Nat
      BY <1>1, <2>1, Configured
    <2> QED BY <1>1, <1>2, <1>3, <1>5, <2>1, <2>3, <2>4
  <1>6. CASE ~e.decide
    <2>1. next_decision' = next_decision
      BY <1>2, <1>6
    <2>2. e.time < next_decision
      BY <1>1, <1>3, <1>6
    <2>3. ScheduleInv'
      BY <1>1, <1>2, <1>3, <1>4, <2>1, <2>2 DEF ScheduleInv, OneDecisionPerSettlement
    <2> QED BY <1>1, <1>2, <1>3, <1>6, <2>1, <2>3
  <1> QED BY <1>5, <1>6

\* The ids of the fills and charges of an event are those of the event.
LEMMA IdsAreOfThePast ==
    ASSUME RunnerTypeOK, seen' = seen + 1,
           ledger'.event_ids \subseteq
              ledger.event_ids \cup {<<seen, "finance">>, <<seen, "spot">>, <<seen, "perp">>}
    PROVE  \A id \in ledger'.event_ids : id[1] < seen'
  <1> SUFFICES ASSUME NEW id \in ledger'.event_ids PROVE id[1] < seen + 1
    OBVIOUS
  <1>1. seen \in Nat
    BY DEF RunnerTypeOK
  <1>2. CASE id \in ledger.event_ids
    <2>1. id[1] \in Nat /\ id[1] < seen
      BY <1>2 DEF RunnerTypeOK, LedgerType
    <2> QED BY <1>1, <2>1
  <1>3. CASE id \in {<<seen, "finance">>, <<seen, "spot">>, <<seen, "perp">>}
    <2>1. id[1] = seen
      BY <1>3
    <2> QED BY <1>1, <2>1
  <1> QED BY <1>2, <1>3

LEMMA AdmissibleEvent ==
    ASSUME RunnerTypeOK, NEW t \in EventTimes, NEW e \in MarketEvents(t), Admissible(e)
    PROVE  /\ e.opportunity.fold = FoldStart(e.time) /\ e.opportunity.fold \in Int
           /\ e.opportunity.curve \in Curves
           /\ e.opportunity.curve # NoOpportunity.curve
           /\ e.opportunity.curve.evidence_end <= FoldStart(e.time)
  BY MarketEvent, CurvesAssumption DEF Admissible

\* A fold is sealed once, with the curve that is admitted first.
LEMMA SealingKeepsSeals ==
    ASSUME RunnerTypeOK, SealsInv,
           NEW t \in EventTimes, NEW e \in MarketEvents(t), ~CurveChanged(e),
           fold_curves' = Sealed(e)
    PROVE  /\ fold_curves' \in Seq(Seals)
           /\ \A i, j \in 1 .. Len(fold_curves') :
                 fold_curves'[i].fold = fold_curves'[j].fold
                    => fold_curves'[i].sha = fold_curves'[j].sha
           /\ \A j \in 1 .. Len(fold_curves) :
                 j \in 1 .. Len(fold_curves') /\ fold_curves'[j] = fold_curves[j]
           /\ Admissible(e) =>
                 \E j \in 1 .. Len(fold_curves') :
                    /\ fold_curves'[j].fold = FoldStart(e.time)
                    /\ fold_curves'[j].sha = e.opportunity.curve.sha
  <1>1. /\ fold_curves \in Seq(Seals) /\ Len(fold_curves) \in Nat
        /\ \A i, j \in 1 .. Len(fold_curves) :
              fold_curves[i].fold = fold_curves[j].fold => fold_curves[i].sha = fold_curves[j].sha
    BY DEF RunnerTypeOK, SealsInv
  <1>2. CASE Admissible(e) /\ \A i \in 1 .. Len(fold_curves) :
                                 fold_curves[i].fold # e.opportunity.fold
    <2> DEFINE seal == [fold |-> e.opportunity.fold, sha |-> e.opportunity.curve.sha]
               n == Len(fold_curves)
    <2>1. seal \in Seals /\ seal.fold = FoldStart(e.time) /\ seal.sha = e.opportunity.curve.sha
      BY <1>2, AdmissibleEvent DEF Seals
    <2>2. fold_curves' = Append(fold_curves, seal)
      BY <1>2 DEF Sealed
    <2>3. \A i \in 1 .. n : fold_curves[i].fold # seal.fold
      BY <1>2
    <2> HIDE DEF seal
    <2>4. /\ fold_curves' \in Seq(Seals) /\ Len(fold_curves') = n + 1
          /\ fold_curves'[n + 1] = seal
          /\ \A i \in 1 .. n : fold_curves'[i] = fold_curves[i]
      BY <1>1, <2>1, <2>2
    <2>5. \A i \in 1 .. n + 1 : i \in 1 .. n \/ i = n + 1
      BY <1>1
    <2> HIDE DEF n
    <2>6. ASSUME NEW i \in 1 .. n + 1, NEW j \in 1 .. n + 1,
                 fold_curves'[i].fold = fold_curves'[j].fold
          PROVE  fold_curves'[i].sha = fold_curves'[j].sha
      BY <1>1, <2>3, <2>4, <2>5, <2>6 DEF n
    <2>7. n + 1 \in 1 .. n + 1 /\ \A j \in 1 .. n : j \in 1 .. n + 1
      BY <1>1 DEF n
    <2> QED BY <2>1, <2>4, <2>6, <2>7 DEF n
  <1>3. CASE ~(Admissible(e) /\ \A i \in 1 .. Len(fold_curves) :
                                   fold_curves[i].fold # e.opportunity.fold)
    <2>1. fold_curves' = fold_curves
      BY <1>3 DEF Sealed
    <2>2. ASSUME Admissible(e)
          PROVE  \E j \in 1 .. Len(fold_curves) :
                    /\ fold_curves[j].fold = FoldStart(e.time)
                    /\ fold_curves[j].sha = e.opportunity.curve.sha
      <3>1. PICK j \in 1 .. Len(fold_curves) : fold_curves[j].fold = e.opportunity.fold
        BY <1>3, <2>2
      <3>2. fold_curves[j].sha = e.opportunity.curve.sha
        BY <2>2, <3>1 DEF CurveChanged
      <3> QED BY <2>2, <3>1, <3>2, AdmissibleEvent
    <2> QED BY <1>1, <2>1, <2>2
  <1> QED BY <1>2, <1>3

LEMMA MarketKeepsSeals ==
    ASSUME RunnerTypeOK, SealsInv,
           NEW t \in EventTimes, NEW e \in MarketEvents(t), MarketEnds(e),
           \/ trades' = trades
           \/ /\ \E q \in Int : trades' = BookedTrade(e, q)
              /\ Rests(Len(trades) + 1) => Admissible(e)
    PROVE  SealsInv' /\ fold_curves' \in Seq(Seals) /\ trades' \in Seq(TradeType)
  <1>1. /\ ~CurveChanged(e) /\ fold_curves' = Sealed(e) /\ mode' = mode
    BY DEF MarketEnds
  <1>2. /\ fold_curves' \in Seq(Seals)
        /\ \A i, j \in 1 .. Len(fold_curves') :
              fold_curves'[i].fold = fold_curves'[j].fold
                 => fold_curves'[i].sha = fold_curves'[j].sha
        /\ \A j \in 1 .. Len(fold_curves) :
              j \in 1 .. Len(fold_curves') /\ fold_curves'[j] = fold_curves[j]
        /\ Admissible(e) =>
              \E j \in 1 .. Len(fold_curves') :
                 /\ fold_curves'[j].fold = FoldStart(e.time)
                 /\ fold_curves'[j].sha = e.opportunity.curve.sha
    BY <1>1, SealingKeepsSeals
  <1>3. trades \in Seq(TradeType) /\ Len(trades) \in Nat
    BY DEF RunnerTypeOK
  <1> DEFINE Sound(trade) ==
                /\ trade.curve # NoOpportunity.curve
                /\ trade.curve.evidence_end <= FoldStart(trade.time)
                /\ \E j \in 1 .. Len(fold_curves') :
                      /\ fold_curves'[j].fold = FoldStart(trade.time)
                      /\ fold_curves'[j].sha = trade.curve.sha
  <1>4. ASSUME NEW i \in 1 .. Len(trades), Rests(i) PROVE Sound(trades[i])
    <2>1. /\ trades[i].curve # NoOpportunity.curve
          /\ trades[i].curve.evidence_end <= FoldStart(trades[i].time)
          /\ \E j \in 1 .. Len(fold_curves) :
                /\ fold_curves[j].fold = FoldStart(trades[i].time)
                /\ fold_curves[j].sha = trades[i].curve.sha
      BY <1>4 DEF SealsInv
    <2> QED BY <1>2, <2>1
  <1>5. CASE trades' = trades
    <2>1. \A i \in 1 .. Len(trades) : Rests(i)' => Rests(i)
      BY <1>1 DEF Rests
    <2> QED BY <1>2, <1>3, <1>4, <1>5, <2>1 DEF SealsInv, Rests
  <1>6. CASE /\ \E q \in Int : trades' = BookedTrade(e, q)
             /\ Rests(Len(trades) + 1) => Admissible(e)
    <2>1. PICK q \in Int : trades' = BookedTrade(e, q)
      BY <1>6
    <2> DEFINE curve == IF Admissible(e) THEN e.opportunity.curve ELSE NoOpportunity.curve
               booked == [time |-> e.time, quantity |-> q, curve |-> curve]
    <2>2. curve \in Curves \cup {NoOpportunity.curve}
      BY AdmissibleEvent
    <2>3. trades' = Append(trades, booked)
      BY <2>1 DEF BookedTrade
    <2>4. booked \in TradeType /\ booked.time = e.time /\ booked.curve = curve
      BY <2>2, MarketEvent DEF TradeType
    <2>5. Admissible(e) => curve = e.opportunity.curve
      OBVIOUS
    <2> HIDE DEF booked, curve
    <2>6. /\ trades' \in Seq(TradeType) /\ Len(trades') = Len(trades) + 1
          /\ trades'[Len(trades) + 1] = booked
          /\ \A i \in 1 .. Len(trades) : trades'[i] = trades[i]
      BY <1>3, <2>3, <2>4
    <2>7. Rests(Len(trades) + 1) => Sound(booked)
      <3>1. SUFFICES ASSUME Admissible(e) PROVE Sound(booked)
        BY <1>6
      <3>2. /\ booked.curve = e.opportunity.curve /\ booked.time = e.time
            /\ e.opportunity.curve # NoOpportunity.curve
            /\ e.opportunity.curve.evidence_end <= FoldStart(e.time)
        BY <2>4, <2>5, <3>1, AdmissibleEvent
      <3> QED BY <1>2, <3>1, <3>2
    <2>8. \A i \in 1 .. Len(trades') : i \in 1 .. Len(trades) \/ i = Len(trades) + 1
      BY <1>3, <2>6
    <2>9. ASSUME NEW i \in 1 .. Len(trades'), Rests(i) PROVE Sound(trades'[i])
      <3> HIDE DEF Sound
      <3> QED BY <1>4, <2>6, <2>7, <2>8, <2>9
    <2>10. \A i \in 1 .. Len(trades') : Rests(i)' => Rests(i)
      BY <1>1 DEF Rests
    <2> QED BY <1>2, <2>6, <2>9, <2>10 DEF SealsInv, Rests
  <1> QED BY <1>5, <1>6
------------------------------------------------------------------------------
(* The outcomes of a market event. *)

\* Nothing is traded: the charge is booked, and the decision, if any, is taken.
LEMMA NothingTradedInv ==
    ASSUME RunnerInv,
           NEW t \in EventTimes, NEW e \in MarketEvents(t), MarketAccepted(e), MarketEnds(e),
           ledger' = FinancedBy(e), position' = position, trades' = trades,
           e.decide /\ position # NoPosition => position.held < position.planned,
           mode = "inferred" => decision' # "bounced"
    PROVE  RunnerInv'
  <1>1. RunnerTypeOK /\ ScheduleInv /\ PositionInv /\ LegsInv /\ SealsInv
    BY DEF RunnerInv
  <1>2. /\ ledger' \in LedgerType /\ ledger'.spot = ledger.spot /\ ledger'.perp = ledger.perp
        /\ ledger'.event_ids = ledger.event_ids \cup {<<seen, "finance">>}
        /\ ledger'.next_funding = ledger.next_funding
        /\ ledger'.last_funding = ledger.last_funding
    BY <1>1, FinancedEvent
  <1>3. /\ ScheduleInv'
        /\ last_time' \in Nat /\ next_observation' \in Nat /\ next_decision' \in Nat
        /\ seen' \in Nat /\ seen' = seen + 1
        /\ ~e.decide => next_decision' = next_decision
    BY <1>1, <1>2, MarketKeepsSchedule
  <1>4. SealsInv' /\ fold_curves' \in Seq(Seals) /\ trades' \in Seq(TradeType)
    BY <1>1, MarketKeepsSeals
  <1>5. /\ mode' = mode /\ failure' = failure /\ Covers(ledger', e.mark)
    BY DEF MarketEnds
  <1>6. RunnerTypeOK'
    <2>1. \A id \in ledger'.event_ids : id[1] < seen'
      BY <1>1, <1>2, <1>3, IdsAreOfThePast
    <2> QED BY <1>1, <1>2, <1>3, <1>4, <1>5, <2>1 DEF RunnerTypeOK
  <1>7. PositionInv'
    BY <1>1, <1>2, <1>3 DEF PositionInv, HeldForThePlan
  <1>8. LegsInv'
    <2>1. position = NoPosition => ledger'.cash >= 0
      <3>1. position = NoPosition => ledger'.perp.quantity = 0 /\ ledger'.perp.basis = 0
        BY <1>1, <1>2 DEF LegsInv, LegsPaired
      <3>2. e.mark \in Int
        BY <1>1, MarketEvent
      <3> QED BY <1>2, <1>5, <3>1, <3>2, CoveredWhenFlat
    <2> QED BY <1>1, <1>2, <2>1 DEF LegsInv, LegsPaired
  <1>9. FillsAreNeverRefused' /\ SizedEntriesAreAffordable'
    BY <1>5 DEF RunnerInv, FillsAreNeverRefused, SizedEntriesAreAffordable
  <1> QED BY <1>3, <1>4, <1>6, <1>7, <1>8, <1>9 DEF RunnerInv

LEMMA FillSlipsAreNat ==
    ASSUME NEW slip \in FillSlips
    PROVE  slip \in Nat /\ (mode = "inferred" => slip \in Slips)
  BY Chosen DEF FillSlips

\* A trade is of the other parity than the one before it.
LEMMA OneMoreTrade ==
    ASSUME NEW n \in Nat
    PROVE  /\ n % 2 = 0 => (n + 1) % 2 = 1
           /\ n % 2 # 0 => (n + 1) % 2 = 0
  OBVIOUS

\* A pair is booked: entry or exit.
LEMMA PairBookedInv ==
    ASSUME RunnerInv,
           NEW t \in EventTimes, NEW e \in MarketEvents(t), MarketAccepted(e), e.decide,
           MarketEnds(e), NEW q \in Int, NEW slip \in Nat,
           FillRefusal(e, q, slip) = NoError, ledger' = Proposed(e, q, slip),
           trades' = BookedTrade(e, q), decision' # "bounced",
           position' \in PositionType, PositionInv', LegsInv',
           Rests(Len(trades) + 1) => Admissible(e)
    PROVE  RunnerInv'
  <1>1. RunnerTypeOK /\ ScheduleInv /\ SealsInv
    BY DEF RunnerInv
  <1>2. /\ ledger' \in LedgerType
        /\ ledger'.event_ids
              = ledger.event_ids \cup {<<seen, "finance">>, <<seen, "spot">>, <<seen, "perp">>}
        /\ ledger'.next_funding = ledger.next_funding
        /\ ledger'.last_funding = ledger.last_funding
    BY <1>1, PairBooked
  <1>3. /\ ScheduleInv'
        /\ last_time' \in Nat /\ next_observation' \in Nat /\ next_decision' \in Nat
        /\ seen' \in Nat /\ seen' = seen + 1
    BY <1>1, <1>2, MarketKeepsSchedule
  <1>4. SealsInv' /\ fold_curves' \in Seq(Seals) /\ trades' \in Seq(TradeType)
    BY <1>1, MarketKeepsSeals
  <1>5. mode' = mode /\ failure' = failure
    BY DEF MarketEnds
  <1>6. RunnerTypeOK'
    <2>1. \A id \in ledger'.event_ids : id[1] < seen'
      BY <1>1, <1>2, <1>3, IdsAreOfThePast
    <2> QED BY <1>1, <1>2, <1>3, <1>4, <1>5, <2>1 DEF RunnerTypeOK
  <1>7. FillsAreNeverRefused' /\ SizedEntriesAreAffordable'
    BY <1>5 DEF RunnerInv, FillsAreNeverRefused, SizedEntriesAreAffordable
  <1> QED BY <1>3, <1>4, <1>6, <1>7 DEF RunnerInv

LEMMA EnterInv ==
    ASSUME RunnerInv, NEW t \in EventTimes, NEW e \in MarketEvents(t),
           NEW q \in Quantities, NEW slip \in FillSlips, Enter(e, q, slip)
    PROVE  RunnerInv'
  <1>1. RunnerTypeOK /\ ScheduleInv /\ PositionInv /\ LegsInv
    BY DEF RunnerInv
  <1>2. /\ MarketAccepted(e) /\ e.decide /\ position = NoPosition /\ Admissible(e)
        /\ FillRefusal(e, q, slip) = NoError /\ ledger' = Proposed(e, q, slip)
        /\ position' = [planned |-> Horizon, held |-> 0, opened |-> e.time]
        /\ trades' = BookedTrade(e, q) /\ decision' = "enter" /\ MarketEnds(e)
    BY DEF Enter, Sized, Flat, Deciding
  <1>3. q \in Nat \ {0} /\ slip \in Nat /\ e.time \in Nat
    BY <1>1, Chosen, FillSlipsAreNat, MarketEvent
  <1>4. /\ ledger.last_funding \in Nat /\ e.time = ledger.last_funding + Delay
        /\ ledger'.last_funding = ledger.last_funding
    BY <1>1, <1>2, <1>3, AcceptedEvent, PairBooked
  <1>5. /\ ledger'.spot.quantity = q /\ ledger'.perp.quantity = -q
    BY <1>1, <1>2, <1>3, PairOpens
  <1>6. /\ position'.opened = e.time /\ position'.held = 0 /\ position'.planned = Horizon
        /\ position' \in PositionType /\ position' # NoPosition
    BY <1>2, <1>3, Configured DEF PositionType, NoPosition, Never
  <1>7. PositionInv'
    <2>1. 0 * Cadence = 0 /\ e.time + 0 = ledger'.last_funding + Delay
      BY <1>3, <1>4, Configured
    <2>2. 0 < Horizon /\ 0 <= Horizon /\ e.time # Never
      BY <1>3, Configured DEF Never
    <2> QED BY <1>6, <2>1, <2>2 DEF PositionInv, HeldForThePlan
  <1>8. Len(trades) \in Nat /\ Len(trades) % 2 = 0 /\ Len(trades') = Len(trades) + 1
    BY <1>1, <1>2 DEF RunnerTypeOK, LegsInv, LegsPaired, BookedTrade
  <1>9. LegsInv'
    <2>1. Len(trades') % 2 # 0
      BY <1>8, OneMoreTrade
    <2>2. ledger'.perp.quantity # 0 /\ ledger'.perp.quantity <= 0
          /\ ledger'.spot.quantity = -ledger'.perp.quantity
      BY <1>3, <1>5
    <2> QED BY <1>6, <2>1, <2>2 DEF LegsInv, LegsPaired
  <1> QED BY <1>2, <1>3, <1>6, <1>7, <1>9, PairBookedInv

LEMMA ExitInv ==
    ASSUME RunnerInv, NEW t \in EventTimes, NEW e \in MarketEvents(t),
           NEW slip \in FillSlips, Exit(e, slip)
    PROVE  RunnerInv'
  <1> DEFINE q == ledger.perp.quantity
  <1>1. RunnerTypeOK /\ ScheduleInv /\ PositionInv /\ LegsInv
    BY DEF RunnerInv
  <1>2. /\ MarketAccepted(e) /\ e.decide /\ position # NoPosition
        /\ mode = "inferred" => Admissible(e)
        /\ FillRefusal(e, q, slip) = NoError /\ ledger' = Proposed(e, q, slip)
        /\ position' = NoPosition
        /\ trades' = BookedTrade(e, q) /\ decision' = "exit" /\ MarketEnds(e)
    BY DEF Exit, ExitDecided, Executable, Held, Deciding
  <1>3. q \in Int /\ slip \in Nat /\ e.mark \in Int
    <2>1. slip \in Nat /\ e.mark \in Int
      BY <1>1, FillSlipsAreNat, MarketEvent
    <2>2. ledger \in LedgerType
      BY <1>1 DEF RunnerTypeOK
    <2>3. ledger.perp \in LegType
      BY <2>2 DEF LedgerType
    <2> QED BY <2>1, <2>3 DEF LegType
  <1>4. /\ ledger'.spot.quantity = 0 /\ ledger'.perp.quantity = 0
        /\ ledger'.spot.basis = 0 /\ ledger'.perp.basis = 0
    BY <1>1, <1>2, <1>3, PairCloses
  <1>5. position' \in PositionType /\ PositionInv'
    BY <1>2 DEF PositionType, NoPosition, PositionInv, HeldForThePlan
  <1>6. Len(trades) \in Nat /\ Len(trades) % 2 # 0 /\ Len(trades') = Len(trades) + 1
    <2>1. trades \in Seq(TradeType) /\ Len(trades) \in Nat
      BY <1>1 DEF RunnerTypeOK
    <2>2. Len(trades) % 2 # 0
      BY <1>1, <1>2 DEF LegsInv, LegsPaired
    <2>3. Len(trades') = Len(trades) + 1
      BY <1>2, <2>1 DEF BookedTrade
    <2> QED BY <2>1, <2>2, <2>3
  <1>7. LegsInv'
    <2>1. Len(trades') % 2 = 0 /\ (Len(trades) + 1) % 2 # 1
      BY <1>6, OneMoreTrade
    <2>2. ledger' \in LedgerType /\ Covers(ledger', e.mark)
      BY <1>1, <1>2, <1>3, PairBooked DEF MarketEnds
    <2>3. ledger'.cash >= 0
      BY <1>3, <1>4, <2>2, CoveredWhenFlat
    <2>4. ledger'.spot.quantity = -ledger'.perp.quantity /\ ledger'.perp.quantity <= 0
      <3>1. (\A x, y \in Int : x + y = 0 => x = -y) /\ 0 + 0 = 0 /\ 0 <= 0 /\ 0 \in Int
        OBVIOUS
      <3> QED BY <1>4, <3>1, Zenon
    <2> QED BY <1>2, <1>4, <2>1, <2>3, <2>4 DEF LegsInv, LegsPaired
  <1>8. Rests(Len(trades) + 1) => Admissible(e)
    <2>1. (Len(trades) + 1) % 2 # 1
      BY <1>6, OneMoreTrade
    <2> QED BY <1>2, <2>1 DEF Rests
  <1> HIDE DEF q
  <1> QED BY <1>2, <1>3, <1>5, <1>7, <1>8, PairBookedInv

LEMMA BounceInv ==
    ASSUME RunnerInv, NEW t \in EventTimes, NEW e \in MarketEvents(t),
           NEW q \in Quantities, NEW slip \in FillSlips, EnterBounces(e, q, slip)
    PROVE  RunnerInv'
  <1>1. RunnerTypeOK /\ LegsInv
    BY DEF RunnerInv
  <1>2. /\ MarketAccepted(e) /\ e.decide /\ position = NoPosition /\ q \in Affordable(e)
        /\ FillRefusal(e, q, slip) = NoError /\ ~Covers(Proposed(e, q, slip), e.mark)
        /\ ledger' = FinancedBy(e) /\ position' = position /\ trades' = trades
        /\ MarketEnds(e)
    BY DEF EnterBounces, Sized, Flat, Deciding
  <1>3. mode # "inferred"
    BY <1>1, <1>2, FillSlipsAreNat, SizedIsCovered
  <1> QED BY <1>2, <1>3, NothingTradedInv

LEMMA TradeFailsInv ==
    ASSUME RunnerInv, NEW t \in EventTimes, NEW e \in MarketEvents(t),
           MarketAccepted(e), e.decide, NEW q, LotOf(q),
           NEW slip \in FillSlips, TradeFails(e, q, slip)
    PROVE  RunnerInv'
  <1>1. FillRefusal(e, q, slip) \in {NoError, "no_fee"}
    BY FillSlipsAreNat, PairIsTaken DEF RunnerInv
  <1>2. PICK why : why # "fill_refused" /\ Fails(why)
    BY <1>1 DEF TradeFails
  <1> QED BY <1>2, FailInv

LEMMA MarketStepInv ==
    ASSUME RunnerInv, NEW t \in EventTimes, NEW e \in MarketEvents(t), MarketStep(e)
    PROVE  RunnerInv'
  <1>1. CASE Observe(e)
    <2>1. /\ MarketAccepted(e) /\ ~e.decide /\ ledger' = FinancedBy(e) /\ decision' = "none"
          /\ MarketEnds(e) /\ position' = position /\ trades' = trades
      BY <1>1 DEF Observe
    <2> QED BY <2>1, NothingTradedInv
  <1>2. CASE Wait(e)
    <2>1. /\ MarketAccepted(e) /\ position = NoPosition
          /\ ledger' = FinancedBy(e) /\ decision' = "wait"
          /\ MarketEnds(e) /\ position' = position /\ trades' = trades
      BY <1>2 DEF Wait, Flat, Deciding
    <2> QED BY <2>1, NothingTradedInv
  <1>3. CASE Hold(e)
    <2>1. /\ MarketAccepted(e) /\ position.planned - position.held > 0
          /\ ledger' = FinancedBy(e) /\ decision' = "hold"
          /\ MarketEnds(e) /\ position' = position /\ trades' = trades
      BY <1>3 DEF Hold, Held, Deciding, Remaining
    <2>2. position.planned \in Nat /\ position.held \in Nat
      BY DEF RunnerInv, RunnerTypeOK, PositionType
    <2>3. position.held < position.planned
      BY <2>1, <2>2
    <2> QED BY <2>1, <2>3, NothingTradedInv
  <1>4. CASE MarketFails(e)
    <2>1. PICK why : why # "fill_refused" /\ Fails(why)
      BY <1>4 DEF MarketFails
    <2> QED BY <2>1, FailInv
  <1>5. ASSUME NEW q \in Quantities, NEW slip \in FillSlips,
               \/ Enter(e, q, slip) \/ EnterBounces(e, q, slip)
               \/ Sized(e, q) /\ TradeFails(e, q, slip)
        PROVE  RunnerInv'
    <2>1. CASE Enter(e, q, slip)
      BY <2>1, EnterInv
    <2>2. CASE EnterBounces(e, q, slip)
      BY <2>2, BounceInv
    <2>3. CASE Sized(e, q) /\ TradeFails(e, q, slip)
      <3>1. LotOf(q) /\ MarketAccepted(e) /\ e.decide
        BY <2>3, Chosen DEF LotOf, Sized, Flat, Deciding
      <3> QED BY <2>3, <3>1, TradeFailsInv
    <2> QED BY <1>5, <2>1, <2>2, <2>3
  <1>6. ASSUME NEW slip \in FillSlips,
               \/ Exit(e, slip)
               \/ ExitDecided(e) /\ Executable(e) /\ TradeFails(e, ledger.perp.quantity, slip)
        PROVE  RunnerInv'
    <2>1. CASE Exit(e, slip)
      BY <2>1, ExitInv
    <2>2. CASE ExitDecided(e) /\ TradeFails(e, ledger.perp.quantity, slip)
      <3>1. LotOf(ledger.perp.quantity) /\ MarketAccepted(e) /\ e.decide
        BY <2>2 DEF LotOf, ExitDecided, Held, Deciding
      <3> QED BY <2>2, <3>1, TradeFailsInv
    <2> QED BY <1>6, <2>1, <2>2
  <1> QED BY <1>1, <1>2, <1>3, <1>4, <1>5, <1>6 DEF MarketStep

LEMMA FundingFailsInv ==
    ASSUME RunnerInv, NEW e, FundingFails(e)
    PROVE  RunnerInv'
  <1>1. PICK why : why # "fill_refused" /\ Fails(why)
    BY DEF FundingFails
  <1> QED BY <1>1, FailInv

LEMMA RunnerStepInv == RunnerInv /\ [RunnerNext]_runnerVars => RunnerInv'
  <1> SUFFICES ASSUME RunnerInv, [RunnerNext]_runnerVars PROVE RunnerInv'
    OBVIOUS
  <1>1. CASE RunnerNext
    <2>1. PICK t \in EventTimes :
             \/ \E e \in FundingEvents(t) :
                   FundingWarmup(e) \/ FundingSettles(e) \/ FundingFails(e)
             \/ \E e \in MarketEvents(t) : MarketStep(e)
      BY <1>1 DEF RunnerNext
    <2> QED BY <2>1, WarmupInv, SettlesInv, FundingFailsInv, MarketStepInv
  <1>2. CASE UNCHANGED runnerVars
    BY <1>2 DEF runnerVars, scheduleVars, RunnerInv, RunnerTypeOK, ScheduleInv,
       OneDecisionPerSettlement, PositionInv, HeldForThePlan, LegsInv, LegsPaired, SealsInv,
       Rests, FillsAreNeverRefused, SizedEntriesAreAffordable
  <1> QED BY <1>1, <1>2

\* RunnerInv is inductive: whatever events a runner is given, its parts agree.
THEOREM RunnerInvariant == RunnerSpec => []RunnerInv
  BY InitInv, RunnerStepInv, PTL DEF RunnerSpec

\* The ledger and the strategy expect the same settlement, and between two settlements
\* there is one decision that no event can pass (_Runner.process, Ledger.settle).
THEOREM AlwaysOneDecisionPerSettlement == RunnerSpec => []OneDecisionPerSettlement
  <1>1. RunnerInv => OneDecisionPerSettlement
    BY DEF RunnerInv, ScheduleInv
  <1> QED BY <1>1, RunnerInvariant, PTL

\* A position is held for the settlements it was planned for and no more (Position).
THEOREM AlwaysHeldForThePlan == RunnerSpec => []HeldForThePlan
  <1>1. RunnerInv => HeldForThePlan
    BY DEF RunnerInv, PositionInv
  <1> QED BY <1>1, RunnerInvariant, PTL

\* No trade that fails half way, and no entry that is given up, leaves a leg or a debt
\* (_Runner.trade, reserve).
THEOREM LegsAlwaysPaired == RunnerSpec => []LegsPaired
  <1>1. RunnerInv => LegsPaired
    BY DEF RunnerInv, LegsInv
  <1> QED BY <1>1, RunnerInvariant, PTL

\* Whatever the prices, the ledger refuses no fill of a decision (Config, Ledger.fill).
THEOREM FillsNeverRefused == RunnerSpec => []FillsAreNeverRefused
  <1>1. RunnerInv => FillsAreNeverRefused
    BY DEF RunnerInv
  <1> QED BY <1>1, RunnerInvariant, PTL

\* What the sizing cap lets through can be paid for at any price the curve gives (enter).
THEOREM SizedEntriesAlwaysAffordable == RunnerSpec => []SizedEntriesAreAffordable
  <1>1. RunnerInv => SizedEntriesAreAffordable
    BY DEF RunnerInv
  <1> QED BY <1>1, RunnerInvariant, PTL

\* No trade looks ahead and no fold uses two curves (admit).
THEOREM FoldsAlwaysSealed == RunnerSpec => []FoldsAreSealed
  <1>1. RunnerInv => FoldsAreSealed
    <2> SUFFICES ASSUME RunnerInv, NEW i \in 1 .. Len(trades), Rests(i)
                 PROVE  /\ trades[i].curve # NoOpportunity.curve
                        /\ trades[i].curve.evidence_end <= FoldStart(trades[i].time)
                        /\ \A j \in 1 .. Len(trades) :
                              Rests(j) /\ FoldStart(trades[i].time) = FoldStart(trades[j].time)
                                 => trades[i].curve.sha = trades[j].curve.sha
      BY DEF FoldsAreSealed, Rests
    <2>1. /\ trades[i].curve # NoOpportunity.curve
          /\ trades[i].curve.evidence_end <= FoldStart(trades[i].time)
      BY DEF RunnerInv, SealsInv
    <2>2. ASSUME NEW j \in 1 .. Len(trades), Rests(j),
                 FoldStart(trades[i].time) = FoldStart(trades[j].time)
          PROVE  trades[i].curve.sha = trades[j].curve.sha
      <3>1. PICK k \in 1 .. Len(fold_curves) :
               /\ fold_curves[k].fold = FoldStart(trades[i].time)
               /\ fold_curves[k].sha = trades[i].curve.sha
        BY DEF RunnerInv, SealsInv
      <3>2. PICK m \in 1 .. Len(fold_curves) :
               /\ fold_curves[m].fold = FoldStart(trades[j].time)
               /\ fold_curves[m].sha = trades[j].curve.sha
        BY <2>2 DEF RunnerInv, SealsInv
      <3> QED BY <2>2, <3>1, <3>2 DEF RunnerInv, SealsInv
    <2> QED BY <2>1, <2>2
  <1> QED BY <1>1, RunnerInvariant, PTL
------------------------------------------------------------------------------
(* The command. *)

\* What an event that fails leaves, and what the three others move.
StepFails == failure' # NoError /\ UNCHANGED <<ledger, scheduleVars>>

StepWarms ==
    /\ failure' = NoError /\ last_time' < Start
    /\ last_time <= last_time' /\ UNCHANGED <<ledger, next_decision>>
    /\ ledger.last_funding = Never

StepSettles ==
    /\ failure' = NoError /\ last_time' >= Start
    /\ last_time <= last_time'
    /\ next_observation' # next_observation
    /\ ledger'.last_funding = last_time'
    /\ IF ledger.last_funding = Never THEN last_time' = Start
       ELSE /\ last_time' = ledger.last_funding + Cadence
            /\ next_decision = next_observation + Delay
    /\ next_decision' # next_observation' + Delay

StepMarks ==
    /\ failure' = NoError /\ last_time' >= Start
    /\ last_time <= last_time'
    /\ next_observation' = next_observation
    /\ ledger'.last_funding = ledger.last_funding /\ ledger.last_funding # Never
    /\ IF decision' = "none" THEN next_decision' = next_decision
       ELSE next_decision # next_observation + Delay /\ next_decision' = next_observation + Delay

LEMMA FailureFails ==
    ASSUME NEW why, why # NoError, Fails(why)
    PROVE  StepFails
  BY DEF Fails, StepFails, scheduleVars

LEMMA WarmupWarms ==
    ASSUME RunnerInv, failure = NoError, NEW e, FundingWarmup(e)
    PROVE  StepWarms
  <1>1. /\ ~(e.time < last_time) /\ e.time < Start /\ e.time = next_observation
        /\ last_time' = e.time /\ ledger' = ledger /\ next_decision' = next_decision
        /\ failure' = failure
    BY DEF FundingWarmup, OutOfStream, Misscheduled
  <1>2. last_time \in Nat /\ next_observation \in Nat /\ ledger.last_funding \in Nat \cup {Never}
    BY DEF RunnerInv, RunnerTypeOK, LedgerType
  <1>3. ledger.last_funding = Never
    <2>1. ASSUME ledger.last_funding # Never
          PROVE  Start <= ledger.last_funding /\ ledger.last_funding <= last_time
      BY <2>1 DEF RunnerInv, ScheduleInv
    <2> QED BY <1>1, <1>2, <2>1, Configured
  <1> QED BY <1>1, <1>2, <1>3 DEF StepWarms

LEMMA SettlementSettles ==
    ASSUME RunnerInv, failure = NoError, NEW e, FundingSettles(e)
    PROVE  StepSettles
  <1>1. /\ ~(e.time < last_time) /\ e.time >= Start
        /\ ~(e.time >= Start /\ e.time > next_decision)
        /\ e.time = next_observation /\ e.interval = Interval /\ e.time = ledger.next_funding
    <2>1. ~OutOfStream(e) /\ ~Misscheduled(e) /\ e.time >= Start
      BY DEF FundingSettles
    <2>2. SettleError(ledger, Settlement(e)) = NoError /\ Settlement(e).time = e.time
      BY DEF FundingSettles, Settlement
    <2>3. e.time = ledger.next_funding
      BY <2>2 DEF SettleError, NoError
    <2> QED BY <2>1, <2>3 DEF OutOfStream, Misscheduled
  <1>2. /\ last_time' = e.time /\ next_observation' = next_observation + Cadence
        /\ next_decision' = next_decision /\ failure' = failure
        /\ ledger' = Settled(ledger, Settlement(e)) /\ Settlement(e).time = e.time
    BY <1>1 DEF FundingSettles, Settlement, Cadence
  <1>3. /\ last_time \in Nat /\ next_observation \in Nat /\ next_decision \in Nat
        /\ ledger \in LedgerType /\ ledger.last_funding \in Nat \cup {Never}
    BY DEF RunnerInv, RunnerTypeOK, LedgerType
  <1>4. ledger'.last_funding = e.time
    BY <1>2, <1>3 DEF Settled, Recorded, LedgerType
  <1>5. last_time <= e.time /\ next_observation' # next_observation
    <2>1. e.time \in Nat
      BY <1>1, <1>3
    <2>2. last_time <= e.time
      BY <1>1, <1>3, <2>1
    <2>3. next_observation + Cadence # next_observation
      BY <1>3, Configured
    <2> QED BY <1>2, <2>2, <2>3
  <1>6. next_decision = e.time + Delay
    BY <1>1, <1>3, Configured DEF RunnerInv, ScheduleInv, OneDecisionPerSettlement
  <1>7. next_decision' # next_observation' + Delay
    <2>1. next_observation + Delay # next_observation + Cadence + Delay
      BY <1>3, Configured
    <2>2. next_decision = next_observation + Delay
      BY <1>1, <1>6
    <2> QED BY <1>2, <2>1, <2>2
  <1>8. ledger.last_funding = Never => e.time = Start
    BY <1>1, <1>3, Configured DEF RunnerInv, ScheduleInv, OneDecisionPerSettlement
  <1>9. ledger.last_funding # Never => e.time = ledger.last_funding + Cadence
    BY <1>1 DEF RunnerInv, ScheduleInv, OneDecisionPerSettlement
  <1> QED BY <1>1, <1>2, <1>4, <1>5, <1>6, <1>7, <1>8, <1>9 DEF StepSettles

LEMMA MarketMarks ==
    ASSUME RunnerInv, failure = NoError,
           NEW t \in EventTimes, NEW e \in MarketEvents(t), MarketAccepted(e), MarketEnds(e),
           ledger'.last_funding = ledger.last_funding, ledger'.next_funding = ledger.next_funding,
           decision' = "none" <=> ~e.decide
    PROVE  StepMarks
  <1>1. RunnerTypeOK /\ ScheduleInv /\ e.decide \in BOOLEAN
    BY MarketEvent DEF RunnerInv
  <1>2. /\ e.decide => next_decision' = ledger.last_funding + Delay + Cadence
        /\ ~e.decide => next_decision' = next_decision
    BY <1>1, MarketKeepsSchedule
  <1>3. /\ Start <= e.time /\ last_time <= e.time /\ e.time \in Nat
        /\ ledger.last_funding \in Nat /\ ledger.last_funding # Never
        /\ next_observation = ledger.last_funding + Cadence
        /\ e.decide => next_decision = ledger.last_funding + Delay
    BY <1>1, AcceptedEvent, MarketEvent
  <1>4. /\ last_time' = e.time /\ next_observation' = next_observation /\ failure' = failure
    BY DEF MarketEnds
  <1>5. CASE e.decide
    <2>1. next_decision # next_observation + Delay /\ next_decision' = next_observation + Delay
      BY <1>2, <1>3, <1>5, Configured
    <2> QED BY <1>3, <1>4, <1>5, <2>1, Configured DEF StepMarks
  <1>6. CASE ~e.decide
    BY <1>2, <1>3, <1>4, <1>6, Configured DEF StepMarks
  <1> QED BY <1>5, <1>6

LEMMA MarketStepMarks ==
    ASSUME RunnerInv, failure = NoError,
           NEW t \in EventTimes, NEW e \in MarketEvents(t), MarketStep(e)
    PROVE  StepFails \/ StepMarks
  <1>1. RunnerTypeOK /\ LegsInv
    BY DEF RunnerInv
  <1>2. CASE Observe(e) \/ Wait(e) \/ Hold(e)
    <2>1. /\ MarketAccepted(e) /\ MarketEnds(e) /\ ledger' = FinancedBy(e)
          /\ decision' = "none" <=> ~e.decide
      BY <1>2, MarketEvent, <1>1 DEF Observe, Wait, Hold, Flat, Held, Deciding
    <2> QED BY <1>1, <2>1, FinancedEvent, MarketMarks
  <1>3. CASE MarketFails(e)
    <2>1. PICK why : why # NoError /\ Fails(why)
      BY <1>3 DEF MarketFails, NoError
    <2> QED BY <2>1, FailureFails
  <1>4. ASSUME NEW q, NEW slip, TradeFails(e, q, slip) PROVE StepFails
    <2>1. PICK why : why # NoError /\ Fails(why)
      BY <1>4 DEF TradeFails, NoError
    <2> QED BY <2>1, FailureFails
  <1>5. ASSUME NEW q \in Quantities, NEW slip \in FillSlips, Enter(e, q, slip)
        PROVE  StepMarks
    <2>1. /\ MarketAccepted(e) /\ MarketEnds(e) /\ ledger' = Proposed(e, q, slip)
          /\ FillRefusal(e, q, slip) = NoError
          /\ decision' = "none" <=> ~e.decide
      BY <1>5 DEF Enter, Sized, Flat, Deciding
    <2>2. q \in Int /\ slip \in Nat
      BY Chosen, FillSlipsAreNat
    <2> QED BY <1>1, <2>1, <2>2, PairBooked, MarketMarks
  <1>6. ASSUME NEW q \in Quantities, NEW slip \in FillSlips, EnterBounces(e, q, slip)
        PROVE  StepMarks
    <2>1. /\ MarketAccepted(e) /\ MarketEnds(e) /\ ledger' = FinancedBy(e)
          /\ decision' = "none" <=> ~e.decide
      BY <1>6 DEF EnterBounces, Sized, Flat, Deciding
    <2> QED BY <1>1, <2>1, FinancedEvent, MarketMarks
  <1>7. ASSUME NEW slip \in FillSlips, Exit(e, slip)
        PROVE  StepMarks
    <2> DEFINE q == ledger.perp.quantity
    <2>1. /\ MarketAccepted(e) /\ MarketEnds(e) /\ ledger' = Proposed(e, q, slip)
          /\ FillRefusal(e, q, slip) = NoError
          /\ decision' = "none" <=> ~e.decide
      BY <1>7 DEF Exit, ExitDecided, Held, Deciding
    <2>2. q \in Int /\ slip \in Nat
      BY <1>1, FillSlipsAreNat DEF RunnerTypeOK, LedgerType, LegType
    <2> HIDE DEF q
    <2> QED BY <1>1, <2>1, <2>2, PairBooked, MarketMarks
  <1> QED BY <1>2, <1>3, <1>4, <1>5, <1>6, <1>7 DEF MarketStep

LEMMA RunnerMoves ==
    ASSUME RunnerInv, RunnerNext
    PROVE  StepFails \/ StepWarms \/ StepSettles \/ StepMarks
  <1>1. failure = NoError
    BY DEF RunnerNext
  <1>2. PICK t \in EventTimes :
           \/ \E e \in FundingEvents(t) :
                 FundingWarmup(e) \/ FundingSettles(e) \/ FundingFails(e)
           \/ \E e \in MarketEvents(t) : MarketStep(e)
    BY DEF RunnerNext
  <1>3. ASSUME NEW e, FundingFails(e) PROVE StepFails
    <2>1. PICK why : why # NoError /\ Fails(why)
      BY <1>3 DEF FundingFails, NoError
    <2> QED BY <2>1, FailureFails
  <1> QED BY <1>1, <1>2, <1>3, WarmupWarms, SettlementSettles, MarketStepMarks

LEMMA CommandInitInv == CommandInit => CommandInv
  <1> SUFFICES ASSUME CommandInit PROVE CommandInv
    OBVIOUS
  <1>1. RunnerInv
    BY InitInv DEF CommandInit
  <1>2. ledger.last_funding = Never /\ last_time = WarmupStart
    BY DEF CommandInit, RunnerInit, NewLedger
  <1>3. output = [status |-> "running", last_funding |-> Never, last_market |-> Never,
                  settlements |-> 0, decisions |-> 0]
    BY DEF CommandInit
  <1>4. OutputInv
    BY <1>2, <1>3, Configured DEF OutputInv, Never
  <1>5. CompleteMeansCovered
    BY <1>3 DEF CompleteMeansCovered
  <1> QED BY <1>1, <1>4, <1>5 DEF CommandInv

\* What is written of an event that does not fail keeps the counts of the output right.
LEMMA WrittenInv ==
    ASSUME RunnerInv, RunnerInv', OutputInv, output.status = "running", output' = Written,
           StepWarms \/ StepSettles \/ StepMarks
    PROVE  OutputInv' /\ output'.status = "running"
  <1> DEFINE n == output.settlements
  <1>1. /\ last_time \in Nat /\ last_time' \in Nat /\ next_observation \in Nat
        /\ next_observation' \in Nat /\ next_decision \in Nat /\ next_decision' \in Nat
        /\ ledger.last_funding \in Nat \cup {Never} /\ ledger'.last_funding \in Nat \cup {Never}
    BY DEF RunnerInv, RunnerTypeOK, LedgerType
  <1>2. /\ output \in [status : {"running", "error", "complete", "incomplete_coverage"},
                       last_funding : Nat \cup {Never}, last_market : Nat \cup {Never},
                       settlements : Nat, decisions : Nat]
        /\ output.last_funding = ledger.last_funding /\ output.last_market <= last_time
        /\ n \in Nat /\ output.decisions \in Nat /\ output.last_market \in Nat \cup {Never}
    BY DEF OutputInv
  <1>3. ledger.last_funding = Never =>
            n = 0 /\ output.decisions = 0 /\ output.last_market = Never
    BY DEF OutputInv
  <1>4. ledger.last_funding # Never =>
            /\ n * Cadence = ledger.last_funding + Cadence - Start
            /\ output.decisions = IF next_decision = next_observation + Delay THEN n ELSE n - 1
    BY DEF OutputInv
  <1>5. CASE StepWarms
    <2>1. /\ last_time' < Start /\ last_time <= last_time' /\ ledger' = ledger
          /\ ledger.last_funding = Never
      BY <1>5 DEF StepWarms
    <2>2. output' = output
      BY <2>1 DEF Written
    <2> QED BY <1>1, <1>2, <1>3, <2>1, <2>2 DEF OutputInv, Never
  <1>6. CASE StepSettles
    <2>1. /\ ~(last_time' < Start) /\ last_time <= last_time'
          /\ next_observation' # next_observation
          /\ ledger'.last_funding = last_time' /\ ledger'.last_funding # Never
          /\ next_decision' # next_observation' + Delay
      <3>1. /\ last_time' >= Start /\ last_time <= last_time'
            /\ next_observation' # next_observation
            /\ ledger'.last_funding = last_time'
            /\ next_decision' # next_observation' + Delay
        BY <1>6 DEF StepSettles
      <3>2. ~(last_time' < Start) /\ last_time' # Never
        BY <1>1, <3>1, Configured DEF Never
      <3> QED BY <3>1, <3>2
    <2> DEFINE m == n + 1
    <2>2. output' = [output EXCEPT !.last_funding = last_time', !.settlements = m]
      BY <2>1 DEF Written
    <2> m \in Nat
      BY <1>2
    <2> HIDE DEF m
    <2>3. /\ output'.status = "running" /\ output'.last_funding = last_time'
          /\ output'.settlements = m /\ output'.decisions = output.decisions
          /\ output'.last_market = output.last_market
          /\ output' \in [status : {"running", "error", "complete", "incomplete_coverage"},
                          last_funding : Nat \cup {Never}, last_market : Nat \cup {Never},
                          settlements : Nat, decisions : Nat]
      BY <1>1, <1>2, <2>2
    <2>4. m * Cadence = n * Cadence + Cadence /\ n * Cadence \in Nat
      BY <1>2, Configured DEF m
    <2>5. m * Cadence = last_time' + Cadence - Start /\ output.decisions = n
      <3>1. CASE ledger.last_funding = Never
        <4>1. last_time' = Start
          BY <1>6, <3>1 DEF StepSettles
        <4>2. n = 0 /\ 0 * Cadence = 0
          BY <1>3, <3>1, Configured
        <4> QED BY <1>3, <2>4, <3>1, <4>1, <4>2, Configured
      <3>2. CASE ledger.last_funding # Never
        <4>1. /\ last_time' = ledger.last_funding + Cadence
              /\ next_decision = next_observation + Delay
          BY <1>6, <3>2 DEF StepSettles
        <4>2. ledger.last_funding \in Nat
          BY <1>1, <3>2
        <4> QED BY <1>4, <2>4, <3>2, <4>1, <4>2, Configured
      <3> QED BY <3>1, <3>2
    <2>6. output'.last_market <= last_time'
      BY <1>1, <1>2, <2>1, <2>3 DEF Never
    <2>7. output'.decisions = output'.settlements - 1
      BY <1>2, <2>3, <2>5 DEF m
    <2> QED BY <2>1, <2>3, <2>5, <2>6, <2>7 DEF OutputInv
  <1>7. CASE StepMarks
    <2>1. /\ ~(last_time' < Start) /\ last_time <= last_time'
          /\ next_observation' = next_observation
          /\ ledger'.last_funding = ledger.last_funding /\ ledger.last_funding # Never
      BY <1>1, <1>7, Configured DEF StepMarks
    <2> DEFINE d == IF decision' = "none" THEN output.decisions ELSE output.decisions + 1
    <2>2. output' = [output EXCEPT !.last_market = last_time', !.decisions = d]
      BY <2>1 DEF Written
    <2>3. d \in Nat
      BY <1>2
    <2>4. d = IF next_decision' = next_observation' + Delay THEN n ELSE n - 1
      <3>1. CASE decision' = "none"
        <4>1. next_decision' = next_decision
          BY <1>7, <3>1 DEF StepMarks
        <4> QED BY <1>4, <2>1, <3>1, <4>1
      <3>2. CASE decision' # "none"
        <4>1. next_decision # next_observation + Delay
              /\ next_decision' = next_observation + Delay
          BY <1>7, <3>2 DEF StepMarks
        <4>2. output.decisions = n - 1
          BY <1>4, <2>1, <4>1
        <4> QED BY <1>2, <2>1, <3>2, <4>1, <4>2
      <3> QED BY <3>1, <3>2
    <2> HIDE DEF d
    <2>5. /\ output'.status = "running" /\ output'.last_funding = output.last_funding
          /\ output'.settlements = n /\ output'.decisions = d
          /\ output'.last_market = last_time'
          /\ output' \in [status : {"running", "error", "complete", "incomplete_coverage"},
                          last_funding : Nat \cup {Never}, last_market : Nat \cup {Never},
                          settlements : Nat, decisions : Nat]
      BY <1>1, <1>2, <2>2, <2>3
    <2>6. output'.last_market <= last_time'
      BY <1>1, <2>5
    <2> QED BY <1>2, <1>4, <2>1, <2>4, <2>5, <2>6 DEF OutputInv
  <1> QED BY <1>5, <1>6, <1>7

LEMMA CommandStepInv == CommandInv /\ [CommandNext]_commandVars => CommandInv'
  <1> SUFFICES ASSUME CommandInv, [CommandNext]_commandVars PROVE CommandInv'
    OBVIOUS
  <1>1. RunnerInv /\ OutputInv /\ CompleteMeansCovered
    BY DEF CommandInv
  <1>2. CASE RunEvent
    <2>1. /\ output.status = "running" /\ RunnerNext
          /\ output' = IF failure' # NoError THEN [output EXCEPT !.status = "error"] ELSE Written
      BY <1>2 DEF RunEvent
    <2>2. RunnerInv'
      BY <1>1, <2>1, RunnerStepInv
    <2>3. OutputInv' /\ output'.status # "complete"
      <3>1. CASE StepFails
        <4>1. output' = [output EXCEPT !.status = "error"]
          BY <2>1, <3>1 DEF StepFails
        <4>2. ledger' = ledger /\ last_time' = last_time /\ next_decision' = next_decision
              /\ next_observation' = next_observation
          BY <3>1 DEF StepFails, scheduleVars
        <4>3. /\ output' \in [status : {"running", "error", "complete", "incomplete_coverage"},
                              last_funding : Nat \cup {Never}, last_market : Nat \cup {Never},
                              settlements : Nat, decisions : Nat]
              /\ output'.status = "error" /\ output'.last_funding = output.last_funding
              /\ output'.last_market = output.last_market
              /\ output'.settlements = output.settlements
              /\ output'.decisions = output.decisions
          BY <1>1, <4>1 DEF OutputInv
        <4> QED BY <1>1, <4>2, <4>3 DEF OutputInv
      <3>2. CASE StepWarms \/ StepSettles \/ StepMarks
        <4>1. output' = Written
          BY <2>1, <3>2 DEF StepWarms, StepSettles, StepMarks
        <4> QED BY <1>1, <2>1, <2>2, <3>2, <4>1, WrittenInv
      <3> QED BY <1>1, <2>1, <3>1, <3>2, RunnerMoves
    <2> QED BY <2>2, <2>3 DEF CommandInv, CompleteMeansCovered
  <1>3. CASE ManifestEnds
    <2>1. /\ UNCHANGED runnerVars
          /\ output' = [output EXCEPT !.status = IF Complete THEN "complete"
                                                 ELSE "incomplete_coverage"]
      BY <1>3 DEF ManifestEnds
    <2>2. RunnerInv'
      BY <1>1, <2>1, RunnerStepInv
    <2>3. /\ ledger' = ledger /\ last_time' = last_time /\ next_decision' = next_decision
          /\ next_observation' = next_observation
      BY <2>1 DEF runnerVars, scheduleVars
    <2>4. /\ output' \in [status : {"running", "error", "complete", "incomplete_coverage"},
                          last_funding : Nat \cup {Never}, last_market : Nat \cup {Never},
                          settlements : Nat, decisions : Nat]
          /\ output'.last_funding = output.last_funding
          /\ output'.last_market = output.last_market
          /\ output'.settlements = output.settlements
          /\ output'.decisions = output.decisions
          /\ output'.status = "complete" => Complete
      BY <1>1, <2>1 DEF OutputInv
    <2>5. OutputInv'
      BY <1>1, <2>3, <2>4 DEF OutputInv
    <2>6. ASSUME Complete
          PROVE  /\ output.settlements * Cadence = End - Start
                 /\ output.decisions = output.settlements
                 /\ last_time = End - 1 /\ ledger.last_funding = End - Cadence
      <3>1. output.last_funding = End - Cadence /\ output.last_market = End - 1
        BY <2>6 DEF Complete
      <3>2. last_time \in Nat /\ next_decision \in Nat /\ next_observation \in Nat
            /\ last_time < End /\ output.last_market <= last_time
            /\ output.last_funding = ledger.last_funding
        BY <1>1 DEF RunnerInv, RunnerTypeOK, ScheduleInv, OutputInv
      <3>3. last_time = End - 1 /\ ledger.last_funding = End - Cadence
        BY <3>1, <3>2, Configured
      <3>4. ledger.last_funding # Never
        <4>1. End - 1 # Never
          BY Configured DEF Never
        <4> QED BY <1>1, <3>1, <4>1 DEF OutputInv
      <3>5. output.settlements * Cadence = ledger.last_funding + Cadence - Start
        BY <1>1, <3>4 DEF OutputInv
      <3>6. output.settlements * Cadence = End - Start
        <4>1. End - Cadence + Cadence - Start = End - Start
          BY Configured
        <4> QED BY <3>3, <3>5, <4>1
      <3>7. next_decision = next_observation + Delay
        <4>1. next_decision = ledger.last_funding + Delay => last_time < next_decision
          BY <1>1, <3>4 DEF RunnerInv, ScheduleInv
        <4>2. \/ next_decision = next_observation + Delay
              \/ next_decision = ledger.last_funding + Delay
          BY <1>1, <3>4 DEF RunnerInv, ScheduleInv, OneDecisionPerSettlement
        <4> QED BY <3>2, <3>3, <4>1, <4>2, Configured
      <3>8. output.decisions = output.settlements
        BY <1>1, <3>4, <3>7 DEF OutputInv
      <3> QED BY <3>3, <3>6, <3>8
    <2>7. CompleteMeansCovered'
      BY <2>3, <2>4, <2>6 DEF CompleteMeansCovered
    <2> QED BY <2>2, <2>5, <2>7 DEF CommandInv
  <1>4. CASE UNCHANGED commandVars
    <2>1. UNCHANGED runnerVars /\ output' = output
      BY <1>4 DEF commandVars
    <2>2. RunnerInv'
      BY <1>1, <2>1, RunnerStepInv
    <2> QED BY <1>1, <2>1, <2>2
        DEF CommandInv, OutputInv, CompleteMeansCovered, runnerVars, scheduleVars
  <1> QED BY <1>2, <1>3, <1>4 DEF CommandNext

\* CommandInv is inductive: at every event the output counts what was accounted.
THEOREM CommandInvariant == CommandSpec => []CommandInv
  BY CommandInitInv, CommandStepInv, PTL DEF CommandSpec

\* A footer that says complete is right: every settlement of the study was accounted and
\* decided on, and what is still held was marked at the very end (main).
THEOREM CompleteAlwaysMeansCovered == CommandSpec => []CompleteMeansCovered
  <1>1. CommandInv => CompleteMeansCovered
    BY DEF CommandInv
  <1> QED BY <1>1, CommandInvariant, PTL

\* The command only feeds the runner: what holds of every run of it holds here.
THEOREM CommandIsARunner == CommandSpec => RunnerSpec
  <1>1. CommandInit => RunnerInit
    BY DEF CommandInit
  <1>2. [CommandNext]_commandVars => [RunnerNext]_runnerVars
    BY DEF CommandNext, RunEvent, ManifestEnds, commandVars
  <1> QED BY <1>1, <1>2, PTL DEF CommandSpec, RunnerSpec
==============================================================================
