---------------------------- MODULE LedgerProofs -----------------------------
(***************************************************************************)
(* What Ledger promises for every capital, price, rate, fee schedule and   *)
(* number of events: that money balances, and that settlements are         *)
(* complete and never in doubt.                                            *)
(***************************************************************************)
EXTENDS Ledger, FiniteSetTheorems, TLAPS

LedgerType == [initial : Int, cash : Int, next_funding : Nat, time : Nat,
               last_funding : Nat \cup {Never}, event_ids : SUBSET Nat,
               spot : LegType, perp : LegType,
               funding : Int, fees : Int, financing : Int, execution_cost : Int]

FillType == [id : Nat, time : Nat, market : Market, quantity : Int, price : Int,
             reference_mid : Int]
------------------------------------------------------------------------------
LEMMA AverageIsInt ==
    ASSUME NEW leg \in LegType, leg.quantity # 0
    PROVE  Average(leg) \in Int
  <1>1. CASE leg.quantity > 0
    BY <1>1 DEF Average, LegType
  <1>2. CASE leg.quantity < 0
    <2>1. -leg.quantity \in Nat \ {0} /\ -leg.basis \in Int
      BY <1>2 DEF LegType
    <2> QED BY <1>2, <2>1 DEF Average, LegType
  <1> QED BY <1>1, <1>2 DEF LegType

LEMMA ClosesQuantity ==
    ASSUME NEW leg \in LegType, NEW q \in Int, Closes(leg, q)
    PROVE  leg.quantity # 0
  <1>1. leg.quantity \in Int
    BY DEF LegType
  <1> QED BY <1>1 DEF Closes

\* Products of a signed quantity.
LEMMA Distributes ==
    ASSUME NEW x \in Int, NEW y \in Int, NEW z \in Int
    PROVE  /\ x * y \in Int
           /\ -x * y = -(x * y)
           /\ x * (y - z) = x * y - x * z
           /\ -x * (y - z) = x * z - x * y
           /\ (x + y) * z = x * z + y * z
  OBVIOUS

(* A fill moves the basis of a leg, less what the leg realized, by exactly *)
(* what it paid, whether it opens, adds, reduces or closes (Leg.trade).    *)
LEMMA TradeIsPaid ==
    ASSUME NEW leg \in LegType, NEW q \in Int, NEW p \in Int, WholeAverage(leg, q)
    PROVE  /\ Traded(leg, q, p) \in LegType
           /\ Realized(leg, q, p) \in Int
           /\ Traded(leg, q, p).quantity = leg.quantity + q
           /\ Traded(leg, q, p).realized = leg.realized + Realized(leg, q, p)
           /\ Traded(leg, q, p).basis - Realized(leg, q, p) = leg.basis + q * p
  <1> DEFINE A == Average(leg)
  <1>1. leg.quantity \in Int /\ leg.basis \in Int /\ leg.realized \in Int
    BY DEF LegType
  <1>2. CASE Closes(leg, q)
    <2>1. A \in Int
      BY <1>2, ClosesQuantity, AverageIsInt
    <2>2. leg.basis = leg.quantity * A
      BY <1>2 DEF WholeAverage
    <2>3. Realized(leg, q, p) = -q * (p - A)
      BY <1>2 DEF Realized
    <2>4. Traded(leg, q, p) = [quantity |-> leg.quantity + q,
                               basis |-> (leg.quantity + q) * A,
                               realized |-> leg.realized + Realized(leg, q, p)]
      BY <1>2 DEF Traded
    <2> HIDE DEF A
    <2>5. /\ (leg.quantity + q) * A = leg.quantity * A + q * A
          /\ -q * (p - A) = q * A - q * p
          /\ q * A \in Int /\ q * p \in Int /\ leg.quantity * A \in Int
      BY <1>1, <2>1, Distributes
    <2>6. Realized(leg, q, p) \in Int /\ (leg.quantity + q) * A \in Int
      BY <2>3, <2>5
    <2>7. (leg.quantity + q) * A - Realized(leg, q, p) = leg.basis + q * p
      BY <2>2, <2>3, <2>5
    <2> QED BY <1>1, <2>4, <2>6, <2>7 DEF LegType
  <1>3. CASE ~Closes(leg, q)
    <2>1. Realized(leg, q, p) = 0
      BY <1>3 DEF Realized
    <2>2. Traded(leg, q, p) = [quantity |-> leg.quantity + q,
                               basis |-> leg.basis + q * p,
                               realized |-> leg.realized + 0]
      BY <1>3, <2>1 DEF Traded
    <2>3. q * p \in Int
      BY Distributes
    <2> QED BY <1>1, <2>1, <2>2, <2>3 DEF LegType
  <1> QED BY <1>2, <1>3

LEMMA FeeIsInt ==
    ASSUME NEW m \in Market, NEW t \in Nat, NEW q \in Int, NEW p \in Int,
           Quotable(m, t) # {}
    PROVE  Fee(m, t, q, p) \in Int
  <1> DEFINE period == CHOOSE x \in Quotable(m, t) : TRUE
             size   == IF q < 0 THEN -q ELSE q
  <1>1. period \in Quotable(m, t)
    OBVIOUS
  <1>2. period \in FeePeriods
    BY <1>1 DEF Quotable, Covering
  <1>3. period.taker \in Int
    BY <1>2, AccountingAssumption DEF ValidFeeSchedule
  <1>4. size \in Int
    OBVIOUS
  <1>5. Fee(m, t, q, p) = (size * p * period.taker) \div Parts
    BY DEF Fee
  <1> HIDE DEF period, size
  <1>6. size * p * period.taker \in Int
    BY <1>3, <1>4
  <1> QED BY <1>5, <1>6, AccountingAssumption
------------------------------------------------------------------------------
\* What is known of a fill that Ledger.fill accounts.
LEMMA AcceptedFill ==
    ASSUME NEW l, NEW f, FillError(l, f) = NoError
    PROVE  /\ f.id \notin l.event_ids
           /\ ~(f.time < l.time)
           /\ ~(f.time >= l.next_funding)
           /\ f.market = "perp" => ~Ambiguous(l, f.time)
           /\ ~Reverses(f.market, l[f.market], f.quantity)
           /\ Quotable(f.market, f.time) # {}
  BY DEF FillError, NoError, Misplaced

LEMMA AcceptedSettlement ==
    ASSUME NEW l, NEW e, SettleError(l, e) = NoError
    PROVE  /\ e.id \notin l.event_ids
           /\ ~(e.time < l.time)
           /\ e.time = l.next_funding
           /\ e.interval \in 1 .. 24
  BY DEF SettleError, NoError, Misplaced

LEMMA AcceptedCharge ==
    ASSUME NEW l, NEW e, FinanceError(l, e) = NoError
    PROVE  /\ e.id \notin l.event_ids
           /\ ~(e.time < l.time)
           /\ ~(e.time >= l.next_funding)
  BY DEF FinanceError, NoError, Misplaced
------------------------------------------------------------------------------
\* A fill leaves alone everything of the ledger but what Ledger.fill replaces.
LEMMA FilledKeeps ==
    ASSUME NEW l \in LedgerType, NEW f \in FillType
    PROVE  /\ Filled(l, f).initial = l.initial
           /\ Filled(l, f).next_funding = l.next_funding
           /\ Filled(l, f).last_funding = l.last_funding
           /\ Filled(l, f).time = f.time
           /\ Filled(l, f).event_ids = l.event_ids \cup {f.id}
           /\ Filled(l, f).funding = l.funding
           /\ Filled(l, f).financing = l.financing
  BY DEF Filled, Recorded, LedgerType, FillType, Market

\* A ledger with typed fields put in.
LEMMA LedgerWith ==
    ASSUME NEW l \in LedgerType, NEW time \in Nat, NEW ids \in SUBSET Nat, NEW leg \in LegType,
           NEW cash \in Int, NEW x \in Int, NEW y \in Int
    PROVE  /\ [l EXCEPT !.time = time, !.event_ids = ids, !.spot = leg, !.cash = cash,
                        !.fees = x, !.execution_cost = y] \in LedgerType
           /\ [l EXCEPT !.time = time, !.event_ids = ids, !.perp = leg, !.cash = cash,
                        !.fees = x, !.execution_cost = y] \in LedgerType
  BY DEF LedgerType

LEMMA SpotFilled ==
    ASSUME NEW l \in LedgerType, NEW f \in FillType, f.market = "spot",
           WholeAverage(l.spot, f.quantity), Quotable(f.market, f.time) # {}
    PROVE  /\ Filled(l, f) \in LedgerType
           /\ Filled(l, f).spot = Traded(l.spot, f.quantity, f.price)
           /\ Filled(l, f).perp = l.perp
           /\ Filled(l, f).cash = l.cash - f.quantity * f.price
                                    - Fee("spot", f.time, f.quantity, f.price)
           /\ Filled(l, f).fees = l.fees + Fee("spot", f.time, f.quantity, f.price)
           /\ Filled(l, f).execution_cost
                 = l.execution_cost + f.quantity * f.price - f.quantity * f.reference_mid
  <1> DEFINE fee == Fee("spot", f.time, f.quantity, f.price)
             leg == Traded(l.spot, f.quantity, f.price)
             gap == f.quantity * (f.price - f.reference_mid)
             paid == -f.quantity * f.price
  <1>1. f.quantity \in Int /\ f.price \in Int /\ f.reference_mid \in Int /\ f.time \in Nat
        /\ f.id \in Nat /\ "spot" \in Market
    BY DEF FillType, Market
  <1>2. fee \in Int
    BY <1>1, FeeIsInt
  <1>3. l.spot \in LegType
    BY DEF LedgerType
  <1>4. leg \in LegType
    BY <1>1, <1>3, TradeIsPaid
  <1>5. /\ paid = -(f.quantity * f.price) /\ f.quantity * f.price \in Int
        /\ gap = f.quantity * f.price - f.quantity * f.reference_mid
        /\ f.quantity * f.reference_mid \in Int
    BY <1>1, Distributes
  <1>6. Filled(l, f) = [Recorded(l, f) EXCEPT
              !["spot"] = leg, !.cash = @ + paid - fee, !.fees = @ + fee,
              !.execution_cost = @ + gap]
    BY DEF Filled
  <1> HIDE DEF fee, leg, gap, paid
  <1>7. Filled(l, f) = [l EXCEPT !.time = f.time, !.event_ids = l.event_ids \cup {f.id},
              !.spot = leg, !.cash = l.cash + paid - fee, !.fees = l.fees + fee,
              !.execution_cost = l.execution_cost + gap]
    BY <1>6 DEF Recorded, LedgerType
  <1>8. /\ l.cash + paid - fee \in Int /\ l.fees + fee \in Int
        /\ l.execution_cost + gap \in Int /\ l.event_ids \cup {f.id} \in SUBSET Nat
    BY <1>1, <1>2, <1>5 DEF LedgerType
  <1>9. Filled(l, f) \in LedgerType
    <2> DEFINE ids == l.event_ids \cup {f.id}
               cash == l.cash + paid - fee
               x == l.fees + fee
               y == l.execution_cost + gap
    <2>1. /\ f.time \in Nat /\ ids \in SUBSET Nat /\ leg \in LegType
          /\ cash \in Int /\ x \in Int /\ y \in Int
      BY <1>1, <1>4, <1>8
    <2> HIDE DEF ids, cash, x, y
    <2>2. [l EXCEPT !.time = f.time, !.event_ids = ids, !.spot = leg, !.cash = cash,
                    !.fees = x, !.execution_cost = y] \in LedgerType
      BY <2>1, LedgerWith
    <2> QED BY <1>7, <2>2 DEF ids, cash, x, y
  <1>10. /\ Filled(l, f).spot = leg /\ Filled(l, f).perp = l.perp
         /\ Filled(l, f).cash = l.cash + paid - fee
         /\ Filled(l, f).fees = l.fees + fee
         /\ Filled(l, f).execution_cost = l.execution_cost + gap
    BY <1>7 DEF LedgerType
  <1>11. l.cash \in Int /\ l.execution_cost \in Int
    BY DEF LedgerType
  <1>12. /\ Filled(l, f).cash = l.cash - f.quantity * f.price - fee
         /\ Filled(l, f).execution_cost
               = l.execution_cost + f.quantity * f.price - f.quantity * f.reference_mid
    BY <1>2, <1>5, <1>10, <1>11
  <1> QED BY <1>9, <1>10, <1>12 DEF fee, leg

LEMMA PerpFilled ==
    ASSUME NEW l \in LedgerType, NEW f \in FillType, f.market = "perp",
           WholeAverage(l.perp, f.quantity), Quotable(f.market, f.time) # {}
    PROVE  /\ Filled(l, f) \in LedgerType
           /\ Filled(l, f).perp = Traded(l.perp, f.quantity, f.price)
           /\ Filled(l, f).spot = l.spot
           /\ Filled(l, f).cash = l.cash + Realized(l.perp, f.quantity, f.price)
                                    - Fee("perp", f.time, f.quantity, f.price)
           /\ Filled(l, f).fees = l.fees + Fee("perp", f.time, f.quantity, f.price)
           /\ Filled(l, f).execution_cost
                 = l.execution_cost + f.quantity * f.price - f.quantity * f.reference_mid
  <1> DEFINE fee == Fee("perp", f.time, f.quantity, f.price)
             leg == Traded(l.perp, f.quantity, f.price)
             gap == f.quantity * (f.price - f.reference_mid)
             paid == Realized(l.perp, f.quantity, f.price)
  <1>1. f.quantity \in Int /\ f.price \in Int /\ f.reference_mid \in Int /\ f.time \in Nat
        /\ f.id \in Nat /\ "perp" \in Market
    BY DEF FillType, Market
  <1>2. fee \in Int
    BY <1>1, FeeIsInt
  <1>3. l.perp \in LegType
    BY DEF LedgerType
  <1>4. leg \in LegType /\ paid \in Int
    BY <1>1, <1>3, TradeIsPaid
  <1>5. /\ f.quantity * f.price \in Int
        /\ gap = f.quantity * f.price - f.quantity * f.reference_mid
        /\ f.quantity * f.reference_mid \in Int
    BY <1>1, Distributes
  <1>6. Filled(l, f) = [Recorded(l, f) EXCEPT
              !["perp"] = leg, !.cash = @ + paid - fee, !.fees = @ + fee,
              !.execution_cost = @ + gap]
    BY DEF Filled
  <1> HIDE DEF fee, leg, gap, paid
  <1>7. Filled(l, f) = [l EXCEPT !.time = f.time, !.event_ids = l.event_ids \cup {f.id},
              !.perp = leg, !.cash = l.cash + paid - fee, !.fees = l.fees + fee,
              !.execution_cost = l.execution_cost + gap]
    BY <1>6 DEF Recorded, LedgerType
  <1>8. /\ l.cash + paid - fee \in Int /\ l.fees + fee \in Int
        /\ l.execution_cost + gap \in Int /\ l.event_ids \cup {f.id} \in SUBSET Nat
    BY <1>1, <1>2, <1>4, <1>5 DEF LedgerType
  <1>9. Filled(l, f) \in LedgerType
    <2> DEFINE ids == l.event_ids \cup {f.id}
               cash == l.cash + paid - fee
               x == l.fees + fee
               y == l.execution_cost + gap
    <2>1. /\ f.time \in Nat /\ ids \in SUBSET Nat /\ leg \in LegType
          /\ cash \in Int /\ x \in Int /\ y \in Int
      BY <1>1, <1>4, <1>8
    <2> HIDE DEF ids, cash, x, y
    <2>2. [l EXCEPT !.time = f.time, !.event_ids = ids, !.perp = leg, !.cash = cash,
                    !.fees = x, !.execution_cost = y] \in LedgerType
      BY <2>1, LedgerWith
    <2> QED BY <1>7, <2>2 DEF ids, cash, x, y
  <1>10. /\ Filled(l, f).perp = leg /\ Filled(l, f).spot = l.spot
         /\ Filled(l, f).cash = l.cash + paid - fee
         /\ Filled(l, f).fees = l.fees + fee
         /\ Filled(l, f).execution_cost = l.execution_cost + gap
    BY <1>7 DEF LedgerType
  <1>11. l.execution_cost \in Int
    BY DEF LedgerType
  <1>12. Filled(l, f).execution_cost
           = l.execution_cost + f.quantity * f.price - f.quantity * f.reference_mid
    BY <1>5, <1>10, <1>11
  <1> QED BY <1>9, <1>10, <1>12 DEF fee, leg, paid

LEMMA SettledFields ==
    ASSUME NEW l \in LedgerType, NEW e, e.id \in Nat, e.time \in Nat,
           e.interval \in 1 .. 24, e.mark \in Int, e.rate \in Int
    PROVE  /\ Settled(l, e) \in LedgerType
           /\ Settled(l, e) = [l EXCEPT
                 !.time = e.time, !.event_ids = l.event_ids \cup {e.id},
                 !.cash = l.cash + Payment(l, e), !.funding = l.funding + Payment(l, e),
                 !.next_funding = e.time + e.interval * Hour, !.last_funding = e.time]
           /\ Payment(l, e) \in Int
  <1>1. Payment(l, e) \in Int
    <2>1. l.perp.quantity \in Int
      BY DEF LedgerType, LegType
    <2>2. l.perp.quantity * e.mark * e.rate \in Int
      BY <2>1
    <2> QED BY <2>2, AccountingAssumption DEF Payment
  <1>2. Settled(l, e) = [l EXCEPT
                 !.time = e.time, !.event_ids = l.event_ids \cup {e.id},
                 !.cash = l.cash + Payment(l, e), !.funding = l.funding + Payment(l, e),
                 !.next_funding = e.time + e.interval * Hour, !.last_funding = e.time]
    BY DEF Settled, Recorded, LedgerType
  <1>3. /\ l.cash + Payment(l, e) \in Int /\ l.funding + Payment(l, e) \in Int
        /\ e.time + e.interval * Hour \in Nat /\ l.event_ids \cup {e.id} \in SUBSET Nat
    BY <1>1, AccountingAssumption DEF LedgerType
  <1>4. Settled(l, e) \in LedgerType
    <2> DEFINE ids == l.event_ids \cup {e.id}
               cash == l.cash + Payment(l, e)
               funding == l.funding + Payment(l, e)
               next == e.time + e.interval * Hour
    <2>1. /\ ids \in SUBSET Nat /\ cash \in Int /\ funding \in Int /\ next \in Nat
          /\ e.time \in Nat \cup {Never}
      BY <1>3
    <2> HIDE DEF ids, cash, funding, next
    <2>2. [l EXCEPT !.time = e.time, !.event_ids = ids, !.cash = cash, !.funding = funding,
                    !.next_funding = next, !.last_funding = e.time] \in LedgerType
      BY <2>1 DEF LedgerType
    <2> QED BY <1>2, <2>2 DEF ids, cash, funding, next
  <1> QED BY <1>1, <1>2, <1>4
------------------------------------------------------------------------------
\* A new id is one more id.
LEMMA OneMoreEvent ==
    ASSUME NEW ids, NEW id, IsFiniteSet(ids), id \notin ids
    PROVE  /\ IsFiniteSet(ids \cup {id})
           /\ Cardinality(ids \cup {id}) = Cardinality(ids) + 1
  BY FS_AddElement

LEMMA LedgerInitInv == LedgerInit => LedgerInv
  <1> SUFFICES ASSUME LedgerInit PROVE LedgerInv
    OBVIOUS
  <1>1. /\ ledger = [initial |-> Capital, cash |-> Capital, next_funding |-> FirstFunding,
                      time |-> 0, last_funding |-> Never, event_ids |-> {},
                      spot |-> FlatLeg, perp |-> FlatLeg,
                      funding |-> 0, fees |-> 0, financing |-> 0, execution_cost |-> 0]
        /\ events = 0 /\ settlements = <<>> /\ perpFills = {} /\ referenced = 0
    BY DEF LedgerInit, NewLedger
  <1>2. FlatLeg = [quantity |-> 0, basis |-> 0, realized |-> 0] /\ FlatLeg \in LegType
    BY DEF FlatLeg, LegType
  <1>3. Capital \in Int /\ FirstFunding \in Nat \ {0}
    BY LedgerAssumption
  <1>4. LedgerTypeOK
    <2>1. settlements \in Seq([time : Nat, interval : 1 .. 24])
      BY <1>1
    <2> QED BY <1>1, <1>2, <1>3, <2>1 DEF LedgerTypeOK
  <1>5. CashIsAccountedFor
    BY <1>1, <1>2, <1>3 DEF CashIsAccountedFor, LegsOneSided
  <1>6. FillsAreInTheLegs
    BY <1>1, <1>2 DEF FillsAreInTheLegs
  <1>7. Len(settlements) = 0
    BY <1>1
  <1>8. BoundariesAreKept /\ FillsKeepClearOfSettlements
    BY <1>1, <1>7 DEF BoundariesAreKept, FillsKeepClearOfSettlements, Never
  <1>9. SettlementsAreComplete
    BY <1>1, <1>3, <1>7, FS_EmptySet DEF SettlementsAreComplete
  <1> QED BY <1>4, <1>5, <1>6, <1>8, <1>9 DEF LedgerInv

\* The ledger a fill yields, whichever leg it trades.
LEMMA FillBalances ==
    ASSUME LedgerInv, NEW f \in FillType, Fill(f)
    PROVE  /\ ledger' \in LedgerType
           /\ CashIsAccountedFor'
           /\ FillsAreInTheLegs'
  <1>1. ledger \in LedgerType /\ referenced \in Int
    BY DEF LedgerInv, LedgerTypeOK, LedgerType
  <1>2. /\ Quotable(f.market, f.time) # {}
        /\ ~Reverses(f.market, ledger[f.market], f.quantity)
    BY AcceptedFill DEF Fill
  <1>3. /\ ledger' = Filled(ledger, f)
        /\ referenced' = referenced + f.quantity * f.reference_mid
        /\ WholeAverage(ledger[f.market], f.quantity)
    BY DEF Fill
  <1>4. /\ ledger.spot \in LegType /\ ledger.perp \in LegType
        /\ f.quantity \in Int /\ f.price \in Int /\ f.reference_mid \in Int
        /\ f.time \in Nat /\ f.market \in Market
    BY <1>1 DEF LedgerType, FillType
  <1>5. f.quantity * f.price \in Int /\ f.quantity * f.reference_mid \in Int
    BY <1>4, Distributes
  <1>6. /\ ledger.initial \in Int /\ ledger.cash \in Int /\ ledger.funding \in Int
        /\ ledger.fees \in Int /\ ledger.financing \in Int /\ ledger.execution_cost \in Int
        /\ ledger.spot.quantity \in Int /\ ledger.spot.basis \in Int
        /\ ledger.spot.realized \in Int /\ ledger.perp.quantity \in Int
        /\ ledger.perp.basis \in Int /\ ledger.perp.realized \in Int
    BY <1>1 DEF LedgerType, LegType
  <1>7. /\ ledger'.initial = ledger.initial /\ ledger'.funding = ledger.funding
        /\ ledger'.financing = ledger.financing
    BY <1>1, <1>3, FilledKeeps
  <1>8. /\ ledger.spot.quantity >= 0 /\ ledger.perp.quantity <= 0
        /\ ledger.cash = ledger.initial + ledger.spot.realized - ledger.spot.basis
                           + ledger.perp.realized
                           + ledger.funding - ledger.fees - ledger.financing
        /\ referenced = (ledger.spot.basis - ledger.spot.realized)
                          + (ledger.perp.basis - ledger.perp.realized) - ledger.execution_cost
    BY DEF LedgerInv, CashIsAccountedFor, LegsOneSided, FillsAreInTheLegs
  <1>9. CASE f.market = "spot"
    <2> DEFINE leg == Traded(ledger.spot, f.quantity, f.price)
               made == Realized(ledger.spot, f.quantity, f.price)
               fee == Fee("spot", f.time, f.quantity, f.price)
    <2>1. WholeAverage(ledger.spot, f.quantity)
      BY <1>3, <1>9
    <2>2. /\ ledger' \in LedgerType
          /\ ledger'.spot = leg /\ ledger'.perp = ledger.perp
          /\ ledger'.cash = ledger.cash - f.quantity * f.price - fee
          /\ ledger'.fees = ledger.fees + fee
          /\ ledger'.execution_cost = ledger.execution_cost + f.quantity * f.price
                                        - f.quantity * f.reference_mid
      BY <1>1, <1>2, <1>3, <1>9, <2>1, SpotFilled
    <2>3. /\ leg \in LegType /\ made \in Int
          /\ leg.quantity = ledger.spot.quantity + f.quantity
          /\ leg.realized = ledger.spot.realized + made
          /\ leg.basis - made = ledger.spot.basis + f.quantity * f.price
      BY <1>4, <2>1, TradeIsPaid
    <2>4. fee \in Int
      BY <1>2, <1>4, <1>9, FeeIsInt
    <2>5. ledger.spot.quantity + f.quantity >= 0
      BY <1>2, <1>4, <1>6, <1>9 DEF Reverses
    <2>6. leg.basis \in Int
      BY <2>3 DEF LegType
    <2> HIDE DEF leg, made, fee
    <2>7. ledger'.spot.quantity >= 0 /\ ledger'.perp.quantity <= 0
      BY <1>8, <2>2, <2>3, <2>5
    <2>8. ledger'.cash = ledger'.initial + ledger'.spot.realized - ledger'.spot.basis
                           + ledger'.perp.realized
                           + ledger'.funding - ledger'.fees - ledger'.financing
      BY <1>5, <1>6, <1>7, <1>8, <2>2, <2>3, <2>4, <2>6
    <2>9. /\ ledger'.spot.basis - ledger'.spot.realized
                = ledger.spot.basis - ledger.spot.realized + f.quantity * f.price
          /\ ledger'.perp.basis - ledger'.perp.realized
                = ledger.perp.basis - ledger.perp.realized
      BY <1>5, <1>6, <2>2, <2>3, <2>6
    <2>10. referenced' = referenced + f.quantity * f.reference_mid
      BY <1>3
    <2>11. referenced' = (ledger'.spot.basis - ledger'.spot.realized)
            + (ledger'.perp.basis - ledger'.perp.realized) - ledger'.execution_cost
      BY <1>5, <1>6, <1>8, <2>2, <2>9, <2>10
    <2> QED BY <2>2, <2>7, <2>8, <2>11 DEF CashIsAccountedFor, LegsOneSided, FillsAreInTheLegs
  <1>10. CASE f.market = "perp"
    <2> DEFINE leg == Traded(ledger.perp, f.quantity, f.price)
               made == Realized(ledger.perp, f.quantity, f.price)
               fee == Fee("perp", f.time, f.quantity, f.price)
    <2>1. WholeAverage(ledger.perp, f.quantity)
      BY <1>3, <1>10
    <2>2. /\ ledger' \in LedgerType
          /\ ledger'.perp = leg /\ ledger'.spot = ledger.spot
          /\ ledger'.cash = ledger.cash + made - fee
          /\ ledger'.fees = ledger.fees + fee
          /\ ledger'.execution_cost = ledger.execution_cost + f.quantity * f.price
                                        - f.quantity * f.reference_mid
      BY <1>1, <1>2, <1>3, <1>10, <2>1, PerpFilled
    <2>3. /\ leg \in LegType /\ made \in Int
          /\ leg.quantity = ledger.perp.quantity + f.quantity
          /\ leg.realized = ledger.perp.realized + made
          /\ leg.basis - made = ledger.perp.basis + f.quantity * f.price
      BY <1>4, <2>1, TradeIsPaid
    <2>4. fee \in Int
      BY <1>2, <1>4, <1>10, FeeIsInt
    <2>5. ledger.perp.quantity + f.quantity <= 0
      BY <1>2, <1>4, <1>6, <1>10 DEF Reverses
    <2>6. leg.basis \in Int
      BY <2>3 DEF LegType
    <2> HIDE DEF leg, made, fee
    <2>7. ledger'.spot.quantity >= 0 /\ ledger'.perp.quantity <= 0
      BY <1>8, <2>2, <2>3, <2>5
    <2>8. ledger'.cash = ledger'.initial + ledger'.spot.realized - ledger'.spot.basis
                           + ledger'.perp.realized
                           + ledger'.funding - ledger'.fees - ledger'.financing
      BY <1>5, <1>6, <1>7, <1>8, <2>2, <2>3, <2>4
    <2>9. /\ ledger'.perp.basis - ledger'.perp.realized
                = ledger.perp.basis - ledger.perp.realized + f.quantity * f.price
          /\ ledger'.spot.basis - ledger'.spot.realized
                = ledger.spot.basis - ledger.spot.realized
      BY <1>5, <1>6, <2>2, <2>3, <2>6
    <2>10. referenced' = referenced + f.quantity * f.reference_mid
      BY <1>3
    <2>11. referenced' = (ledger'.spot.basis - ledger'.spot.realized)
            + (ledger'.perp.basis - ledger'.perp.realized) - ledger'.execution_cost
      BY <1>5, <1>6, <1>8, <2>2, <2>9, <2>10
    <2> QED BY <2>2, <2>7, <2>8, <2>11 DEF CashIsAccountedFor, LegsOneSided, FillsAreInTheLegs
  <1> QED BY <1>4, <1>9, <1>10 DEF Market

Settlement == [time : Nat, interval : 1 .. 24]

LEMMA SettlementAt ==
    ASSUME NEW s \in Seq(Settlement), NEW i \in 1 .. Len(s)
    PROVE  s[i].time \in Nat /\ s[i].interval \in 1 .. 24
  <1>1. s[i] \in Settlement
    OBVIOUS
  <1> QED BY <1>1 DEF Settlement

\* A fill settles nothing, and a perp fill is clear of the settlements around it.
LEMMA FillKeepsBoundaries ==
    ASSUME LedgerInv, events' = events + 1, NEW f \in FillType, Fill(f)
    PROVE  BoundariesAreKept' /\ FillsKeepClearOfSettlements' /\ SettlementsAreComplete'
           /\ perpFills' \subseteq Nat
  <1>1. /\ ledger \in LedgerType /\ perpFills \subseteq Nat
        /\ settlements \in Seq([time : Nat, interval : 1 .. 24])
    BY DEF LedgerInv, LedgerTypeOK, LedgerType
  <1>2. /\ f.id \notin ledger.event_ids
        /\ ledger.time <= f.time /\ f.time < ledger.next_funding
        /\ f.market = "perp" => ~Ambiguous(ledger, f.time)
    <2>1. f.time \in Nat /\ ledger.time \in Nat /\ ledger.next_funding \in Nat
      BY <1>1 DEF FillType, LedgerType
    <2> QED BY <2>1, AcceptedFill DEF Fill
  <1>3. ledger' = Filled(ledger, f) /\ settlements' = settlements
    BY DEF Fill
  <1>4. /\ ledger'.next_funding = ledger.next_funding
        /\ ledger'.last_funding = ledger.last_funding
        /\ ledger'.time = f.time
        /\ ledger'.event_ids = ledger.event_ids \cup {f.id}
    BY <1>1, <1>3, FilledKeeps
  <1>5. /\ f.time \in Nat /\ ledger.time \in Nat /\ ledger.next_funding \in Nat
        /\ ledger.last_funding \in Int /\ Guard \in Nat
    BY <1>1, AccountingAssumption DEF FillType, LedgerType, Never
  <1>6. \A i \in 1 .. Len(settlements) : settlements[i].time \in Nat
    BY <1>1, SettlementAt DEF Settlement
  <1>7. BoundariesAreKept /\ FillsKeepClearOfSettlements /\ SettlementsAreComplete
    BY DEF LedgerInv
  <1>8. perpFills' \subseteq perpFills \cup {f.time}
    BY DEF Fill
  <1>9. f.time \in perpFills' => f.time \in perpFills \/ f.market = "perp"
    BY DEF Fill
  <1>10. f.market = "perp" =>
            /\ ledger.next_funding - f.time > Guard
            /\ ledger.last_funding # Never => f.time - ledger.last_funding > Guard
    BY <1>2, <1>5 DEF Ambiguous
  <1>11. BoundariesAreKept'
    <2>1. \A i \in 1 .. Len(settlements') : settlements'[i].time <= ledger'.last_funding
      BY <1>3, <1>4, <1>7 DEF BoundariesAreKept
    <2>2. ledger'.last_funding <= ledger'.time
      BY <1>2, <1>4, <1>5, <1>7 DEF BoundariesAreKept
    <2>3. \A g \in perpFills' : ledger'.next_funding - g > Guard
      BY <1>4, <1>7, <1>8, <1>9, <1>10 DEF BoundariesAreKept
    <2> QED BY <2>1, <2>2, <2>3 DEF BoundariesAreKept
  <1>12. FillsKeepClearOfSettlements'
    <2> SUFFICES ASSUME NEW g \in perpFills', NEW i \in 1 .. Len(settlements)
                 PROVE  settlements[i].time - g > Guard \/ g - settlements[i].time > Guard
      BY <1>3 DEF FillsKeepClearOfSettlements
    <2>1. CASE g \in perpFills
      BY <1>7, <2>1 DEF FillsKeepClearOfSettlements
    <2>2. CASE g \notin perpFills
      <3>1. g = f.time /\ f.market = "perp"
        BY <1>8, <1>9, <2>2
      <3>2. settlements[i].time \in Nat /\ settlements[i].time <= ledger.last_funding
        BY <1>6, <1>7 DEF BoundariesAreKept
      <3>3. ledger.last_funding # Never
        BY <1>5, <3>2 DEF Never
      <3> QED BY <1>5, <1>10, <3>1, <3>2, <3>3
    <2> QED BY <2>1, <2>2
  <1>13. SettlementsAreComplete'
    <2>1. IsFiniteSet(ledger'.event_ids) /\ Cardinality(ledger'.event_ids) = events'
      BY <1>2, <1>4, <1>7, OneMoreEvent DEF SettlementsAreComplete
    <2> QED BY <1>2, <1>3, <1>4, <1>7, <2>1 DEF SettlementsAreComplete
  <1> QED BY <1>1, <1>5, <1>8, <1>11, <1>12, <1>13

LEMMA FillInv ==
    ASSUME LedgerInv, events' = events + 1, NEW f \in FillType, Fill(f)
    PROVE  LedgerInv'
  <1>1. ledger' \in LedgerType /\ CashIsAccountedFor' /\ FillsAreInTheLegs'
    BY FillBalances
  <1>2. /\ BoundariesAreKept' /\ FillsKeepClearOfSettlements' /\ SettlementsAreComplete'
        /\ perpFills' \subseteq Nat
    BY FillKeepsBoundaries
  <1>3. events' \in Nat /\ referenced' \in Int /\ settlements' = settlements
    <2>1. f.quantity * f.reference_mid \in Int
      BY Distributes DEF FillType
    <2> QED BY <2>1 DEF LedgerInv, LedgerTypeOK, Fill
  <1>4. LedgerTypeOK'
    BY <1>1, <1>2, <1>3 DEF LedgerInv, LedgerTypeOK, LedgerType
  <1> QED BY <1>1, <1>2, <1>4 DEF LedgerInv

LEMMA SettleInv ==
    ASSUME LedgerInv, events' = events + 1,
           NEW e, e.id \in Nat, e.time \in Nat, e.mark \in Int, e.rate \in Int,
           Settle(e)
    PROVE  LedgerInv'
  <1> DEFINE paid == Payment(ledger, e)
             next == e.time + e.interval * Hour
             added == [time |-> e.time, interval |-> e.interval]
  <1>1. /\ ledger \in LedgerType /\ settlements \in Seq(Settlement)
        /\ perpFills \subseteq Nat /\ events \in Nat /\ referenced \in Int
    BY DEF LedgerInv, LedgerTypeOK, LedgerType, Settlement
  <1>2. /\ e.id \notin ledger.event_ids /\ ~(e.time < ledger.time)
        /\ e.time = ledger.next_funding /\ e.interval \in 1 .. 24
    BY AcceptedSettlement DEF Settle
  <1>3. /\ ledger' = Settled(ledger, e) /\ settlements' = Append(settlements, added)
        /\ perpFills' = perpFills /\ referenced' = referenced
    BY DEF Settle
  <1>4. /\ ledger' \in LedgerType /\ paid \in Int
        /\ ledger' = [ledger EXCEPT
                 !.time = e.time, !.event_ids = ledger.event_ids \cup {e.id},
                 !.cash = ledger.cash + paid, !.funding = ledger.funding + paid,
                 !.next_funding = next, !.last_funding = e.time]
    BY <1>1, <1>2, <1>3, SettledFields
  <1> HIDE DEF paid
  <1>5. /\ ledger'.time = e.time /\ ledger'.event_ids = ledger.event_ids \cup {e.id}
        /\ ledger'.cash = ledger.cash + paid /\ ledger'.funding = ledger.funding + paid
        /\ ledger'.next_funding = next /\ ledger'.last_funding = e.time
        /\ ledger'.initial = ledger.initial /\ ledger'.fees = ledger.fees
        /\ ledger'.financing = ledger.financing
        /\ ledger'.execution_cost = ledger.execution_cost
        /\ ledger'.spot = ledger.spot /\ ledger'.perp = ledger.perp
    BY <1>1, <1>4 DEF LedgerType
  <1>6. next \in Nat /\ next > e.time
    <2>1. Hour \in Nat \ {0} /\ e.interval \in Nat \ {0}
      BY <1>2, AccountingAssumption
    <2>2. e.interval * Hour \in Nat \ {0}
      BY <2>1
    <2> QED BY <2>2
  <1> HIDE DEF next
  <1>7. CashIsAccountedFor' /\ FillsAreInTheLegs'
    <2>1. /\ ledger.initial \in Int /\ ledger.cash \in Int /\ ledger.funding \in Int
          /\ ledger.fees \in Int /\ ledger.financing \in Int
          /\ ledger.spot.basis \in Int /\ ledger.spot.realized \in Int
          /\ ledger.perp.realized \in Int
      BY <1>1 DEF LedgerType, LegType
    <2>2. /\ LegsOneSided
          /\ ledger.cash = ledger.initial + ledger.spot.realized - ledger.spot.basis
                             + ledger.perp.realized
                             + ledger.funding - ledger.fees - ledger.financing
      BY DEF LedgerInv, CashIsAccountedFor
    <2>3. ledger.cash + paid = ledger.initial + ledger.spot.realized - ledger.spot.basis
                             + ledger.perp.realized
                             + (ledger.funding + paid) - ledger.fees - ledger.financing
      BY <1>4, <2>1, <2>2
    <2>4. CashIsAccountedFor'
      BY <1>5, <2>2, <2>3 DEF CashIsAccountedFor, LegsOneSided
    <2>5. FillsAreInTheLegs'
      BY <1>3, <1>5 DEF LedgerInv, FillsAreInTheLegs
    <2> QED BY <2>4, <2>5
  <1>8. /\ added \in Settlement
        /\ settlements' \in Seq(Settlement)
        /\ Len(settlements') = Len(settlements) + 1 /\ Len(settlements) \in Nat
        /\ settlements'[Len(settlements) + 1] = added
        /\ \A i \in 1 .. Len(settlements) : settlements'[i] = settlements[i]
    BY <1>1, <1>2, <1>3 DEF Settlement
  <1> HIDE DEF added
  <1>9. added.time = e.time /\ added.interval = e.interval
    BY DEF added
  <1>10. BoundariesAreKept /\ FillsKeepClearOfSettlements /\ SettlementsAreComplete
    BY DEF LedgerInv
  <1>11. /\ ledger.time \in Nat /\ ledger.next_funding \in Nat
         /\ ledger.last_funding \in Int /\ Guard \in Nat
         /\ \A i \in 1 .. Len(settlements) : settlements[i].time \in Nat
    BY <1>1, SettlementAt, AccountingAssumption DEF LedgerType, Never
  <1>12. BoundariesAreKept'
    <2>1. \A i \in 1 .. Len(settlements') : settlements'[i].time <= ledger'.last_funding
      <3> SUFFICES ASSUME NEW i \in 1 .. Len(settlements')
                   PROVE  settlements'[i].time <= ledger'.last_funding
        OBVIOUS
      <3>1. CASE i = Len(settlements) + 1
        BY <1>5, <1>8, <1>9, <3>1
      <3>2. CASE i \in 1 .. Len(settlements)
        BY <1>2, <1>5, <1>8, <1>10, <1>11, <3>2 DEF BoundariesAreKept
      <3> QED BY <1>8, <3>1, <3>2
    <2>2. ledger'.last_funding <= ledger'.time
      BY <1>5
    <2>3. \A g \in perpFills' : ledger'.next_funding - g > Guard
      BY <1>1, <1>2, <1>3, <1>5, <1>6, <1>10, <1>11 DEF BoundariesAreKept
    <2> QED BY <2>1, <2>2, <2>3 DEF BoundariesAreKept
  <1>13. FillsKeepClearOfSettlements'
    <2> SUFFICES ASSUME NEW g \in perpFills, NEW i \in 1 .. Len(settlements')
                 PROVE  settlements'[i].time - g > Guard \/ g - settlements'[i].time > Guard
      BY <1>3 DEF FillsKeepClearOfSettlements
    <2>1. CASE i = Len(settlements) + 1
      BY <1>2, <1>8, <1>9, <1>10, <2>1 DEF BoundariesAreKept
    <2>2. CASE i \in 1 .. Len(settlements)
      BY <1>8, <1>10, <2>2 DEF FillsKeepClearOfSettlements
    <2> QED BY <1>8, <2>1, <2>2
  <1>14. SettlementsAreComplete'
    <2>1. IsFiniteSet(ledger'.event_ids) /\ Cardinality(ledger'.event_ids) = events'
      BY <1>2, <1>5, <1>10, OneMoreEvent DEF SettlementsAreComplete
    <2>2. ledger'.time < ledger'.next_funding
      BY <1>5, <1>6
    <2>3. settlements' # <<>>
      BY <1>8
    <2>4. ledger'.next_funding = settlements'[Len(settlements')].time
                                   + settlements'[Len(settlements')].interval * Hour
      BY <1>5, <1>8, <1>9 DEF next
    <2>5. \A i \in 1 .. Len(settlements') : settlements'[i].time =
             IF i = 1 THEN FirstFunding
             ELSE settlements'[i - 1].time + settlements'[i - 1].interval * Hour
      <3> SUFFICES ASSUME NEW i \in 1 .. Len(settlements')
                   PROVE  settlements'[i].time =
                            IF i = 1 THEN FirstFunding
                            ELSE settlements'[i - 1].time + settlements'[i - 1].interval * Hour
        OBVIOUS
      <3>1. CASE i \in 1 .. Len(settlements)
        <4>1. i # 1 => i - 1 \in 1 .. Len(settlements)
          BY <1>8, <3>1
        <4> QED BY <1>8, <1>10, <3>1, <4>1 DEF SettlementsAreComplete
      <3>2. CASE i = Len(settlements) + 1 /\ settlements = <<>>
        <4>1. i = 1
          BY <3>2
        <4> QED BY <1>2, <1>8, <1>9, <1>10, <3>2, <4>1 DEF SettlementsAreComplete
      <3>3. CASE i = Len(settlements) + 1 /\ settlements # <<>>
        <4>1. Len(settlements) \in 1 .. Len(settlements) /\ i - 1 = Len(settlements) /\ i # 1
          BY <1>1, <1>8, <3>3
        <4>2. settlements'[i - 1] = settlements[Len(settlements)]
          BY <1>8, <4>1
        <4> QED BY <1>2, <1>8, <1>9, <1>10, <3>3, <4>1, <4>2 DEF SettlementsAreComplete
      <3> QED BY <1>8, <3>1, <3>2, <3>3
    <2> QED BY <2>1, <2>2, <2>3, <2>4, <2>5 DEF SettlementsAreComplete
  <1>15. LedgerTypeOK'
    <2>1. events' \in Nat /\ perpFills' \subseteq Nat /\ referenced' \in Int
      BY <1>1, <1>3
    <2> QED BY <1>4, <1>8, <2>1 DEF LedgerTypeOK, LedgerType, Settlement
  <1> QED BY <1>7, <1>12, <1>13, <1>14, <1>15 DEF LedgerInv

LEMMA FinanceInv ==
    ASSUME LedgerInv, events' = events + 1,
           NEW e, e.id \in Nat, e.time \in Nat, e.cost \in Int, Finance(e)
    PROVE  LedgerInv'
  <1>1. /\ ledger \in LedgerType /\ events \in Nat
    BY DEF LedgerInv, LedgerTypeOK, LedgerType
  <1>2. /\ e.id \notin ledger.event_ids
        /\ ~(e.time < ledger.time) /\ ~(e.time >= ledger.next_funding)
    BY AcceptedCharge DEF Finance
  <1>3. /\ ledger' = Financed(ledger, e) /\ settlements' = settlements
        /\ perpFills' = perpFills /\ referenced' = referenced
    BY DEF Finance
  <1>4. ledger' = [ledger EXCEPT
             !.time = e.time, !.event_ids = ledger.event_ids \cup {e.id},
             !.cash = ledger.cash - e.cost, !.financing = ledger.financing + e.cost]
    BY <1>1, <1>3 DEF Financed, Recorded, LedgerType
  <1>5. /\ ledger.initial \in Int /\ ledger.cash \in Int /\ ledger.funding \in Int
        /\ ledger.fees \in Int /\ ledger.financing \in Int
        /\ ledger.spot.basis \in Int /\ ledger.spot.realized \in Int
        /\ ledger.perp.realized \in Int
        /\ ledger.time \in Nat /\ ledger.next_funding \in Nat /\ ledger.last_funding \in Int
    BY <1>1 DEF LedgerType, LegType, Never
  <1>6. /\ ledger.cash - e.cost \in Int /\ ledger.financing + e.cost \in Int
        /\ ledger.event_ids \cup {e.id} \in SUBSET Nat
    BY <1>1, <1>5 DEF LedgerType
  <1>7. ledger' \in LedgerType
    BY <1>1, <1>4, <1>6 DEF LedgerType
  <1>8. /\ ledger'.time = e.time /\ ledger'.event_ids = ledger.event_ids \cup {e.id}
        /\ ledger'.cash = ledger.cash - e.cost
        /\ ledger'.financing = ledger.financing + e.cost
        /\ ledger'.next_funding = ledger.next_funding
        /\ ledger'.last_funding = ledger.last_funding
        /\ ledger'.initial = ledger.initial /\ ledger'.fees = ledger.fees
        /\ ledger'.funding = ledger.funding
        /\ ledger'.execution_cost = ledger.execution_cost
        /\ ledger'.spot = ledger.spot /\ ledger'.perp = ledger.perp
    BY <1>1, <1>4 DEF LedgerType
  <1>9. CashIsAccountedFor'
    <2>1. /\ LegsOneSided
          /\ ledger.cash = ledger.initial + ledger.spot.realized - ledger.spot.basis
                             + ledger.perp.realized
                             + ledger.funding - ledger.fees - ledger.financing
      BY DEF LedgerInv, CashIsAccountedFor
    <2>2. ledger.cash - e.cost = ledger.initial + ledger.spot.realized - ledger.spot.basis
                             + ledger.perp.realized
                             + ledger.funding - ledger.fees - (ledger.financing + e.cost)
      BY <1>5, <2>1
    <2> QED BY <1>8, <2>1, <2>2 DEF CashIsAccountedFor, LegsOneSided
  <1>10. FillsAreInTheLegs' /\ FillsKeepClearOfSettlements'
    BY <1>3, <1>8 DEF LedgerInv, FillsAreInTheLegs, FillsKeepClearOfSettlements
  <1>11. BoundariesAreKept'
    BY <1>2, <1>3, <1>5, <1>8 DEF LedgerInv, BoundariesAreKept
  <1>12. SettlementsAreComplete'
    <2>1. SettlementsAreComplete
      BY DEF LedgerInv
    <2>2. IsFiniteSet(ledger'.event_ids) /\ Cardinality(ledger'.event_ids) = events'
      BY <1>2, <1>8, <2>1, OneMoreEvent DEF SettlementsAreComplete
    <2> QED BY <1>2, <1>3, <1>5, <1>8, <2>1, <2>2 DEF SettlementsAreComplete
  <1>13. LedgerTypeOK'
    <2>1. LedgerTypeOK
      BY DEF LedgerInv
    <2>2. events' \in Nat
      BY <1>3, <2>1 DEF LedgerTypeOK
    <2>3. /\ settlements' \in Seq([time : Nat, interval : 1 .. 24])
          /\ perpFills' \subseteq Nat /\ referenced' \in Int
      BY <1>3, <2>1 DEF LedgerTypeOK
    <2> QED BY <1>7, <2>2, <2>3, Zenon DEF LedgerTypeOK, LedgerType
  <1> QED BY <1>9, <1>10, <1>11, <1>12, <1>13 DEF LedgerInv
------------------------------------------------------------------------------
\* The events a caller may submit are typed: what LedgerNext chooses from.
LEMMA EventsAreTyped ==
    ASSUME LedgerInv
    PROVE  /\ Ids \subseteq Nat /\ Times \subseteq Nat
           /\ Quantities \subseteq Int /\ Prices \subseteq Int
           /\ Rates \subseteq Int /\ Costs \subseteq Int
  BY LedgerAssumption DEF LedgerInv, LedgerTypeOK, Ids

LEMMA LedgerStepInv == LedgerInv /\ [LedgerNext]_ledgerVars => LedgerInv'
  <1> SUFFICES ASSUME LedgerInv, [LedgerNext]_ledgerVars PROVE LedgerInv'
    OBVIOUS
  <1>1. CASE LedgerNext
    <2>1. PICK id \in Ids, t \in Times :
             \/ \E m \in Market, q \in Quantities, p, mid \in Prices :
                   Fill([id |-> id, time |-> t, market |-> m, quantity |-> q, price |-> p,
                         reference_mid |-> mid])
             \/ \E i \in Intervals, r \in Rates, mark \in Prices :
                   Settle([id |-> id, time |-> t, interval |-> i, rate |-> r, mark |-> mark])
             \/ \E cost \in Costs : Finance([id |-> id, time |-> t, cost |-> cost])
      BY <1>1 DEF LedgerNext
    <2>2. events' = events + 1
      BY <1>1 DEF LedgerNext
    <2>3. id \in Nat /\ t \in Nat
      BY EventsAreTyped
    <2>4. ASSUME NEW m \in Market, NEW q \in Quantities, NEW p \in Prices, NEW mid \in Prices,
                 Fill([id |-> id, time |-> t, market |-> m, quantity |-> q, price |-> p,
                       reference_mid |-> mid])
          PROVE  LedgerInv'
      <3>1. [id |-> id, time |-> t, market |-> m, quantity |-> q, price |-> p,
             reference_mid |-> mid] \in FillType
        BY <2>3, EventsAreTyped DEF FillType
      <3> QED BY <2>2, <2>4, <3>1, FillInv
    <2>5. ASSUME NEW i \in Intervals, NEW r \in Rates, NEW mark \in Prices,
                 Settle([id |-> id, time |-> t, interval |-> i, rate |-> r, mark |-> mark])
          PROVE  LedgerInv'
      <3> DEFINE e == [id |-> id, time |-> t, interval |-> i, rate |-> r, mark |-> mark]
      <3>1. e.id \in Nat /\ e.time \in Nat /\ e.mark \in Int /\ e.rate \in Int
        BY <2>3, EventsAreTyped
      <3>2. Settle(e)
        BY <2>5
      <3> HIDE DEF e
      <3> QED BY <2>2, <3>1, <3>2, SettleInv
    <2>6. ASSUME NEW cost \in Costs, Finance([id |-> id, time |-> t, cost |-> cost])
          PROVE  LedgerInv'
      <3> DEFINE e == [id |-> id, time |-> t, cost |-> cost]
      <3>1. e.id \in Nat /\ e.time \in Nat /\ e.cost \in Int
        BY <2>3, EventsAreTyped
      <3>2. Finance(e)
        BY <2>6
      <3> HIDE DEF e
      <3> QED BY <2>2, <3>1, <3>2, FinanceInv
    <2> QED BY <2>1, <2>4, <2>5, <2>6
  <1>2. CASE UNCHANGED ledgerVars
    BY <1>2 DEF ledgerVars, LedgerInv, LedgerTypeOK, CashIsAccountedFor, LegsOneSided,
            FillsAreInTheLegs, BoundariesAreKept, FillsKeepClearOfSettlements,
            SettlementsAreComplete
  <1> QED BY <1>1, <1>2

\* LedgerInv is inductive: the books stay kept, whatever events are accounted.
THEOREM LedgerInvariant == LedgerSpec => []LedgerInv
  BY LedgerInitInv, LedgerStepInv, PTL DEF LedgerSpec

\* Cash is the capital with all that was paid, and the legs stay one-sided
\* (Ledger.fill, settle, finance).
THEOREM CashAlwaysAccounted == LedgerSpec => []CashIsAccountedFor
  <1>1. LedgerInv => CashIsAccountedFor
    BY DEF LedgerInv
  <1> QED BY <1>1, LedgerInvariant, PTL

\* At any marks both profits are those of the fills: the gross one at reference
\* mids, the net one less every cost (Ledger.value).
THEOREM ProfitsAlwaysThoseOfTheFills == LedgerSpec => []ProfitsAreThoseOfTheFills
  <1>1. LedgerInv => ProfitsAreThoseOfTheFills
    <2> SUFFICES ASSUME LedgerInv, NEW spot \in Prices, NEW perp \in Prices
                 PROVE  /\ GrossPnl(ledger, spot, perp)
                              = ledger.spot.quantity * spot + ledger.perp.quantity * perp
                                  - referenced + ledger.funding
                        /\ NetPnl(ledger, spot, perp)
                              = GrossPnl(ledger, spot, perp)
                                  - ledger.execution_cost - ledger.fees - ledger.financing
      BY DEF ProfitsAreThoseOfTheFills
    <2> DEFINE owned == ledger.spot.quantity * spot
               owed == ledger.perp.quantity * perp
    <2>1. ledger \in LedgerType /\ referenced \in Int
      BY DEF LedgerInv, LedgerTypeOK, LedgerType
    <2>2. /\ ledger.initial \in Int /\ ledger.cash \in Int /\ ledger.funding \in Int
          /\ ledger.fees \in Int /\ ledger.financing \in Int /\ ledger.execution_cost \in Int
          /\ ledger.spot.quantity \in Int /\ ledger.spot.basis \in Int
          /\ ledger.spot.realized \in Int /\ ledger.perp.quantity \in Int
          /\ ledger.perp.basis \in Int /\ ledger.perp.realized \in Int
      BY <2>1 DEF LedgerType, LegType
    <2>3. owned \in Int /\ owed \in Int
      BY <2>2, EventsAreTyped, Distributes
    <2>4. GrossPnl(ledger, spot, perp)
            = ledger.spot.realized + (owned - ledger.spot.basis)
                + ledger.perp.realized + (owed - ledger.perp.basis)
                + ledger.funding + ledger.execution_cost
      BY DEF GrossPnl, PricePnl, Unrealized
    <2>5. NetPnl(ledger, spot, perp)
            = ledger.cash + owned + (owed - ledger.perp.basis) - ledger.initial
      BY <2>2, <2>3 DEF NetPnl, Equity, Unrealized
    <2>6. /\ ledger.cash = ledger.initial + ledger.spot.realized - ledger.spot.basis
                             + ledger.perp.realized
                             + ledger.funding - ledger.fees - ledger.financing
          /\ referenced = (ledger.spot.basis - ledger.spot.realized)
                            + (ledger.perp.basis - ledger.perp.realized) - ledger.execution_cost
      BY DEF LedgerInv, CashIsAccountedFor, FillsAreInTheLegs
    <2> HIDE DEF owned, owed
    <2>7. GrossPnl(ledger, spot, perp) = owned + owed - referenced + ledger.funding
      BY <2>1, <2>2, <2>3, <2>4, <2>6
    <2>8. NetPnl(ledger, spot, perp)
            = GrossPnl(ledger, spot, perp)
                - ledger.execution_cost - ledger.fees - ledger.financing
      BY <2>2, <2>3, <2>4, <2>5, <2>6
    <2> QED BY <2>7, <2>8 DEF owned, owed
  <1> QED BY <1>1, LedgerInvariant, PTL

\* No perp fill ever lies within the guard of a settlement (Ledger.fill).
THEOREM FillsAlwaysClear == LedgerSpec => []FillsKeepClearOfSettlements
  <1>1. LedgerInv => FillsKeepClearOfSettlements
    BY DEF LedgerInv
  <1> QED BY <1>1, LedgerInvariant, PTL

\* No settlement is skipped and no event accounted twice (Ledger.settle, _event).
THEOREM SettlementsAlwaysComplete == LedgerSpec => []SettlementsAreComplete
  <1>1. LedgerInv => SettlementsAreComplete
    BY DEF LedgerInv
  <1> QED BY <1>1, LedgerInvariant, PTL
==============================================================================
