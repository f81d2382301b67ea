----------------------------- MODULE Accounting ------------------------------
(***************************************************************************)
(* The immutable cash ledger of a long-spot/short-perp carry               *)
(* (python/perpcarry/strategy/accounting.py) and the dated taker fees it   *)
(* charges (strategy/fees.py), as functions of a ledger and one event: the *)
(* error the event raises, if any, and the ledger it yields.               *)
(*                                                                         *)
(* Money and quantities are integers.  A fraction (a taker fee, a funding  *)
(* rate) is a number of parts out of Parts.  The Decimal context's fifty   *)
(* digits are exact here; WholeAverage names the fills for which they are. *)
(***************************************************************************)
EXTENDS Integers

CONSTANTS Hour,              \* HOUR_MS
          Guard,             \* SETTLEMENT_GUARD_MS
          Parts,             \* the denominator of every fraction
          FeePeriods,        \* the periods of the fee schedule, per market
          AllowAssumptions   \* whether unverified periods may be charged

Market == {"spot", "perp"}

\* timestamps are not negative, so this is `None`
Never == -1

NoError == "none"

\* FeeSchedule: periods of one market do not overlap
ValidFeeSchedule ==
    /\ FeePeriods \subseteq [market : Market, start : Nat, end : Nat, taker : 0 .. Parts,
                             kind : {"verified", "assumption"}, observed_at : Nat]
    /\ \A p, q \in FeePeriods :
          p # q /\ p.market = q.market => p.end <= q.start \/ q.end <= p.start

ASSUME AccountingAssumption ==
    /\ Hour \in Nat /\ Guard \in Nat /\ Guard < Hour
    /\ Parts \in Nat \ {0}
    /\ AllowAssumptions \in BOOLEAN
    /\ ValidFeeSchedule
------------------------------------------------------------------------------
Covering(market, time) ==
    {p \in FeePeriods : p.market = market /\ p.start <= time /\ time < p.end}

\* the periods quote() may charge: an assumption that was admitted, or evidence of its time
Quotable(market, time) ==
    {p \in Covering(market, time) :
        IF p.kind = "assumption" THEN AllowAssumptions ELSE p.observed_at <= time}

Fee(market, time, quantity, price) ==
    LET period == CHOOSE p \in Quotable(market, time) : TRUE
    IN  ((IF quantity < 0 THEN -quantity ELSE quantity) * price * period.taker) \div Parts
------------------------------------------------------------------------------
FlatLeg == [quantity |-> 0, basis |-> 0, realized |-> 0]

Closes(leg, quantity) == leg.quantity * quantity < 0

Average(leg) ==
    IF leg.quantity > 0 THEN leg.basis \div leg.quantity
                        ELSE (-leg.basis) \div (-leg.quantity)

\* bound: a fill that closes does so at an average that is a whole number
WholeAverage(leg, quantity) ==
    Closes(leg, quantity) => leg.basis = leg.quantity * Average(leg)

Realized(leg, quantity, price) ==
    IF Closes(leg, quantity) THEN -quantity * (price - Average(leg)) ELSE 0

\* fault: a closing fill takes its price, not the average, out of the basis
TradedAtPrice(leg, quantity, price) ==
    [quantity |-> leg.quantity + quantity,
     basis    |-> leg.basis + quantity * price,
     realized |-> leg.realized + Realized(leg, quantity, price)]

\* Leg.trade
Traded(leg, quantity, price) ==
    [quantity |-> leg.quantity + quantity,
     basis    |-> IF Closes(leg, quantity) THEN (leg.quantity + quantity) * Average(leg)
                                           ELSE leg.basis + quantity * price,
     realized |-> leg.realized + Realized(leg, quantity, price)]

Unrealized(leg, mark) == leg.quantity * mark - leg.basis
------------------------------------------------------------------------------
\* Ledger.start
NewLedger(capital, next_funding) ==
    [initial |-> capital, cash |-> capital, next_funding |-> next_funding,
     time |-> 0, last_funding |-> Never, event_ids |-> {},
     spot |-> FlatLeg, perp |-> FlatLeg,
     funding |-> 0, fees |-> 0, financing |-> 0, execution_cost |-> 0]

\* Ledger._event: seen before, or backwards in time (or of another symbol)
Misplaced(ledger, event) == event.id \in ledger.event_ids \/ event.time < ledger.time

Recorded(ledger, event) ==
    [ledger EXCEPT !.time = event.time, !.event_ids = @ \cup {event.id}]

\* fault: only the coming settlement is kept clear of perp fills
AmbiguousBeforeOnly(ledger, time) == ledger.next_funding - time <= Guard

\* which side of a settlement a perp fill this close to it would fall on is not known
Ambiguous(ledger, time) ==
    \/ ledger.next_funding - time <= Guard
    \/ ledger.last_funding # Never /\ time - ledger.last_funding <= Guard

Reverses(market, leg, quantity) ==
    IF market = "spot" THEN leg.quantity + quantity < 0 ELSE leg.quantity + quantity > 0

\* what Ledger.fill raises, in the order it looks
FillError(ledger, fill) ==
    LET leg == ledger[fill.market]
    IN  IF Misplaced(ledger, fill) THEN "misplaced"
        ELSE IF fill.quantity = 0 THEN "zero_fill"
        ELSE IF fill.time >= ledger.next_funding THEN "missing_settlement"
        ELSE IF fill.market = "perp" /\ Ambiguous(ledger, fill.time)
             THEN "ambiguous_settlement"
        ELSE IF Reverses(fill.market, leg, fill.quantity) THEN "reverses_leg"
        ELSE IF Quotable(fill.market, fill.time) = {} THEN "no_fee"
        ELSE NoError

\* fault: execution above the mid is a cost to a seller as well
FilledUnsignedCost(ledger, fill) ==
    LET leg  == ledger[fill.market]
        fee  == Fee(fill.market, fill.time, fill.quantity, fill.price)
        paid == IF fill.market = "spot" THEN -fill.quantity * fill.price
                                        ELSE Realized(leg, fill.quantity, fill.price)
        size == IF fill.quantity < 0 THEN -fill.quantity ELSE fill.quantity
    IN  [Recorded(ledger, fill) EXCEPT
            ![fill.market] = Traded(leg, fill.quantity, fill.price),
            !.cash = @ + paid - fee,
            !.fees = @ + fee,
            !.execution_cost = @ + size * (fill.price - fill.reference_mid)]

\* a spot fill pays its price, a perp fill only what it realizes
Filled(ledger, fill) ==
    LET leg  == ledger[fill.market]
        fee  == Fee(fill.market, fill.time, fill.quantity, fill.price)
        paid == IF fill.market = "spot" THEN -fill.quantity * fill.price
                                        ELSE Realized(leg, fill.quantity, fill.price)
    IN  [Recorded(ledger, fill) EXCEPT
            ![fill.market] = Traded(leg, fill.quantity, fill.price),
            !.cash = @ + paid - fee,
            !.fees = @ + fee,
            !.execution_cost = @ + fill.quantity * (fill.price - fill.reference_mid)]

\* fault: a settlement may announce any interval
SettleErrorAnyInterval(ledger, event) ==
    IF Misplaced(ledger, event) THEN "misplaced"
    ELSE IF event.time # ledger.next_funding THEN "misaligned"
    ELSE NoError

SettleError(ledger, event) ==
    IF Misplaced(ledger, event) THEN "misplaced"
    ELSE IF event.mark <= 0 THEN "no_mark"
    ELSE IF event.time # ledger.next_funding \/ event.interval \notin 1 .. 24
         THEN "misaligned"
    ELSE NoError

Payment(ledger, event) ==
    (-ledger.perp.quantity * event.mark * event.rate) \div Parts

Settled(ledger, event) ==
    [Recorded(ledger, event) EXCEPT
        !.cash = @ + Payment(ledger, event),
        !.funding = @ + Payment(ledger, event),
        !.next_funding = event.time + event.interval * Hour,
        !.last_funding = event.time]

\* fault: a charge is accepted past a settlement that is not accounted yet
FinanceErrorPastBoundary(ledger, event) ==
    IF Misplaced(ledger, event) THEN "misplaced"
    ELSE IF event.cost < 0 THEN "negative_financing"
    ELSE NoError

FinanceError(ledger, event) ==
    IF Misplaced(ledger, event) THEN "misplaced"
    ELSE IF event.cost < 0 THEN "negative_financing"
    ELSE IF event.time >= ledger.next_funding THEN "missing_settlement"
    ELSE NoError

Financed(ledger, event) ==
    [Recorded(ledger, event) EXCEPT !.cash = @ - event.cost, !.financing = @ + event.cost]

\* Ledger.value refuses marks of the past and of a settlement not yet accounted
ValueError(ledger, time) ==
    IF time < ledger.time \/ time >= ledger.next_funding THEN "missing_settlement" ELSE NoError

PricePnl(ledger, spot, perp) ==
    ledger.spot.realized + Unrealized(ledger.spot, spot)
      + ledger.perp.realized + Unrealized(ledger.perp, perp)

Equity(ledger, spot, perp) ==
    ledger.cash + ledger.spot.quantity * spot + Unrealized(ledger.perp, perp)

NetPnl(ledger, spot, perp) == Equity(ledger, spot, perp) - ledger.initial

GrossPnl(ledger, spot, perp) ==
    PricePnl(ledger, spot, perp) + ledger.funding + ledger.execution_cost
==============================================================================
