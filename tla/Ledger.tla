------------------------------- MODULE Ledger --------------------------------
(***************************************************************************)
(* One ledger given any fills, funding settlements and financing charges   *)
(* (python/perpcarry/strategy/accounting.py).  An event that raises yields *)
(* no ledger and the caller keeps the one it had: it is not a step here.   *)
(***************************************************************************)
EXTENDS Accounting, FiniteSets, Sequences

CONSTANTS Capital,      \* initial_capital_usdt
          FirstFunding, \* the settlement boundary the ledger starts before
          Quantities,   \* signed quantities a fill may have
          Prices,       \* prices, reference mids and marks
          Rates,        \* funding rates, in Parts
          Intervals,    \* funding intervals, in hours
          Costs,        \* financing charges
          Times,        \* when an event may happen
          MaxEvents     \* bound: how many events are accounted

ASSUME LedgerAssumption ==
    /\ Capital \in Nat \ {0}
    /\ FirstFunding \in Nat \ {0} /\ FirstFunding % Hour = 0
    /\ Quantities \subseteq Int /\ Prices \subseteq Nat \ {0}
    /\ Rates \subseteq Int /\ Costs \subseteq Int
    /\ Intervals \subseteq Nat
    /\ Times \subseteq Nat /\ MaxEvents \in Nat

VARIABLES ledger,
          events,      \* how many events were accounted
          settlements, \* history: the settlements, [time, interval], in order
          perpFills,   \* history: when perp fills happened
          referenced   \* history: what all fills would have cost at their mids

ledgerVars == <<ledger, events, settlements, perpFills, referenced>>

LedgerInit ==
    /\ ledger = NewLedger(Capital, FirstFunding)
    /\ events = 0
    /\ settlements = <<>>
    /\ perpFills = {}
    /\ referenced = 0

\* the ids a caller may use: one it used before, or the next one
Ids == 0 .. events

Fill(f) ==
    /\ FillError(ledger, f) = NoError
    /\ WholeAverage(ledger[f.market], f.quantity)
    /\ ledger' = Filled(ledger, f)
    /\ perpFills' = IF f.market = "perp" THEN perpFills \cup {f.time} ELSE perpFills
    /\ referenced' = referenced + f.quantity * f.reference_mid
    /\ UNCHANGED settlements

Settle(e) ==
    /\ SettleError(ledger, e) = NoError
    /\ ledger' = Settled(ledger, e)
    /\ settlements' = Append(settlements, [time |-> e.time, interval |-> e.interval])
    /\ UNCHANGED <<perpFills, referenced>>

Finance(e) ==
    /\ FinanceError(ledger, e) = NoError
    /\ ledger' = Financed(ledger, e)
    /\ UNCHANGED <<settlements, perpFills, referenced>>

LedgerNext ==
    /\ events < MaxEvents /\ events' = events + 1
    /\ \E id \in Ids, t \in Times :
          \/ \E m \in Market, q \in Quantities, p, mid \in Prices :
                Fill([id |-> id, time |-> t, market |-> m, quantity |-> q, price |-> p,
                      reference_mid |-> mid])
          \/ \E i \in Intervals, r \in Rates, mark \in Prices :
                Settle([id |-> id, time |-> t, interval |-> i, rate |-> r, mark |-> mark])
          \/ \E cost \in Costs : Finance([id |-> id, time |-> t, cost |-> cost])

LedgerSpec == LedgerInit /\ [][LedgerNext]_ledgerVars
------------------------------------------------------------------------------
LegType == [quantity : Int, basis : Int, realized : Int]

LedgerTypeOK ==
    /\ ledger \in [initial : Int, cash : Int, next_funding : Nat, time : Nat,
                   last_funding : Nat \cup {Never}, event_ids : SUBSET Nat,
                   spot : LegType, perp : LegType,
                   funding : Int, fees : Int, financing : Int, execution_cost : Int]
    /\ events \in Nat
    /\ settlements \in Seq([time : Nat, interval : 1 .. 24])
    /\ perpFills \subseteq Nat
    /\ referenced \in Int

\* the legs of a carry: spot is only ever owned, the perpetual only ever owed
LegsOneSided == ledger.spot.quantity >= 0 /\ ledger.perp.quantity <= 0

(* Cash is what the ledger says it is made of: the capital, less the cost  *)
(* of the spot still held, plus what both legs realized and funding paid,  *)
(* less fees and financing.  No fill, settlement or charge, in any order,  *)
(* creates or loses money on the way (Ledger.fill, settle, finance).       *)
CashIsAccountedFor ==
    /\ LegsOneSided
    /\ ledger.cash = ledger.initial
                       + ledger.spot.realized - ledger.spot.basis
                       + ledger.perp.realized
                       + ledger.funding - ledger.fees - ledger.financing

(* Gross profit is what the same trades would have made at their reference *)
(* mids, with no fee and no charge, at every mark and through every        *)
(* average cost in between; net profit, which the ledger reads off its     *)
(* cash, is that less each cost it kept count of (Ledger.value).           *)
ProfitsAreThoseOfTheFills ==
    \A spot, perp \in Prices :
        /\ GrossPnl(ledger, spot, perp)
             = ledger.spot.quantity * spot + ledger.perp.quantity * perp
                 - referenced + ledger.funding
        /\ NetPnl(ledger, spot, perp)
             = GrossPnl(ledger, spot, perp)
                 - ledger.execution_cost - ledger.fees - ledger.financing

(* No perp fill lies within the guard of a settlement, before or after it: *)
(* which position a settlement is paid on is never in doubt                *)
(* (SETTLEMENT_GUARD_MS in Ledger.fill).                                   *)
FillsKeepClearOfSettlements ==
    \A f \in perpFills : \A i \in 1 .. Len(settlements) :
        \/ settlements[i].time - f > Guard
        \/ f - settlements[i].time > Guard

(* Settlements follow each other at the interval the previous one          *)
(* announced, none is skipped however the other events fall, and no event  *)
(* is accounted twice (Ledger.settle, Ledger._event).                      *)
SettlementsAreComplete ==
    /\ \A i \in 1 .. Len(settlements) :
          settlements[i].time =
             IF i = 1 THEN FirstFunding
             ELSE settlements[i - 1].time + settlements[i - 1].interval * Hour
    /\ ledger.time < ledger.next_funding
    /\ ledger.next_funding =
          IF settlements = <<>> THEN FirstFunding
          ELSE settlements[Len(settlements)].time + settlements[Len(settlements)].interval * Hour
    /\ IsFiniteSet(ledger.event_ids) /\ Cardinality(ledger.event_ids) = events
------------------------------------------------------------------------------
\* what the legs cost and realized is what the fills came to at their prices
FillsAreInTheLegs ==
    referenced = (ledger.spot.basis - ledger.spot.realized)
                   + (ledger.perp.basis - ledger.perp.realized) - ledger.execution_cost

\* past settlements lie up to last_funding, and past perp fills clear of the next one
BoundariesAreKept ==
    /\ \A i \in 1 .. Len(settlements) : settlements[i].time <= ledger.last_funding
    /\ ledger.last_funding <= ledger.time
    /\ \A f \in perpFills : ledger.next_funding - f > Guard

(* All that is needed of a ledger for the next event to keep its books:    *)
(* the types, and the four properties above in a form one step preserves   *)
(* (Ledger.fill, settle, finance).                                         *)
LedgerInv ==
    /\ LedgerTypeOK
    /\ CashIsAccountedFor
    /\ FillsAreInTheLegs
    /\ BoundariesAreKept
    /\ FillsKeepClearOfSettlements
    /\ SettlementsAreComplete
==============================================================================
