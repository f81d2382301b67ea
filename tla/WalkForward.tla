----------------------------- MODULE WalkForward -----------------------------
(***************************************************************************)
(* The walk-forward backtest (python/perpcarry/strategy/walk_forward.py):  *)
(* a stream of funding and market events drives a ledger, a position and   *)
(* a decision per funding interval, and yields one record per scored event.*)
(*                                                                         *)
(* An event that raises ends the generator and the records before it stand *)
(* (iter_backtest): the runner is dropped, so what it had changed by then  *)
(* is not modelled, only that it failed and how.                           *)
(*                                                                         *)
(* The funding model, the sizing search and the cost curve are outside: a  *)
(* forecast may be available or not, a gate may open or not, and an        *)
(* affordable quantity may be any (carry.py and sizing.py say which).      *)
(***************************************************************************)
EXTENDS Accounting, FiniteSets, Sequences

CONSTANTS WarmupStart, Start, End,  \* warmup_start_ms, start_ms, end_ms
          Interval,          \* interval_hours
          Delay,             \* decision_delay_ms
          FoldLength,        \* a month
          Horizon,           \* policy.horizon_settlements
          Capital,           \* initial_capital_usdt
          Collateral,        \* collateral_fraction, in Parts
          Modes,             \* the execution modes a run may be configured with
          Quantities,        \* the lots size_position may choose
          SpotMid,           \* the spot mid, its mark, and what spot fills at
          PerpMids, Marks,   \* perp mids and perp marks
          Slips,             \* how far from its mid the curve says the perp fills, per unit
          BookSlips,         \* how far from it a walk of the book may fill
          Rates,             \* funding rates, in Parts
          Costs,             \* realized financing charges
          Curves,            \* impact curves: [sha, evidence_end, admitted_at]
          MaxObserved    \* bound: market events that are no decision

Cadence == Interval * Hour
FoldStart(time) == (time \div FoldLength) * FoldLength

\* Config.__post_init__
ValidConfig ==
    /\ {WarmupStart, Start, End, Delay} \subseteq Nat
    /\ Interval \in 1 .. 24 /\ 24 % Interval = 0
    /\ WarmupStart < Start /\ Start < End
    /\ FoldStart(Start) = Start /\ FoldStart(End) = End
    \* a month begins on a multiple of the cadence, which divides a day
    /\ FoldLength \in Nat \ {0} /\ FoldLength % Cadence = 0
    /\ WarmupStart % Cadence = 0
    /\ Guard < Delay /\ Delay < Cadence - Guard
    /\ Horizon \in Nat \ {0} /\ Capital \in Nat \ {0}
    /\ Collateral \in 1 .. Parts
    /\ Modes \subseteq {"inferred", "book"}
    /\ Quantities \subseteq Nat \ {0}
    /\ SpotMid \in Nat \ {0} /\ PerpMids \subseteq Nat \ {0} /\ Marks \subseteq Nat \ {0}
    /\ Slips \subseteq Nat /\ BookSlips \subseteq Nat
    /\ \E worst \in Slips : \A slip \in Slips : slip <= worst
    /\ \A slip \in Slips \cup BookSlips : \A mid \in PerpMids : slip < mid
    /\ Rates \subseteq Int /\ Costs \subseteq Nat
    /\ MaxObserved \in Nat

ASSUME ConfigAssumption == ValidConfig

VARIABLES mode,             \* execution_mode
          ledger,
          position,         \* what is held: [planned, held, opened], or NoPosition
          last_time,
          next_observation, \* next_observation_ms
          next_decision,    \* next_decision_ms
          fold_curves,      \* the curve each fold was sealed with
          seen,             \* how many events were processed: their ids are 0, 1, ...
          observed,         \* how many market events were no decision
          decision,         \* the decision of the last record
          failure,          \* what the stream raised
          trades            \* history: the booked trades

scheduleVars == <<last_time, next_observation, next_decision, seen, observed>>
runnerVars == <<mode, ledger, position, scheduleVars, fold_curves, decision,
                failure, trades>>

NoPosition == [planned |-> 0, held |-> 0, opened |-> Never]
NoOpportunity == [fold |-> Never, curve |-> [sha |-> "none", evidence_end |-> 0, admitted_at |-> 0]]

\* what stands for no curve is none of them
ASSUME CurvesAssumption == NoOpportunity.curve \notin Curves

RunnerInit ==
    /\ mode \in Modes
    /\ ledger = NewLedger(Capital, Start)
    /\ position = NoPosition
    /\ last_time = WarmupStart
    /\ next_observation = WarmupStart
    /\ next_decision = Start + Delay
    /\ fold_curves = <<>>
    /\ seen = 0 /\ observed = 0
    /\ decision = "none" /\ failure = NoError
    /\ trades = <<>>
------------------------------------------------------------------------------
\* fault: an event may pass a decision that was not taken
OutOfStreamPassing(e) ==
    \/ e.id < seen \/ e.time < last_time
    \/ e.time < WarmupStart \/ e.time >= End

\* what process() raises before it looks at the kind of the event
OutOfStream(e) ==
    \/ e.id < seen \/ e.time < last_time
    \/ e.time < WarmupStart \/ e.time >= End
    \/ e.time >= Start /\ e.time > next_decision

\* reserve(): cash and the perp's open profit must cover the collateral
Covers(l, mark) ==
    l.cash + Unrealized(l.perp, mark) >= (-l.perp.quantity * mark * Collateral) \div Parts

Fails(why) ==
    /\ failure' = why
    /\ UNCHANGED <<mode, ledger, position, scheduleVars, fold_curves, decision, trades>>
------------------------------------------------------------------------------
(* funding events *)

Misscheduled(e) == e.interval # Interval \/ e.time # next_observation

Settlement(e) ==
    [id |-> <<e.id, "funding">>, time |-> e.time, interval |-> e.interval,
     rate |-> e.rate, mark |-> e.mark]

\* a warmup observation trains the model and is not scored
FundingWarmup(e) ==
    /\ ~ OutOfStream(e) /\ ~ Misscheduled(e)
    /\ e.time < Start
    /\ last_time' = e.time /\ seen' = seen + 1
    /\ next_observation' = next_observation + e.interval * Hour
    /\ UNCHANGED <<mode, ledger, position, next_decision, fold_curves, observed,
                   decision, failure, trades>>

\* a scored one settles the ledger first and counts for the position
FundingSettles(e) ==
    /\ ~ OutOfStream(e) /\ ~ Misscheduled(e)
    /\ e.time >= Start
    /\ SettleError(ledger, Settlement(e)) = NoError
    /\ ledger' = Settled(ledger, Settlement(e))
    /\ Covers(ledger', e.mark)
    /\ position' = IF position = NoPosition THEN position
                   ELSE [position EXCEPT !.held = @ + 1]
    /\ last_time' = e.time /\ seen' = seen + 1
    /\ next_observation' = next_observation + e.interval * Hour
    /\ decision' = "none"
    /\ UNCHANGED <<mode, next_decision, fold_curves, observed, failure, trades>>

FundingFails(e) ==
    \/ (OutOfStream(e) \/ Misscheduled(e)) /\ Fails("stream")
    \/ /\ ~ OutOfStream(e) /\ ~ Misscheduled(e) /\ e.time >= Start
       /\ \/ SettleError(ledger, Settlement(e)) # NoError /\ Fails("settlement_refused")
          \/ /\ SettleError(ledger, Settlement(e)) = NoError
             /\ ~ Covers(Settled(ledger, Settlement(e)), e.mark)
             /\ Fails("shortfall")
------------------------------------------------------------------------------
(* market events *)

\* fault: a decision may be asked for at any time of the study
OffScheduleNever(e) == e.time < Start

OffSchedule(e) ==
    \/ e.time < Start
    \/ e.decide /\ (ledger.last_funding = Never \/ e.time - ledger.last_funding <= Guard)
    \/ e.decide # (e.time = next_decision)

Charge(e) == [id |-> <<e.id, "finance">>, time |-> e.time, cost |-> e.financing]

FinancedBy(e) == Financed(ledger, Charge(e))

\* what every market event goes through before a decision
MarketAccepted(e) ==
    /\ ~ OutOfStream(e) /\ ~ OffSchedule(e)
    /\ FinanceError(ledger, Charge(e)) = NoError
    /\ ValueError(FinancedBy(e), e.time) = NoError
    /\ Covers(FinancedBy(e), e.mark)
    /\ Equity(FinancedBy(e), SpotMid, e.mark) > 0

\* fault: evidence gathered during the fold is admitted
AdmissibleDuringFold(e) ==
    /\ e.opportunity # NoOpportunity
    /\ e.opportunity.fold = FoldStart(e.time)
    /\ e.opportunity.curve.admitted_at <= e.time

\* admit(): evidence of this fold, none of it from the fold itself or later
Admissible(e) ==
    /\ e.opportunity # NoOpportunity
    /\ e.opportunity.fold = FoldStart(e.time)
    /\ e.opportunity.curve.evidence_end <= e.opportunity.fold
    /\ e.opportunity.curve.admitted_at <= e.time

CurveChanged(e) ==
    /\ Admissible(e)
    /\ \E i \in 1 .. Len(fold_curves) :
          /\ fold_curves[i].fold = e.opportunity.fold
          /\ fold_curves[i].sha # e.opportunity.curve.sha

\* the first admitted curve of a fold seals it
Sealed(e) ==
    IF Admissible(e) /\ \A i \in 1 .. Len(fold_curves) :
                            fold_curves[i].fold # e.opportunity.fold
    THEN Append(fold_curves, [fold |-> e.opportunity.fold, sha |-> e.opportunity.curve.sha])
    ELSE fold_curves

\* charges() and the sizing cap ask for both fees
FeesQuoted(e) == \A market \in Market : Quotable(market, e.time) # {}

WorstSlip == CHOOSE worst \in Slips : \A slip \in Slips : slip <= worst

\* fault: the cap forgets that the mark may stand above the mid the perp is sold at
CostIgnoringBasis(e, quantity) ==
    quantity * SpotMid + Fee("spot", e.time, quantity, SpotMid)
      + (quantity * e.mark * Collateral) \div Parts
      + quantity * WorstSlip + Fee("perp", e.time, quantity, e.perp_mid)

\* cash a lot of this size may need at worst: spot, collateral, adverse entry, fees
WorstCost(e, quantity) ==
    quantity * SpotMid + Fee("spot", e.time, quantity, SpotMid)
      + (quantity * e.mark * Collateral) \div Parts
      + quantity * (IF e.mark > e.perp_mid THEN e.mark - e.perp_mid ELSE 0)
      + quantity * WorstSlip + Fee("perp", e.time, quantity, e.perp_mid)

Affordable(e) == {q \in Quantities : WorstCost(e, q) <= FinancedBy(e).cash}

LegFill(e, market, quantity, slip) ==
    [id |-> <<e.id, market>>, time |-> e.time, market |-> market, quantity |-> quantity,
     price |-> IF market = "spot" THEN SpotMid
               ELSE IF quantity < 0 THEN e.perp_mid - slip ELSE e.perp_mid + slip,
     reference_mid |-> IF market = "spot" THEN SpotMid ELSE e.perp_mid]

SpotFill(e, quantity, slip) == LegFill(e, "spot", quantity, slip)
PerpFill(e, quantity, slip) == LegFill(e, "perp", -quantity, slip)

FillRefusal(e, quantity, slip) ==
    LET spot == SpotFill(e, quantity, slip)
        perp == PerpFill(e, quantity, slip)
    IN  IF FillError(FinancedBy(e), spot) # NoError THEN FillError(FinancedBy(e), spot)
        ELSE FillError(Filled(FinancedBy(e), spot), perp)

\* both legs on one immutable copy: half a pair is never booked
Proposed(e, quantity, slip) ==
    Filled(Filled(FinancedBy(e), SpotFill(e, quantity, slip)), PerpFill(e, quantity, slip))

FillSlips == IF mode = "inferred" THEN Slips ELSE BookSlips

BookedTrade(e, quantity) ==
    Append(trades, [time |-> e.time, quantity |-> quantity,
                    curve |-> IF Admissible(e) THEN e.opportunity.curve
                                               ELSE NoOpportunity.curve])

\* the end of process(): the second reserve(), the next decision, the record
MarketEnds(e) ==
    /\ Covers(ledger', e.mark)
    /\ ~ CurveChanged(e)
    /\ fold_curves' = Sealed(e)
    /\ last_time' = e.time /\ seen' = seen + 1
    /\ observed' = IF e.decide THEN observed ELSE observed + 1
    /\ next_decision' = IF e.decide THEN next_decision + Cadence ELSE next_decision
    /\ UNCHANGED <<mode, next_observation, failure>>

Deciding(e) == MarketAccepted(e) /\ e.decide /\ ~ CurveChanged(e)
Flat(e) == Deciding(e) /\ position = NoPosition
Held(e) == Deciding(e) /\ position # NoPosition

Remaining == position.planned - position.held

Observe(e) ==
    /\ MarketAccepted(e) /\ ~ e.decide
    /\ ledger' = FinancedBy(e)
    /\ decision' = "none"
    /\ MarketEnds(e)
    /\ UNCHANGED <<position, trades>>

\* no evidence, no capital, no size or a closed gate
Wait(e) ==
    /\ Flat(e)
    /\ Admissible(e) => FeesQuoted(e)
    /\ ledger' = FinancedBy(e)
    /\ decision' = "wait"
    /\ MarketEnds(e)
    /\ UNCHANGED <<position, trades>>

\* the gate opened for a lot the capital affords at worst
Sized(e, quantity) ==
    /\ Flat(e) /\ Admissible(e) /\ FeesQuoted(e)
    /\ quantity \in Affordable(e)

Enter(e, quantity, slip) ==
    /\ Sized(e, quantity)
    /\ FillRefusal(e, quantity, slip) = NoError
    /\ ledger' = Proposed(e, quantity, slip)
    /\ position' = [planned |-> Horizon, held |-> 0, opened |-> e.time]
    /\ trades' = BookedTrade(e, quantity)
    /\ decision' = "enter"
    /\ MarketEnds(e)

\* fault: the spot leg of an entry that is given up stays booked
EnterBouncesBooked(e, quantity, slip) ==
    /\ Sized(e, quantity)
    /\ FillRefusal(e, quantity, slip) = NoError
    /\ ~ Covers(Proposed(e, quantity, slip), e.mark)
    /\ ledger' = Filled(FinancedBy(e), SpotFill(e, quantity, slip))
    /\ decision' = "bounced"
    /\ MarketEnds(e)
    /\ UNCHANGED <<position, trades>>

\* the executor's price leaves less than the reserve: the entry is given up
EnterBounces(e, quantity, slip) ==
    /\ Sized(e, quantity)
    /\ FillRefusal(e, quantity, slip) = NoError
    /\ ~ Covers(Proposed(e, quantity, slip), e.mark)
    /\ ledger' = FinancedBy(e)
    /\ decision' = "bounced"
    /\ MarketEnds(e)
    /\ UNCHANGED <<position, trades>>

\* fault: the horizon is not looked at
HoldPastHorizon(e) ==
    /\ Held(e)
    /\ Admissible(e) /\ FeesQuoted(e)
    /\ ledger' = FinancedBy(e)
    /\ decision' = "hold"
    /\ MarketEnds(e)
    /\ UNCHANGED <<position, trades>>

Hold(e) ==
    /\ Held(e) /\ Remaining > 0
    /\ Admissible(e) /\ FeesQuoted(e)
    /\ ledger' = FinancedBy(e)
    /\ decision' = "hold"
    /\ MarketEnds(e)
    /\ UNCHANGED <<position, trades>>

\* the horizon is complete, or the gate or the evidence is gone
ExitDecided(e) ==
    /\ Held(e)
    /\ Remaining > 0 /\ Admissible(e) => FeesQuoted(e)

\* an inferred fill needs the admitted curve, a walk of the book does not
Executable(e) == mode = "inferred" => Admissible(e)

Exit(e, slip) ==
    /\ ExitDecided(e) /\ Executable(e)
    /\ FillRefusal(e, ledger.perp.quantity, slip) = NoError
    /\ ledger' = Proposed(e, ledger.perp.quantity, slip)
    /\ position' = NoPosition
    /\ trades' = BookedTrade(e, ledger.perp.quantity)
    /\ decision' = "exit"
    /\ MarketEnds(e)

MarketFails(e) ==
    \/ (OutOfStream(e) \/ OffSchedule(e)) /\ Fails("stream")
    \/ ~ OutOfStream(e) /\ ~ OffSchedule(e) /\ ~ MarketAccepted(e) /\ Fails("unaccounted")
    \/ MarketAccepted(e) /\ CurveChanged(e) /\ Fails("curve_changed")
    \/ Flat(e) /\ Admissible(e) /\ ~ FeesQuoted(e) /\ Fails("no_fee")
    \/ ExitDecided(e) /\ ~ Executable(e) /\ Fails("not_executable")

\* the executor raises or proposes anything but the full pair, the ledger refuses a
\* fill, or the second reserve() does not cover what was booked
TradeFails(e, quantity, slip) ==
    \/ Fails("execution")
    \/ /\ FillRefusal(e, quantity, slip) # NoError
       /\ Fails(IF FillRefusal(e, quantity, slip) = "no_fee" THEN "no_fee"
                ELSE "fill_refused")
    \/ /\ FillRefusal(e, quantity, slip) = NoError
       /\ position # NoPosition
       /\ ~ Covers(Proposed(e, quantity, slip), e.mark)
       /\ Fails("shortfall")

\* a repeated id is refused alike for either kind, and tried with the other
MarketEvents(t) ==
    [id : {seen}, time : {t}, perp_mid : PerpMids, mark : Marks, decide : BOOLEAN,
     financing : Costs, opportunity : {NoOpportunity} \cup
        [fold : {FoldStart(t), FoldStart(t) - FoldLength}, curve : Curves]]

FundingEvents(t) ==
    [id : {seen - 1, seen}, time : {t}, rate : Rates, interval : {Interval, Interval + 1},
     mark : Marks \cup {0}]

\* bound: no event much before the last or much after the next decision, which
\* are refused like the ones next to them
EventTimes == {t \in 0 .. End : last_time - 1 <= t /\ t <= next_decision + 1}

MarketStep(e) ==
    \/ Observe(e) \/ Wait(e) \/ Hold(e) \/ MarketFails(e)
    \/ \E q \in Quantities, slip \in FillSlips :
          \/ Enter(e, q, slip) \/ EnterBounces(e, q, slip)
          \/ Sized(e, q) /\ TradeFails(e, q, slip)
    \/ \E slip \in FillSlips :
          \/ Exit(e, slip)
          \/ ExitDecided(e) /\ Executable(e) /\ TradeFails(e, ledger.perp.quantity, slip)

RunnerNext ==
    /\ failure = NoError
    /\ \E t \in EventTimes :
          \/ \E e \in FundingEvents(t) :
                FundingWarmup(e) \/ FundingSettles(e) \/ FundingFails(e)
          \/ \E e \in MarketEvents(t) :
                (e.decide \/ observed < MaxObserved) /\ MarketStep(e)

RunnerSpec == RunnerInit /\ [][RunnerNext]_runnerVars
------------------------------------------------------------------------------
(* The runner's clock and the ledger's go in lockstep: both expect the same *)
(* next settlement, and between two settlements there is one decision,     *)
(* Delay after the first, taken or still to come, that no event can pass   *)
(* (next_observation_ms, next_decision_ms, Ledger.next_funding_ms).        *)
OneDecisionPerSettlement ==
    IF ledger.last_funding = Never
    THEN /\ ledger.next_funding = Start /\ next_observation <= Start
         /\ next_decision = Start + Delay
         /\ position = NoPosition
    ELSE /\ next_observation = ledger.last_funding + Cadence
         /\ ledger.next_funding = next_observation
         /\ \/ next_decision = next_observation + Delay
            \/ next_decision = ledger.last_funding + Delay /\ last_time <= next_decision

(* A position is held for the settlements it was planned for and no more:  *)
(* settlements_held is the number of settlements since it was opened, and  *)
(* the decision that finds the horizon complete closes it                  *)
(* (Position, "horizon_complete").                                         *)
HeldForThePlan ==
    position # NoPosition =>
        /\ position.opened + position.held * Cadence = ledger.last_funding + Delay
        /\ position.held <= position.planned
        /\ next_decision > ledger.last_funding + Delay => position.held < position.planned

(* The two legs are opened and closed together and stay equal in between,  *)
(* and the position the strategy believes in is the one the ledger holds:  *)
(* a trade that fails half way, or an entry given up, leaves no leg behind *)
(* and no debt (_Runner.trade on an immutable ledger, enter, held,         *)
(* reserve).                                                               *)
LegsPaired ==
    /\ ledger.spot.quantity = -ledger.perp.quantity
    /\ position = NoPosition <=> ledger.perp.quantity = 0
    /\ position = NoPosition =>
          ledger.spot.basis = 0 /\ ledger.perp.basis = 0 /\ ledger.cash >= 0
    /\ position = NoPosition <=> Len(trades) % 2 = 0

(* The schedule keeps every trade where the ledger accepts it: outside the *)
(* guard of both settlements, before the next one is due, in the direction *)
(* the legs allow (Config's bounds on decision_delay_ms against            *)
(* Ledger.fill).                                                           *)
FillsAreNeverRefused == failure # "fill_refused"

(* With inferred execution, what sizing calls affordable is: no entry the  *)
(* cap let through is given up for want of capital after its fills         *)
(* (enter, "reserve adverse entry P&L as well as spot cash").              *)
SizedEntriesAreAffordable == mode = "inferred" => decision # "bounced"

(* No trade looks ahead: the curve an entry, or any inferred fill, rests   *)
(* on was calibrated before the fold began, and one fold never uses two    *)
(* (admit, "impact artifact changed within a sealed monthly fold").        *)
FoldsAreSealed ==
    LET Rests(i) == mode = "inferred" \/ i % 2 = 1
    IN  \A i \in 1 .. Len(trades) : Rests(i) =>
           /\ trades[i].curve # NoOpportunity.curve
           /\ trades[i].curve.evidence_end <= FoldStart(trades[i].time)
           /\ \A j \in 1 .. Len(trades) :
                 Rests(j) /\ FoldStart(trades[i].time) = FoldStart(trades[j].time)
                    => trades[i].curve.sha = trades[j].curve.sha
==============================================================================
