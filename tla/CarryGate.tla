----------------------------- MODULE CarryGate -----------------------------
(***************************************************************************)
(* CarryStrategy.decide (python/perpcarry/strategy/carry.py): whether to   *)
(* enter or hold a carry position, from a forecast of the funding to come, *)
(* an approval of the model, and an estimate of the costs.  Fractions are  *)
(* whole numbers of some small unit; the probability is a count of samples *)
(* and the policy's are in percent.                                        *)
(***************************************************************************)
EXTENDS RollingFunding

CONSTANTS Symbol,
          Horizon,            \* Policy.horizon_settlements
          EntryPercent, ContinuationPercent,
          AllowSynthetic      \* Policy.allow_synthetic_costs

\* Policy
ASSUME PolicyAssumption ==
    /\ Horizon \in Nat \ {0} /\ AllowSynthetic \in BOOLEAN
    /\ {EntryPercent, ContinuationPercent} \subseteq Nat
    /\ ContinuationPercent < EntryPercent /\ EntryPercent < 100

NoForecast == [symbol |-> "none"]
NoApproval == [symbol |-> "none"]
NoCosts == [symbol |-> "none"]
Flat == [symbol |-> "none"]

\* predict_cumulative_funding and from_model: a forecast of the rows the
\* model selects, or none when it is unavailable
Predicted(rows, horizon, as_of, samples, model) ==
    IF ~Available(rows, as_of) THEN NoForecast
    ELSE [symbol |-> Symbol, model |-> model, samples |-> samples, as_of |-> as_of,
          last |-> Last(rows).time, first |-> Selected(rows, as_of)[1].time,
          horizon |-> horizon, interval |-> Cadence(rows),
          training |-> Len(Selected(rows, as_of))]

Remaining(position) ==
    IF position = Flat THEN Horizon ELSE position.planned - position.held

CadenceChanged(position, forecast) ==
    position # Flat /\ forecast.interval # position.interval

ForecastIsValid(forecast, now, remaining) ==
    /\ Len(forecast.samples) >= 2
    /\ forecast.as_of = now
    /\ forecast.last <= now
    /\ now - forecast.last <= forecast.interval * Hour + Tolerance
    /\ forecast.first <= forecast.last
    /\ forecast.horizon = remaining
    /\ forecast.training >= 3

\* the model, with its settings, was approved for this horizon and cadence
Admits(approval, forecast, now, remaining) ==
    /\ approval # NoApproval /\ approval.approved
    /\ approval.symbol = Symbol /\ approval.model = forecast.model
    /\ remaining \in approval.horizons /\ approval.interval = forecast.interval
    /\ approval.validated_until <= now /\ now < approval.valid_until

CostsAdmitted(costs, now, remaining, position) ==
    /\ costs.symbol = Symbol
    /\ costs.horizon = remaining
    /\ costs.quoted_at <= now /\ now < costs.valid_until
    /\ costs.evidence_end <= now
    /\ costs.kind = "synthetic" => AllowSynthetic
    /\ position # Flat => costs.notional = position.notional

\* what the funding has to pay for: holding saves what closing now would cost
Hurdle(costs, position) ==
    IF position = Flat THEN costs.entry + costs.terminal + costs.financing
    ELSE costs.terminal - costs.close_now + costs.financing

Sum(samples) ==
    LET sum[i \in 0 .. Len(samples)] == IF i = 0 THEN 0 ELSE sum[i - 1] + samples[i]
    IN  sum[Len(samples)]

\* the mean of the samples less the hurdle, times their number
Edge(samples, hurdle) == Sum(samples) - Len(samples) * hurdle

Probable(samples, hurdle, percent) ==
    100 * Cardinality({i \in 1 .. Len(samples) : samples[i] > hurdle}) > percent * Len(samples)

\* fault: the thresholds are the wrong way round
SwappedThreshold(position) == IF position = Flat THEN ContinuationPercent ELSE EntryPercent

Threshold(position) == IF position = Flat THEN EntryPercent ELSE ContinuationPercent

Outcome(position) == IF position = Flat THEN "enter" ELSE "hold"
Blocked(position) == IF position = Flat THEN "wait" ELSE "exit"

\* why a decision is not to enter or to hold; "none" when it is
Refusal(now, forecast, costs, approval, position) ==
    LET remaining == Remaining(position)
    IN  IF remaining <= 0 THEN "horizon_complete"
        ELSE IF forecast = NoForecast THEN "funding_unavailable"
        ELSE IF forecast.symbol # Symbol THEN "invalid_funding_forecast"
        ELSE IF CadenceChanged(position, forecast) THEN "cadence_changed"
        ELSE IF ~ForecastIsValid(forecast, now, remaining) THEN "invalid_funding_forecast"
        ELSE IF ~Admits(approval, forecast, now, remaining) THEN "funding_not_admitted"
        ELSE IF costs = NoCosts THEN "costs_unavailable"
        ELSE IF ~CostsAdmitted(costs, now, remaining, position) THEN "costs_not_admitted"
        ELSE IF Edge(forecast.samples, Hurdle(costs, position)) <= 0 THEN "nonpositive_expected_edge"
        ELSE IF ~Probable(forecast.samples, Hurdle(costs, position), Threshold(position))
             THEN "probability_below_threshold"
        ELSE "none"

Decide(now, forecast, costs, approval, position) ==
    LET reason == Refusal(now, forecast, costs, approval, position)
    IN  [action |-> IF reason = "none" THEN Outcome(position) ELSE Blocked(position),
         reason |-> reason]
=============================================================================
