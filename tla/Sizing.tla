------------------------------- MODULE Sizing -------------------------------
(***************************************************************************)
(* size_position (python/perpcarry/strategy/sizing.py): the most           *)
(* profitable number of lots that the gate accepts, found with a binary    *)
(* search for the last lot it accepts and the optimum of the impact law.   *)
(*                                                                         *)
(* Quantities are in units of which a lot is Step, prices are 1, fractions *)
(* of ADV are quantities, and impact grows with the root of the quantity,  *)
(* in RootScale parts of the unit of the other fractions.                  *)
(***************************************************************************)
EXTENDS CarryGate

Square(n) == n * n

CONSTANTS Step,            \* SizingInputs.quantity_step
          LargestQuantity, \* bound: no limit is above it
          RootScale, Root, \* the square root, in RootScale parts
          Markets,         \* SizingInputs
          Curves,          \* ImpactCurve
          Charges,         \* the fixed charges of entering and of closing, and financing
          Approvals,
          SampleSets,      \* what a forecast may expect of the funding, in parts of RootScale
          Model,           \* digest of the model and its settings
          Delays           \* how long after a settlement it may be asked

ASSUME RootAssumption ==
    /\ LargestQuantity \in Nat /\ RootScale \in Nat \ {0}
    /\ Root \in [0 .. LargestQuantity -> Nat]
    /\ \A q \in 0 .. LargestQuantity :
          /\ Square(Root[q]) <= q * Square(RootScale)
          /\ q * Square(RootScale) < Square(Root[q] + 1)

\* what the classes of the inputs insist on (__post_init__, number)
ASSUME InputsAssumption ==
    /\ Step \in Nat \ {0}
    /\ \A m \in Markets :
          /\ {m.validated, m.max_adv, m.max_notional} \subseteq 0 .. LargestQuantity
          /\ {m.min_quantity, m.min_notional} \subseteq Nat
    /\ \A c \in Curves : {c.sell, c.buy, c.size_min} \subseteq Nat /\ c.size_max \in 0 .. LargestQuantity
    /\ \A c \in Charges : {c.entry, c.close, c.financing} \subseteq Nat
    /\ \A samples \in SampleSets : samples \in Seq(Int)

VARIABLES now, forecast, approval, market, curve, charges,
          low, high,       \* of the search, in lots
          lots,            \* the size chosen; 0 is none
          reason,          \* why nothing is entered
          size_pc

sizingVars == <<now, forecast, approval, market, curve, charges, low, high, lots, reason, size_pc>>

SizingInit ==
    /\ now = 0 /\ forecast = NoForecast /\ approval = NoApproval
    /\ market \in Markets /\ curve \in Curves /\ charges \in Charges
    /\ low = 0 /\ high = 0 /\ lots = 0
    /\ reason = "none" /\ size_pc = "observing"

Floor(q) == q \div Step
Ceiling(q) == (q + Step - 1) \div Step

InputsAdmitted ==
    /\ market.symbol = Symbol /\ curve.symbol = Symbol
    /\ market.observed_at <= now /\ now < market.valid_until
    /\ market.adv_end = (now \div Day) * Day
    /\ market.metadata_from <= now /\ now < market.metadata_until
    /\ curve.admitted_at <= now /\ curve.evidence_end <= now

Upper == Min({curve.size_max, market.validated, market.max_adv, market.max_notional})
Lower == Max({curve.size_min, market.min_quantity, market.min_notional})
FirstLot == Max({1, Ceiling(Lower)})
LastLot == Floor(Upper)

\* from_curve, in parts of RootScale
CostsOf(n) ==
    LET impact(coefficient) == coefficient * Root[n * Step]
    IN  [symbol |-> Symbol, notional |-> n * Step, horizon |-> Horizon,
         quoted_at |-> now, valid_until |-> market.valid_until,
         evidence_end |-> curve.evidence_end, kind |-> curve.kind,
         entry |-> impact(curve.sell) + charges.entry * RootScale,
         close_now |-> impact(curve.buy) + charges.close * RootScale,
         terminal |-> impact(curve.buy) + charges.close * RootScale,
         financing |-> charges.financing * RootScale]

Decision(n) == Decide(now, forecast, CostsOf(n), approval, Flat)
Accepts(n) == Decision(n).action = "enter"

\* the expected profit of a size, times the number of samples
Profit(n) == n * Edge(forecast.samples, Hurdle(CostsOf(n), Flat))

Answer(n, why) == lots' = n /\ reason' = why /\ size_pc' = "answered"

Inputs == <<now, forecast, approval, market, curve, charges>>

\* size_position is called, with a forecast as of now or one as of earlier
Ask ==
    /\ size_pc = "observing" /\ history # <<>>
    /\ now' \in {Last(history).time + delay : delay \in Delays}
    /\ \E samples \in SampleSets, as_of \in {now', Last(history).time} :
          forecast' = Predicted(history, Horizon, as_of, samples, Model)
    /\ approval' \in Approvals
    /\ size_pc' = "admission"
    /\ UNCHANGED <<market, curve, charges, low, high, lots, reason>>

CheckInputs ==
    /\ size_pc = "admission"
    /\ IF ~InputsAdmitted THEN Answer(0, "sizing_inputs_not_admitted") /\ UNCHANGED <<low, high>>
       ELSE IF FirstLot > LastLot
       THEN Answer(0, "no_executable_size") /\ UNCHANGED <<low, high>>
       ELSE IF ~Accepts(FirstLot)
       THEN Answer(0, Decision(FirstLot).reason) /\ UNCHANGED <<low, high>>
       ELSE /\ low' = FirstLot /\ high' = LastLot
            /\ size_pc' = "search" /\ UNCHANGED <<lots, reason>>
    /\ UNCHANGED Inputs

Halve ==
    /\ size_pc = "search" /\ low < high
    /\ LET middle == (low + high + 1) \div 2
       IN  IF Accepts(middle) THEN low' = middle /\ UNCHANGED high
           ELSE high' = middle - 1 /\ UNCHANGED low
    /\ UNCHANGED <<Inputs, lots, reason, size_pc>>

Coefficient == curve.sell + curve.buy
FixedEdge ==
    Edge(forecast.samples, (charges.entry + charges.close + charges.financing) * RootScale)

Samples == Len(forecast.samples)
\* fault: the size at which the average profit vanishes, not the marginal one
TargetOfTheAverage ==
    IF Coefficient = 0 THEN low
    ELSE Floor(Square(FixedEdge) \div Square(Coefficient * Samples * RootScale))

\* the lots at which the profit is greatest, (edge / (1.5 coefficient))^2
Target ==
    IF Coefficient = 0 THEN low
    ELSE Floor(Square(2 * FixedEdge) \div Square(3 * Coefficient * Samples * RootScale))

Clamped(n) == Max({FirstLot, Min({low, n})})

Choose ==
    /\ size_pc = "search" /\ low = high
    /\ LET fewer == Clamped(Target)
           more == Clamped(Target + 1)
           best == IF Profit(more) > Profit(fewer) THEN more ELSE fewer
       IN  IF Profit(best) <= 0 THEN Answer(0, "nonpositive_expected_profit")
           ELSE Answer(best, "none")
    /\ UNCHANGED <<Inputs, low, high>>

SizingNext == Ask \/ CheckInputs \/ Halve \/ Choose

\* from the archives to a size
DecisionInit == FundingInit /\ RollingInit /\ SizingInit

DecisionNext ==
    \/ FundingNext /\ UNCHANGED <<modelVars, sizingVars>>
    \/ RollingNext /\ UNCHANGED sizingVars
    \/ SizingNext /\ UNCHANGED rollingVars

DecisionSpec == DecisionInit /\ [][DecisionNext]_<<rollingVars, sizingVars>>
------------------------------------------------------------------------------
Entered == size_pc = "answered" /\ lots > 0

(* The binary search may stop where it does, because the gate accepts      *)
(* every smaller lot as well and none beyond; and when no size is chosen,  *)
(* none would have passed, whatever the last check of the profit says      *)
(* (size_position, "nonnegative costs make the gate monotone").            *)
SearchIsExact ==
    /\ Entered =>
          /\ {n \in FirstLot .. LastLot : Accepts(n)} = FirstLot .. low
          /\ lots \in FirstLot .. low
    /\ size_pc = "answered" /\ lots = 0 =>
          ~InputsAdmitted \/ \A n \in FirstLot .. LastLot : ~Accepts(n)

(* And no size that keeps to the limits and passes the gate promises more  *)
(* than the one that is chosen, although only two are compared.            *)
ChosenSizeIsBest ==
    /\ SearchIsExact
    /\ Entered => \A n \in FirstLot .. low : Profit(n) <= Profit(lots)

Opened ==
    [symbol |-> Symbol, notional |-> lots * Step, planned |-> Horizon, held |-> 0,
     interval |-> forecast.interval]

(* A position that was entered is held when it is judged at once again, at *)
(* its own size with the same forecast, approval and costs: entering never *)
(* oscillates with leaving (Policy, decide).                               *)
EntryIsNotUndoneAtOnce ==
    Entered => Decide(now, forecast, CostsOf(lots), approval, Opened).action = "hold"
=============================================================================
