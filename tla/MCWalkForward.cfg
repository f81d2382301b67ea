SPECIFICATION CommandSpec
CONSTANTS
    Hour = 4
    Guard = 1
    Parts = 4
    FeePeriods <- MCFeePeriods
    AllowAssumptions = FALSE
    WarmupStart = 4
    Start = 8
    End = 24
    Interval = 1
    Delay = 2
    FoldLength = 8
    Horizon = 2
    Capital = 18
    Collateral = 2
    Modes = {"inferred", "book"}
    Quantities = {1}
    SpotMid = 4
    PerpMids = {4}
    Marks = {4, 8}
    Slips = {0, 1}
    BookSlips = {0, 3}
    Rates <- MCRates
    Costs = {1}
    Curves <- MCCurves
    MaxObserved = 1
INVARIANTS
    OneDecisionPerSettlement
    HeldForThePlan
    LegsPaired
    FillsAreNeverRefused
    SizedEntriesAreAffordable
    FoldsAreSealed
    CompleteMeansCovered
\* a stream that failed, or ran out, is over
CHECK_DEADLOCK FALSE
