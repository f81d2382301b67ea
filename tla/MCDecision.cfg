SPECIFICATION Spec
CONSTANTS
    Hour = 4
    Tolerance = 1
    DayHours = 4
    MonthDays = 2
    Months = 2
    Truths <- MCTruths
    Windows <- MCWindows
    MaxBackfills = 2
    AllowMissing = TRUE
    Stale <- MCStale
    RollingDays = 1
    MinSettlements = 3
    StudyStart = 1
    Symbol = "BTC"
    Horizon = 3
    EntryPercent = 60
    ContinuationPercent = 30
    AllowSynthetic = FALSE
    Step = 2
    LargestQuantity = 12
    RootScale = 100
    Markets <- MCMarkets
    Curves <- MCCurves
    Charges <- MCCharges
    Approvals <- MCApprovals
    SampleSets <- MCSampleSets
    Model = "m1"
    Root <- MCRoot
    Delays = {0, 5, 6}
INVARIANTS
    
    AdmittedSeriesIsAccepted
    ForecastIsOfTheRecentPast
    ChosenSizeIsBest
    EntryIsNotUndoneAtOnce

    
\* a load ends, a study runs out of settlements, and a size is answered
CHECK_DEADLOCK FALSE
