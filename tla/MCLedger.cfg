SPECIFICATION LedgerSpec
CONSTANTS
    Hour = 4
    Guard = 1
    Parts = 4
    FeePeriods <- MCFeePeriods
    AllowAssumptions = TRUE
    Capital = 20
    FirstFunding = 4
    Quantities <- MCQuantities
    Prices = {4, 8}
    Rates <- MCRates
    Intervals = {0, 1, 2}
    Costs = {1}
    Times = {0, 2, 3, 4, 5, 6, 8, 10}
    MaxEvents = 4
INVARIANTS
    LedgerInv
    CashIsAccountedFor
    ProfitsAreThoseOfTheFills
    FillsKeepClearOfSettlements
    SettlementsAreComplete
\* the bound on the events ends a behaviour
CHECK_DEADLOCK FALSE
