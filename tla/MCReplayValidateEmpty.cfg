SPECIFICATION ExportSpec
CONSTANTS
    Inputs <- MCInputs
    Depth = 1
    MaxSamples = 1
    DayLength = 4
    Days <- MCDays
    Budgets = {0, 1, 2, 3, 9}
    BatchSizes = {1, 2}
INVARIANT
    PassMeansCompared
\* a run of the tool ends
CHECK_DEADLOCK FALSE
