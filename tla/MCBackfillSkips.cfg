SPECIFICATION BackfillSpec
CONSTANTS
    NoFile = NoFile
    Urls <- MCUrls
    Size = 2
    Retries = 2
    Remotes <- MCRemotes
    Kinds = {"book", "trades"}
    Periods = 2
    Datasets = 2
    MaxRuns = 2
    MaxKills = 1
INVARIANT
    SkippedPeriodsHaveNoData
\* a backfill that ended need not be started again
CHECK_DEADLOCK FALSE
