SPECIFICATION FairPipelineSpec
CONSTANTS
    Values <- MCRows
    Raw = Raw
    Capacity = 2
    IndexMod = 4
    MaxPushes = 5
    Batches <- MCBatches
    MaxRuns = 2
INVARIANTS
    PipelineInv
    NothingLeftBehind
PROPERTIES
    ImplementsSequentialReplay
    EveryRunEnds
\* the bound on the runs ends a behaviour
CHECK_DEADLOCK FALSE
