SPECIFICATION CalibrationSpec
CONSTANTS
    ValidatedDepth = 1
    Files <- MCFiles
    SampleEvery = 2
    Quantities <- MCQuantities
    Slices = 2
    Durations = {0, 2}
    Weightings <- MCWeightings
    OrderSides = {"buy", "sell"}
    DayEnd = 5
INVARIANT
    DepthIsDisclosed
\* the sampling returns or raises
CHECK_DEADLOCK FALSE
