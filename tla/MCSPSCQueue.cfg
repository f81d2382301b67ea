SPECIFICATION ObservedSpec
CONSTANTS
    Values = {a, b}
    Raw = Raw
    Capacity = 2
    IndexMod = 4
    MaxPushes = 5
    Words = 64
INVARIANTS
    QueueInv
    SlotDiscipline
    SizeNeverUnderflows
    RoundedIsLeastPowerOfTwo
PROPERTY
    ImplementsFIFO
\* a queue that has been destroyed is over
CHECK_DEADLOCK FALSE
