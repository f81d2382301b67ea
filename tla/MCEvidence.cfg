SPECIFICATION EvidenceSpec
CONSTANTS
    Days = {1, 2}
    FirstsOfMonth = {2}
    MaxIdSkip = 1
    Klines <- MCKlines
    Day = 2
    AdvDays = 1
    VenueTrades <- MCVenueTrades
    Contents <- MCContents
    Initial <- MCInitial
    MaxVersions = 1
    MaxInventories = 2
    InventoryOptions <- MCOptions
    Overlaps <- MCOverlaps
INVARIANTS
    AdmittedRowsAreOfTheVerifiedBook
    AdmittedTradesAreThoseOfTheVenue
\* the tools are started by hand, and may never be
CHECK_DEADLOCK FALSE
