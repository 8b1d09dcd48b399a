SPECIFICATION FairSpec
CONSTANTS
    None = None
    v1 = v1
    v2 = v2
    CatchUps = {c1}
    Dailies = {d1}
    Versions = {v1, v2}
    SourceWatermark <- Watermarks
    LastDay = 2
    MaxRevision = 2
    Holds <- Partitions
    MaxTrouble = 2
CHECK_DEADLOCK FALSE
INVARIANTS
    TypeOK
    OneBundlePerDay
    CompletedMeansServed
    OnlyOwnDayIsPublished
PROPERTIES
    FinishedStays
    CatchUpEnds
