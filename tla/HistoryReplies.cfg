SPECIFICATION Spec
CONSTANTS
    Words = 8192
    MaximumPoints = 3
    MaximumDrawn = 7
    Corrupt = Corrupt
    None = None
    Histories <- AllHistories
    Patterns <- AllPatterns
    PerPage = 2
    Snapshots <- AllSnapshots
    Additions = {2, 4090}
    StarCounts = {39, 4000}
    Creations <- AllCreations
    first = first
    second = second
    Descriptions = {first, second}
    MaxChanges = 2
INVARIANTS
    TypeOK
    SeriesIsTheSum
    CurveIsMonotone
    LineIsDrawn
    MilestonesAreOnTheLine
    BurstsFitThePeriod
    CurveFollowsEvents
    ConfirmedCurveIsCurrent
SYMMETRY
    RepliesSymmetry
