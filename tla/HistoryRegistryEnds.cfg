SPECIFICATION FairSpec
CONSTANTS
    None = None
    v1 = v1
    v2 = v2
    v3 = v3
    s1 = s1
    s2 = s2
    Publishers = {p1, p2}
    Readers = {r1, r2}
    Versions = {v1, v2, v3}
    SourceWatermark <- Watermarks
    CreatedAt <- Creation
    Legacy = {}
    Sums = {s1, s2}
    SnapshotBundles <- FirstOnly
    DeltaBundles <- DayTwo
    Files = {f1, f2}
    LastDay = 2
    Retention = 2
    Faults = {"error"}
INVARIANT
    NoQueryOnClosedStore
PROPERTY
    EveryPublishEnds
