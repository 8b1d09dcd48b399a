SPECIFICATION Spec
CONSTANTS
    None = None
    v1 = v1
    v2 = v2
    v3 = v3
    s1 = s1
    s2 = s2
    Publishers = {p1}
    Readers = {r1}
    Versions = {v1, v2, v3}
    SourceWatermark <- Watermarks
    CreatedAt <- Creation
    Legacy = {v1}
    Sums = {s1, s2}
    SnapshotBundles <- Rebuilt
    DeltaBundles <- Deltas
    Files = {f1, f2}
    LastDay = 3
    Retention = 2
    Faults = {"crash", "shutdown", "error"}
SYMMETRY RegistrySymmetry
INVARIANTS
    TypeOK
    RestartRecovers
    PointerMatchesStore
    StatisticsMatchSeries
    OneContentPerDelta
PROPERTIES
    ServesPublishedHistory
