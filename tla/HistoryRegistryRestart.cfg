SPECIFICATION Spec
CONSTANTS
    None = None
    v1 = v1
    v2 = v2
    v3 = v3
    s1 = s1
    s2 = s2
    Publishers = {p1}
    Readers = {}
    Versions = {v1, v2, v3}
    SourceWatermark <- Watermarks
    CreatedAt <- Creation
    Legacy = {}
    Sums = {s1, s2}
    SnapshotBundles <- OneOfEach
    DeltaBundles <- DeltasOnce
    Files = {f1, f2}
    LastDay = 3
    Retention = 2
    Faults = {"crash"}
INVARIANT
    AcknowledgedDaysAreKept
