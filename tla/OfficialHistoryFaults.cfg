SPECIFICATION FairSpec
CONSTANTS
    Clients = {c1, c2}
    MemTTL = 1
    DbTTL = 1
    FullAfter = 3
    BackoffBase = 1
    BackoffMax = 2
    Failures = {"error"}
    Faults = {"disconnect", "restart", "switch", "evict"}
    MaxTime = 2
    MaxChanges = 0
INVARIANTS
    MemoryAgreesWithStore
    OneRefreshAtATime
    WaitersHaveALeader
PROPERTIES
    RowNeverGoesBack
    EveryRequestEnds
