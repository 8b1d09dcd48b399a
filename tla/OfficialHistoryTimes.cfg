SPECIFICATION Spec
CONSTANTS
    Clients = {c1}
    MemTTL = 1
    DbTTL = 2
    FullAfter = 3
    BackoffBase = 1
    BackoffMax = 2
    Failures = {"notFound"}
    Faults = {"store", "restart", "switch", "evict", "sweep"}
    MaxTime = 6
    MaxChanges = 1
INVARIANTS
    TypeOK
    RecentWeeksAreFresh
    OldWeeksAreRevalidated
    StaleEndsWithBackoff
