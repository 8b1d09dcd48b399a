SPECIFICATION Spec
CONSTANTS
    Clients = {c1, c2}
    MemTTL = 1
    DbTTL = 2
    FullAfter = 3
    BackoffBase = 1
    BackoffMax = 2
    Failures = {}
    Faults = {"disconnect", "evict"}
    MaxTime = 3
    MaxChanges = 0
SYMMETRY ClientSymmetry
INVARIANT
    StaleOnlyWhileUnavailable
