SPECIFICATION FairSpec
CONSTANTS
    Readers = {r1}
    Lookups = {l1, l2}
    Limit = 2
    PerFetch = 2
    PerPage = 1
    MaxPages = 3
    MaxWeeks = 3
INVARIANTS
    TypeOK
    CallsAreLimited
    SlotsAreReturned
    SavedIsWhole
    CauseIsKept
PROPERTY
    EveryCallEnds
