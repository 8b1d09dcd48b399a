SPECIFICATION Spec
CONSTANTS
    Readers = {r1}
    Lookups = {}
    Limit = 2
    PerFetch = 2
    PerPage = 2
    MaxPages = 3
    MaxWeeks = 6
INVARIANT
    HistoryIsComplete
