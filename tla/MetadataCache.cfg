SPECIFICATION Spec
CONSTANTS
    None = None
    r1 = r1
    r2 = r2
    pathA = pathA
    pathB = pathB
    Clients = {c1, c2}
    Paths = {pathA, pathB}
    Repos = {r1}
    Asked = {None, r1, r2}
    TTL = 1
    NegativeTTL = 1
    Birth <- Alone
    Redirects <- Renamed
    Faults = {"github", "disconnect", "store", "switch"}
    MaxTime = 1
    MaxChanges = 1
SYMMETRY MetadataSymmetry
INVARIANTS
    TypeOK
    PublicIsRecent
    UnavailableIsRecent
