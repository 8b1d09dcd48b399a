SPECIFICATION Spec
CONSTANTS
    None = None
    r1 = r1
    r2 = r2
    pathA = pathA
    pathB = pathB
    Clients = {c1}
    Paths = {pathA, pathB}
    Repos = {r1, r2}
    Asked = {None, r1, r2}
    TTL = 2
    NegativeTTL = 1
    Birth <- Neighbours
    Redirects <- Separate
    Faults = {}
    MaxTime = 4
    MaxChanges = 2
INVARIANT
    AnswerIsAboutThePath
