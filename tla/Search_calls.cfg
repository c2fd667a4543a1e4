CONSTANTS
    c1 = c1
    c2 = c2
    r1 = r1
    r2 = r2
    Calls = {c1, c2}
    Repos = {r1, r2}
    Window = 2
    MaxOutages = 1
    OldRepos = {r1}
SPECIFICATION FairSpec
INVARIANTS
    TypeOK
    NobodyStranded
PROPERTIES
    NoHerd
    CallReturns
    RerankerRecovers
