CONSTANTS
    p1 = p1
    r1 = r1
    r2 = r2
    m1 = m1
    m0 = m0
    None = None
    Procs = {p1}
    Repos = {r1}
    LastVersion = 2
    Unstamped = {0}
    Shells = {}
    ChunksOf <- SomeChunks
    EdgesOf <- SomeEdges
    Models = {m0}
    KgModes = {TRUE}
    Legacy = m0
SPECIFICATION FairSpec
PROPERTY
    EventuallyCurrent
