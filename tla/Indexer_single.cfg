CONSTANTS
    p1 = p1
    r1 = r1
    r2 = r2
    m1 = m1
    m0 = m0
    None = None
    Procs = {p1}
    Repos = {r1, r2}
    LastVersion = 2
    Unstamped = {0}
    Shells = {}
    ChunksOf <- SomeChunks
    EdgesOf <- SomeEdges
    Models = {m0, m1}
    KgModes = {TRUE, FALSE}
    Legacy = m0
SPECIFICATION Spec
SYMMETRY Symmetry
INVARIANT
    CleanAfterSwap
PROPERTIES
    
    NoReembed
