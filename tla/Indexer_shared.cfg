CONSTANTS
    p1 = p1
    p2 = p2
    r1 = r1
    r2 = r2
    m1 = m1
    m0 = m0
    None = None
    Procs = {p1, p2}
    Repos = {r1}
    LastVersion = 1
    Unstamped = {0}
    Shells = {0}
    ChunksOf <- SomeChunks
    EdgesOf <- SomeEdges
    Models = {m0, m1}
    KgModes = {TRUE, FALSE}
    Legacy = m0
SPECIFICATION Spec
SYMMETRY Symmetry
INVARIANTS
    RowsHaveStatus
PROPERTY
    RowsArriveWithStatus
