CONSTANTS
    c1 = c1
    c2 = c2
    k1 = k1
    l1 = l1
    l2 = l2
    l3 = l3
    None = None
    Callers = {c1, c2}
    Closers = {k1}
    Launches = {l1, l2, l3}
    MaxPages = 1
SPECIFICATION FairSpec
INVARIANTS
    TypeOK
    SlotAccounting
    PromiseHasLeader
    OneBrowser
PROPERTIES
    NoBarging
    EveryCallReturns
