CONSTANTS
    c1 = c1
    c2 = c2
    r1 = r1
    root = root
    x = x
    None = None
    Gone = Gone
    Calls = {c1, c2}
    Repos = {r1}
    Slugs = {root}
    Sections = {x}
    Keys <- SmallKeys
    LastVersion = 2
    Bare = {2}
    Shells = {0}
    Interval = 1
SPECIFICATION FairSpec
INVARIANTS
    TypeOK
    RowIsOneVersion
    SingleFlight
PROPERTIES
    OnlyOvertakenRegresses
    KeyFreed
CHECK_DEADLOCK FALSE
