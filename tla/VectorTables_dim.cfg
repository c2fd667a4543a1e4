CONSTANTS
    p1 = p1
    p2 = p2
    r1 = r1
    r2 = r2
    s1 = s1
    t1 = t1
    t2 = t2
    d1 = d1
    d2 = d2
    None = None
    Procs = {p1, p2}
    Repos = {r1, r2}
    Sections = {s1}
    Texts = {t1, t2}
    Dims = {d1, d2}
    LegacyDim = d1
    Tolerated = 1
    MaxRow = 3
    MaxSections = 2
    MixedWriters = FALSE
SPECIFICATION Spec
INVARIANT
    VecTableFits
