CONSTANTS
    c1 = c1
    c2 = c2
    l1 = l1
    l2 = l2
    None = None
    Callers = {c1, c2}
    Closers = {}
    Launches = {l1, l2}
    MaxPages = 2
SPECIFICATION Spec
INVARIANT
    ContextIsSet
