CONSTANTS
    w1 = w1
    w2 = w2
    m1 = m1
    m2 = m2
    None = None
    Rows = {w1}
    Maintainers = {m1}
    Ahead = 2
    Window = 1
    MaxTime = 4
    ArchiveConfigured = FALSE
SPECIFICATION Spec
CHECK_DEADLOCK FALSE
INVARIANTS
    LeftAttached
