CONSTANTS
    w1 = w1
    w2 = w2
    m1 = m1
    m2 = m2
    None = None
    Rows = {w1, w2}
    Maintainers = {m1, m2}
    Ahead = 2
    Window = 1
    MaxTime = 4
    ArchiveConfigured = TRUE
SPECIFICATION Spec
CHECK_DEADLOCK FALSE
SYMMETRY PartitionsSymmetry
INVARIANTS
    RowsKept
    HotRowsAttached
    HorizonCovered
