CONSTANTS
    Clients = {"c1"}
    Rows <- MCRows
    Queries <- MCQueries
    MaxTime = 3
    MaxSpan = 2
    MaxLimit = 2
SPECIFICATION FairSpec
CHECK_DEADLOCK FALSE
INVARIANTS
    WalkDescends
    WalkComplete
    PayloadsAudited
PROPERTIES
    WalkEnds
