CONSTANTS
    Segments = {"a", "b"}
    MaxDepth = 2
    MaxPaths = 3
    Window = 3
    Floor = 2
    Ceiling = 4
    Default = 3
    Durations = {1, 3, 4, 5}
    MaxCalls = 5
    MaxRecorded = 3
    MaxWindow = 5
    MaxKeys = 3
    MaxClaims = 5
    Carry = 8
    Units = {1, 2, 4, 8}
    MaxDouble = 28
    Names = {"x", "y"}
    Payloads <- MCPayloads
SPECIFICATION Spec
CHECK_DEADLOCK FALSE
INVARIANTS
    MatrixSymmetric
    DisjointMeansNoCommonField
    RingIsRecent
    AdviceIsP95
    RejectionExplained
    BacklogDrains
    HashIsMeaning
