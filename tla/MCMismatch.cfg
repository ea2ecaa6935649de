CONSTANTS
    r1 = r1
    r2 = r2
    r3 = r3
    r4 = r4
    k1 = k1
    k2 = k2
    k3 = k3
    c1 = c1
    c2 = c2
    None = None
    Segments <- MCSegments
    Requests = {r1, r2, r3}
    Keys = {k1}
    Bodies <- MCBodies
    KeyOf <- RetryKeyOf
    BodyOf <- RetryBodyOf2
    Agents = {"agent"}
    Resources <- MCBodies
    AgentOf <- RetryAgentOf
    ResourceOf <- RetryResourceOf
    Declared <- MCDeclared
    Enforced = {r1, r2, r3}
    OutcomeWriteAttempts = 1
    LostAcks = FALSE
    Reconcilers = {c1}
    Batch = 1
SPECIFICATION FairSpec
CHECK_DEADLOCK FALSE
INVARIANTS
    AtMostOnce
    OnlyTheClaimedBody
    SuccessIsTrue
    ClaimInv
PROPERTIES
    PendingSettles
    EveryRequestEnds
