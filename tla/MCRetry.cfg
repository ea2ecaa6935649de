CONSTANTS
    r1 = r1
    r2 = r2
    r3 = r3
    r4 = r4
    k1 = k1
    k2 = k2
    k3 = k3
    c1 = c1
    c2 = c2
    None = None
    Segments <- MCSegments
    Requests <- RetryRequests
    Keys = {k1}
    Bodies <- MCBodies
    KeyOf <- RetryKeyOf
    BodyOf <- RetryBodyOf
    Agents = {"agent"}
    Resources <- MCBodies
    AgentOf <- RetryAgentOf
    ResourceOf <- RetryResourceOf
    Declared <- MCDeclared
    Enforced <- RetryRequests
    OutcomeWriteAttempts = 2
    LostAcks = FALSE
    Reconcilers = {c1}
    Batch = 1
SYMMETRY RetrySymmetry
SPECIFICATION Spec
CHECK_DEADLOCK FALSE
INVARIANTS
    TypeOK
    AtMostOnce
    FailedNeverExecuted
    LiveIntentPerKey
    WriterInv
PROPERTIES
    ImplementsKey
