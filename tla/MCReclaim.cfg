CONSTANTS
    r1 = r1
    r2 = r2
    r3 = r3
    r4 = r4
    k1 = k1
    k2 = k2
    k3 = k3
    c1 = c1
    c2 = c2
    None = None
    Segments <- MCSegments
    Requests = {r1, r3, r4}
    Keys <- ConflictKeys
    Bodies <- MCBodies
    KeyOf <- ConflictKeyOf
    BodyOf <- ConflictBodyOf
    Agents = {"agent", "other"}
    Resources = {"resource"}
    AgentOf <- ConflictAgentOf
    ResourceOf <- ConflictResourceOf
    Declared <- MCDeclared
    Enforced = {r3, r4}
    OutcomeWriteAttempts = 1
    LostAcks = FALSE
    Reconcilers = {c1}
    Batch = 1
VIEW ReclaimView
SPECIFICATION Spec
CHECK_DEADLOCK FALSE
INVARIANTS
    ConflictsExcluded
PROPERTIES
    ImplementsKey
