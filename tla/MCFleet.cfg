CONSTANTS
    Nobody = Nobody
    s1 = s1
    s2 = s2
    c1 = c1
    Servers = {s1, s2}
    Reconcilers = {c1}
    Processes = {s1, s2, c1}
    Carried <- MCCarried
    Files = 2
    Contents = {"a", "b", "bad"}
    Valid = {"a", "b"}
    Deployed = "a"
    MaxEdits = 1
    MaxFaults = 1
SPECIFICATION FairSpec
INVARIANTS
    TypeOK
    SchemaInOrder
    PendingIsPending
    ActivationTrail
PROPERTIES
    FleetComesUp
    ManifestConverges
