CONSTANTS
    Keys = {k1}
    MaxClaims = 4
    Reconcilers = {c1, c2}
    OutcomeWriteAttempts = 2
    LostAcks = TRUE
SYMMETRY ReconcilerSymmetry
SPECIFICATION Spec
CHECK_DEADLOCK FALSE
INVARIANTS
    PromiseKept
