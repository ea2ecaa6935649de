----------------------------- MODULE Migration ------------------------------
(***************************************************************************)
(* store.Migrate: every server brings the schema up to the migrations its  *)
(* binary carries, under one session-level advisory lock.  A migration's   *)
(* body and its ledger row commit in one transaction, so the ledger stands *)
(* for the schema.                                                         *)
(***************************************************************************)
EXTENDS Naturals, FiniteSets

CONSTANTS
    Servers,    \* the idemio processes
    Carried,    \* Carried[p]: how many migrations p's binary has, in name order
    Nobody      \* no lock holder

ASSUME MigrationAssumption == Carried \in [Servers -> Nat] /\ Nobody \notin Servers

VARIABLES
    applied,    \* schema_migrations
    holder,     \* the session that has the migration lock
    todo        \* todo[p]: the pending migrations p found, not yet applied

migrationVars == <<applied, holder, todo>>

MigrationTypeOK ==
    /\ applied \in SUBSET Nat
    /\ holder \in Servers \cup {Nobody}
    /\ todo \in [Servers -> SUBSET Nat]

MigrationInit ==
    /\ applied = {}
    /\ holder = Nobody
    /\ todo = [p \in Servers |-> {}]

-----------------------------------------------------------------------------
\* No mutual exclusion between replicas.
LockTakenAnyway(p) == TRUE

LockAvailable(p) == holder = Nobody

AcquireLock(p) ==
    /\ LockAvailable(p)
    /\ holder' = p
    /\ UNCHANGED <<applied, todo>>

\* appliedVersions and pendingMigrations.
pendingMigrations(p) ==
    /\ todo' = [todo EXCEPT ![p] = (1 .. Carried[p]) \ applied]
    /\ UNCHANGED <<applied, holder>>

\* The files in the order a map gives them.
NextPendingAny(p) == todo[p]

NextPending(p) == {m \in todo[p] : \A n \in todo[p] : m <= n}

\* apply: the body and the ledger row, or neither.  A version that is there
\* already violates the ledger's primary key.
apply(p) ==
    \E m \in NextPending(p) :
        /\ m \notin applied
        /\ applied' = applied \cup {m}
        /\ todo' = [todo EXCEPT ![p] = @ \ {m}]
        /\ UNCHANGED holder

\* The end of p's session: by unlock, or with the process.
EndSession(p) ==
    /\ holder' = IF holder = p THEN Nobody ELSE holder
    /\ todo' = [todo EXCEPT ![p] = {}]

Unlock(p) == EndSession(p) /\ UNCHANGED applied
=============================================================================
