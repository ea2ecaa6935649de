---------------------------- MODULE FleetProofs -----------------------------
(***************************************************************************)
(* Boot and reload are safe for any fleet: any number of servers and       *)
(* reconcilers, of releases with any number of migrations each, over any   *)
(* manifest directory.                                                     *)
(***************************************************************************)
EXTENDS Fleet, FiniteSetTheorems, TLAPS

\* Past its first Load a process serves a snapshot that was validated.
LoadedInv ==
    \A p \in Processes : pc[p] \notin {"down", "loading"} => current[p] \in Snapshots

\* Who is past lock and before unlock has the lock, and what it found pending
\* is still what the ledger lacks; whoever is past Migrate has all it carries.
MigrationInv ==
    /\ \E n \in Nat : applied = 1 .. n
    /\ \A p \in Servers :
          /\ pc[p] \in {"locked", "migrating"} => holder = p
          /\ todo[p] = IF pc[p] = "migrating" THEN (1 .. Carried[p]) \ applied ELSE {}
          /\ pc[p] \in {"verifying"} \cup Up => 1 .. Carried[p] \subseteq applied

-----------------------------------------------------------------------------
\* The files read so far are a sequence no longer than the directory.
LEMMA SeenType ==
    ASSUME RegistryTypeOK, NEW p \in Processes
    PROVE  /\ Len(seen[p]) \in 0 .. Files
           /\ seen[p] \in [1 .. Len(seen[p]) -> Contents]
<1>1. PICK n \in 0 .. Files : seen[p] \in [1 .. n -> Contents]
    BY DEF RegistryTypeOK
<1>2. Len(seen[p]) = n
    BY <1>1, RegistryAssumption
<1>3. QED BY <1>1, <1>2

\* Reading one more file, swapping the pointer, forgetting a Load and losing
\* the process keep the types of the registry.
LEMMA RegistryType ==
    ASSUME RegistryTypeOK, NEW p \in Processes,
           ReadFile(p) \/ Activate(p) \/ KeepServing(p) \/ Discard(p)
    PROVE  RegistryTypeOK'
<1>1. <<>> \in [1 .. 0 -> Contents] /\ 0 \in 0 .. Files
    BY RegistryAssumption
<1>2. Forget(p) => seen' \in [Processes -> UNION {[1 .. n -> Contents] : n \in 0 .. Files}]
    <2>1. <<>> \in UNION {[1 .. n -> Contents] : n \in 0 .. Files}
        BY <1>1, Zenon
    <2> DEFINE Prefixes == UNION {[1 .. n -> Contents] : n \in 0 .. Files}
    <2>2. seen \in [Processes -> Prefixes] /\ <<>> \in Prefixes
        BY <2>1, Zenon DEF RegistryTypeOK
    <2> HIDE DEF Prefixes
    <2>3. Forget(p) => seen' \in [Processes -> Prefixes]
        BY <2>2 DEF Forget
    <2>4. QED BY <2>3, Zenon DEF Prefixes
<1>3. CASE ReadFile(p)
    <2> DEFINE n == Len(seen[p])
               more == Append(seen[p], dir[n + 1])
    <2>1. n \in 0 .. Files /\ n < Files /\ seen[p] \in [1 .. n -> Contents]
        BY <1>3, SeenType DEF ReadFile
    <2>2. dir[n + 1] \in Contents
        BY <2>1, RegistryAssumption DEF RegistryTypeOK
    <2>3. more \in [1 .. n + 1 -> Contents] /\ n + 1 \in 0 .. Files
        <3>1. seen[p] \in Seq(Contents)
            BY <2>1
        <3>2. more \in Seq(Contents) /\ Len(more) = n + 1
            BY <2>2, <3>1
        <3> HIDE DEF n, more
        <3>3. more \in [1 .. Len(more) -> Contents]
            BY <3>2
        <3>4. QED BY <2>1, <3>2, <3>3, RegistryAssumption
    <2>4. seen' = [seen EXCEPT ![p] = more] /\ UNCHANGED <<dir, current>>
        BY <1>3 DEF ReadFile
    <2>5. QED BY <2>3, <2>4 DEF RegistryTypeOK
<1>4. CASE Activate(p)
    BY <1>2, <1>4 DEF Activate, Accepted, RegistryTypeOK
<1>5. CASE KeepServing(p)
    BY <1>2, <1>5 DEF KeepServing, RegistryTypeOK
<1>6. CASE Discard(p)
    BY <1>2, <1>6 DEF Discard, RegistryTypeOK
<1>7. QED BY <1>3, <1>4, <1>5, <1>6

\* The end of a process keeps the types of all it takes down with it.
LEMMA ExitType ==
    ASSUME TypeOK, NEW p \in Processes, Exit(p)
    PROVE  /\ MigrationTypeOK' /\ RegistryTypeOK'
           /\ pc' = [pc EXCEPT ![p] = "down"]
           /\ activated' \in [Servers -> SUBSET Snapshots]
           /\ missed' \in [Servers -> SUBSET Snapshots]
<1>1. RegistryTypeOK'
    BY RegistryType DEF Exit, TypeOK
<1>2. CASE p \in Servers
    BY <1>1, <1>2 DEF Exit, Goto, Unlock, EndSession, TypeOK, MigrationTypeOK
<1>3. CASE p \notin Servers
    BY <1>1, <1>3 DEF Exit, Goto, TypeOK, MigrationTypeOK, migrationVars, auditVars
<1>4. QED BY <1>2, <1>3

\* Every step of the fleet keeps the types and serves validated snapshots only.
LEMMA FleetTypeStep == TypeOK /\ LoadedInv /\ [Next]_vars => TypeOK' /\ LoadedInv'
<1> SUFFICES ASSUME TypeOK, LoadedInv, [Next]_vars PROVE TypeOK' /\ LoadedInv'
    OBVIOUS
<1> USE FleetAssumption DEF TypeOK, LoadedInv, Goto, Boot, Up
<1>1. ASSUME NEW p \in Processes, Run(p) \/ Stop(p)
      PROVE  TypeOK' /\ LoadedInv'
    <2>1. CASE Start(p)
        BY <2>1 DEF Start, MigrationTypeOK, migrationVars, RegistryTypeOK, registryVars, auditVars
    <2>2. CASE Read(p)
        <3>1. RegistryTypeOK' /\ current' = current
            BY <2>2, RegistryType DEF Read, ReadFile
        <3>2. QED BY <2>2, <3>1 DEF Read, MigrationTypeOK, migrationVars, fleetVars, auditVars
    <2>3. ASSUME Activate(p), NEW l \in Boot \cup Up, Goto(p, l),
                 UNCHANGED <<migrationVars, headroom, auditVars, edits, faults>>
          PROVE  TypeOK' /\ LoadedInv'
        <3>1. RegistryTypeOK' /\ current'[p] \in Snapshots
              /\ \A q \in Processes \ {p} : current'[q] = current[q]
            BY <2>3, RegistryType DEF Activate, Accepted, RegistryTypeOK
        <3>2. QED BY <2>3, <3>1 DEF MigrationTypeOK, migrationVars, auditVars
    <2>4. CASE Loaded(p)
        BY <2>3, <2>4 DEF Loaded
    <2>5. ASSUME Exit(p), headroom' = headroom, edits' = edits, faults' \in 0 .. MaxFaults
          PROVE  TypeOK' /\ LoadedInv'
        <3>1. \A q \in Processes \ {p} : current'[q] = current[q]
            BY <2>5 DEF Exit, Discard, RegistryTypeOK
        <3>2. QED BY <2>5, <3>1, ExitType
    <2>6. CASE LoadRefused(p)
        BY <2>5, <2>6 DEF LoadRefused
    <2>7. CASE p \in Servers /\ Lock(p)
        BY <2>7 DEF Lock, AcquireLock, MigrationTypeOK, RegistryTypeOK, registryVars, auditVars
    <2>8. CASE p \in Servers /\ ReadLedger(p)
        <3>1. 1 .. Carried[p] \subseteq Nat
            BY <2>8, MigrationAssumption
        <3>2. QED BY <2>8, <3>1 DEF ReadLedger, pendingMigrations, MigrationTypeOK,
                                    RegistryTypeOK, registryVars, auditVars
    <2>9. CASE p \in Servers /\ Apply(p)
        BY <2>9 DEF Apply, apply, NextPending, MigrationTypeOK, RegistryTypeOK, registryVars,
                    auditVars
    <2>10. CASE p \in Servers /\ Migrated(p)
        BY <2>10 DEF Migrated, Unlock, EndSession, MigrationTypeOK, RegistryTypeOK, registryVars,
                     auditVars
    <2>11. CASE Verify(p)
        BY <2>11 DEF Verify, Serving, MigrationTypeOK, migrationVars, RegistryTypeOK, registryVars,
                     auditVars
    <2>12. CASE Refuse(p)
        BY <2>5, <2>12 DEF Refuse
    <2>13. CASE p \in Servers /\ RecordActivation(p)
        <3>1. current[p] \in Snapshots
            BY <2>13 DEF RecordActivation
        <3>2. /\ activated' \in [Servers -> SUBSET Snapshots]
              /\ missed' \in [Servers -> SUBSET Snapshots]
              /\ faults' \in 0 .. MaxFaults
            BY <2>13, <3>1 DEF RecordActivation, ActivatedVersion
        <3>3. /\ UNCHANGED <<migrationVars, registryVars, headroom, edits>>
              /\ pc' = [pc EXCEPT ![p] = "serving"]
            BY <2>13 DEF RecordActivation
        <3>4. QED BY <3>1, <3>2, <3>3 DEF MigrationTypeOK, migrationVars, RegistryTypeOK, registryVars
    <2>14. CASE Reload(p)
        BY <2>3, <2>14 DEF Reload, Serving
    <2>15. CASE ReloadRejected(p)
        <3>1. RegistryTypeOK' /\ current' = current
            BY <2>15, RegistryType DEF ReloadRejected, KeepServing
        <3>2. QED BY <2>15, <3>1 DEF ReloadRejected, MigrationTypeOK, migrationVars, fleetVars,
                                     auditVars
    <2>16. CASE Maintain(p)
        BY <2>16 DEF Maintain, MigrationTypeOK, migrationVars, RegistryTypeOK, registryVars,
                     auditVars
    <2>17. CASE Stop(p)
        BY <2>5, <2>17 DEF Stop
    <2>18. QED
        BY <1>1, <2>1, <2>2, <2>4, <2>6, <2>7, <2>8, <2>9, <2>10, <2>11, <2>12, <2>13, <2>14,
           <2>15, <2>16, <2>17 DEF Run
<1>2. CASE EditManifest
    BY <1>2 DEF EditManifest, Edit, MigrationTypeOK, migrationVars, RegistryTypeOK, auditVars
<1>3. CASE RunLow
    BY <1>3 DEF RunLow, MigrationTypeOK, migrationVars, RegistryTypeOK, registryVars, auditVars
<1>4. CASE UNCHANGED vars
    BY <1>4 DEF vars, MigrationTypeOK, migrationVars, RegistryTypeOK, registryVars, fleetVars,
                auditVars
<1>5. QED BY <1>1, <1>2, <1>3, <1>4 DEF Next

\* The type invariant holds in every reachable state of the fleet.
THEOREM FleetTypeCorrect == Spec => [](TypeOK /\ LoadedInv)
<1>1. Init => TypeOK /\ LoadedInv
    <2>1. <<>> \in [1 .. 0 -> Contents] /\ 0 \in 0 .. Files
        BY RegistryAssumption
    <2>2. RegistryInit => RegistryTypeOK
        BY <2>1, RegistryAssumption DEF RegistryInit, RegistryTypeOK
    <2>3. QED BY <2>2, FleetAssumption DEF Init, TypeOK, LoadedInv, MigrationInit, MigrationTypeOK
<1>2. QED BY <1>1, FleetTypeStep, PTL DEF Spec

-----------------------------------------------------------------------------
\* The end of a session, by unlock or with the process, leaves the others'
\* decisions as they were.
LEMMA SessionEnds ==
    ASSUME TypeOK, MigrationInv, NEW p \in Servers, Unlock(p), NEW l \in {"down", "verifying"},
           Goto(p, l), l = "verifying" => 1 .. Carried[p] \subseteq applied
    PROVE  MigrationInv'
<1>1. /\ applied' = applied
      /\ todo'[p] = {} /\ \A q \in Servers \ {p} : todo'[q] = todo[q]
      /\ \A q \in Servers \ {p} : holder = q => holder' = q
    BY DEF TypeOK, MigrationTypeOK, Unlock, EndSession
<1>2. pc'[p] = l /\ \A q \in Servers \ {p} : pc'[q] = pc[q]
    BY FleetAssumption DEF TypeOK, Goto
<1>3. QED BY <1>1, <1>2 DEF MigrationInv, Up

\* A step that leaves the schema alone and moves a process between points that
\* know the same of it.
LEMMA SchemaUntouched ==
    ASSUME TypeOK, MigrationInv, NEW p \in Processes, UNCHANGED migrationVars,
           \A q \in Processes \ {p} : pc'[q] = pc[q],
           p \in Servers =>
               \/ pc'[p] = pc[p]
               \/ pc'[p] \in {"loading", "locking"} /\ pc[p] # "migrating"
               \/ pc'[p] \in Up /\ pc[p] \in {"verifying"} \cup Up
    PROVE  MigrationInv'
BY FleetAssumption DEF MigrationInv, migrationVars, Up

\* One migration: the lowest the ledger lacks of those the binary carries is
\* the next one, since the ledger is a prefix of them.
LEMMA ApplyStep ==
    ASSUME TypeOK, MigrationInv, NEW p \in Servers, Apply(p)
    PROVE  MigrationInv'
<1>1. PICK n \in Nat : applied = 1 .. n
    BY DEF MigrationInv
<1>2. PICK m \in NextPending(p) :
          /\ m \notin applied
          /\ applied' = applied \cup {m}
          /\ todo' = [todo EXCEPT ![p] = @ \ {m}]
    BY DEF Apply, apply
<1>3. pc[p] = "migrating" /\ pc' = pc /\ holder' = holder
    BY DEF Apply, apply
<1>4. Carried[p] \in Nat /\ todo[p] = (1 .. Carried[p]) \ (1 .. n)
    BY <1>1, <1>3, MigrationAssumption DEF MigrationInv
<1>5. m = n + 1
    <2>1. m \in todo[p] /\ \A x \in todo[p] : m <= x
        BY <1>2 DEF NextPending
    <2>2. m \in 1 .. Carried[p] /\ m > n
        BY <1>4, <2>1
    <2>3. n + 1 \in todo[p]
        BY <1>4, <2>2
    <2>4. QED BY <1>4, <2>1, <2>2, <2>3
<1>6. applied' = 1 .. n + 1 /\ n + 1 \in Nat
    BY <1>1, <1>2, <1>5
<1>7. todo'[p] = (1 .. Carried[p]) \ applied'
    BY <1>1, <1>2, <1>4 DEF TypeOK, MigrationTypeOK
<1>8. \A q \in Servers \ {p} : pc[q] # "migrating" /\ todo'[q] = todo[q]
    BY <1>2, <1>3 DEF MigrationInv, TypeOK, MigrationTypeOK
<1>9. QED BY <1>2, <1>3, <1>6, <1>7, <1>8 DEF MigrationInv

\* Every step of the fleet keeps the ledger a prefix and decisions current.
LEMMA MigrationStep == TypeOK /\ MigrationInv /\ [Next]_vars => MigrationInv'
<1> SUFFICES ASSUME TypeOK, MigrationInv, [Next]_vars PROVE MigrationInv'
    OBVIOUS
<1> USE FleetAssumption DEF Goto, Boot, Up
<1>1. ASSUME NEW p \in Processes, Run(p) \/ Stop(p)
      PROVE  MigrationInv'
    <2>1. \A q \in Processes \ {p} : pc'[q] = pc[q]
        BY <1>1 DEF Run, Stop, Start, Read, Loaded, LoadRefused, Lock, ReadLedger, Apply, Migrated,
                    Verify, Refuse, RecordActivation, Reload, ReloadRejected, Maintain, Exit,
                    fleetVars, TypeOK
    <2>2. CASE Start(p) \/ Loaded(p) \/ Verify(p) \/ Reload(p)
        BY <2>1, <2>2, SchemaUntouched DEF Start, Loaded, Verify, Reload, Serving, TypeOK
    <2>3. CASE Read(p) \/ ReloadRejected(p) \/ Maintain(p)
        BY <2>1, <2>3, SchemaUntouched DEF Read, ReloadRejected, Maintain, fleetVars
    <2>4. CASE p \in Servers /\ RecordActivation(p)
        BY <2>1, <2>4, SchemaUntouched DEF RecordActivation, TypeOK
    <2>5. CASE p \in Servers /\ Lock(p)
        <3>1. /\ holder = Nobody /\ holder' = p /\ UNCHANGED <<applied, todo>>
              /\ pc[p] = "locking" /\ pc'[p] = "locked"
            BY <2>5 DEF Lock, AcquireLock, LockAvailable, TypeOK
        <3>2. QED BY <2>1, <2>5, <3>1, MigrationAssumption DEF MigrationInv
    <2>6. CASE p \in Servers /\ ReadLedger(p)
        <3>1. /\ UNCHANGED <<applied, holder>>
              /\ todo'[p] = (1 .. Carried[p]) \ applied
              /\ \A q \in Servers \ {p} : todo'[q] = todo[q]
              /\ pc[p] = "locked" /\ pc'[p] = "migrating"
            BY <2>6 DEF ReadLedger, pendingMigrations, TypeOK, MigrationTypeOK
        <3>2. QED BY <2>1, <2>6, <3>1 DEF MigrationInv
    <2>7. CASE p \in Servers /\ Apply(p)
        BY <2>7, ApplyStep
    <2>8. CASE p \in Servers /\ Migrated(p)
        <3>1. 1 .. Carried[p] \subseteq applied
            BY <2>8 DEF Migrated, MigrationInv
        <3>2. QED BY <2>8, <3>1, SessionEnds DEF Migrated
    <2>9. ASSUME Exit(p)
          PROVE  MigrationInv'
        <3>1. CASE p \in Servers
            BY <2>9, <3>1, SessionEnds DEF Exit
        <3>2. CASE p \notin Servers
            BY <2>1, <2>9, <3>2, SchemaUntouched DEF Exit
        <3>3. QED BY <3>1, <3>2
    <2>10. CASE LoadRefused(p) \/ Refuse(p) \/ Stop(p)
        BY <2>9, <2>10 DEF LoadRefused, Refuse, Stop
    <2>11. QED
        BY <1>1, <2>2, <2>3, <2>4, <2>5, <2>6, <2>7, <2>8, <2>10 DEF Run
<1>2. CASE EditManifest \/ RunLow \/ UNCHANGED vars
    <2>1. UNCHANGED migrationVars /\ pc' = pc
        BY <1>2 DEF EditManifest, RunLow, vars, fleetVars
    <2>2. QED BY <2>1 DEF MigrationInv, migrationVars
<1>3. QED BY <1>1, <1>2 DEF Next

\* Concurrent boots of replicas of any releases serialize on the migration
\* lock: the invariant of Migrate holds in every reachable state.
THEOREM MigrationInvariant == Spec => []MigrationInv
<1>1. Init => MigrationInv
    <2>1. Init => applied = 1 .. 0 /\ 0 \in Nat
        BY DEF Init, MigrationInit
    <2>2. QED BY <2>1, FleetAssumption DEF Init, MigrationInit, MigrationInv, Up
<1>2. QED BY <1>1, MigrationStep, FleetTypeCorrect, PTL DEF Spec

\* schema_migrations is a prefix of the migrations and a server that serves
\* has all of its own, whatever fleet boots over it.
THEOREM SchemaInOrderCorrect == Spec => []SchemaInOrder
<1>1. MigrationInv => SchemaInOrder
    <2> SUFFICES ASSUME MigrationInv PROVE SchemaInOrder
        OBVIOUS
    <2>1. PICK n \in Nat : applied = 1 .. n
        BY DEF MigrationInv
    <2>2. Cardinality(1 .. n) = IF 1 > n THEN 0 ELSE n - 1 + 1
        BY FS_Interval
    <2>3. Cardinality(applied) = n
        BY <2>1, <2>2
    <2>4. QED BY <2>1, <2>3 DEF MigrationInv, SchemaInOrder
<1>2. QED BY <1>1, MigrationInvariant, PTL

\* apply never meets a version that is in the ledger already: no boot fails
\* because another replica was migrating.
THEOREM PendingIsPendingCorrect == Spec => []PendingIsPending
<1>1. MigrationInv => PendingIsPending
    BY DEF MigrationInv, PendingIsPending
<1>2. QED BY <1>1, MigrationInvariant, PTL

-----------------------------------------------------------------------------
\* Every step leaves the version a server judges by recorded, or its insert
\* known to have failed.
LEMMA TrailStep == TypeOK /\ ActivationTrail /\ [Next]_vars => ActivationTrail'
<1> SUFFICES ASSUME TypeOK, ActivationTrail, [Next]_vars PROVE ActivationTrail'
    OBVIOUS
<1> USE FleetAssumption DEF Goto, TypeOK, RegistryTypeOK, ActivationTrail
<1>1. ASSUME NEW p \in Processes, Run(p) \/ Stop(p)
      PROVE  ActivationTrail'
    <2>1. ASSUME \A q \in Processes \ {p} : pc'[q] = pc[q] /\ current'[q] = current[q],
                 \A q \in Servers \ {p} : activated'[q] = activated[q] /\ missed'[q] = missed[q],
                 p \in Servers /\ pc'[p] = "serving" =>
                     current'[p] \in activated'[p] \cup missed'[p]
          PROVE  ActivationTrail'
        BY <2>1
    <2>2. CASE Start(p) \/ Loaded(p) \/ Verify(p) \/ Reload(p)
        BY <2>1, <2>2 DEF Start, Loaded, Verify, Reload, Serving, Activate, registryVars, auditVars
    <2>3. CASE Read(p) \/ ReloadRejected(p) \/ Maintain(p)
        BY <2>1, <2>3 DEF Read, ReadFile, ReloadRejected, KeepServing, Maintain, registryVars,
                          fleetVars, auditVars
    <2>4. CASE p \in Servers /\ RecordActivation(p)
        <3>1. /\ pc' = [pc EXCEPT ![p] = "serving"] /\ current' = current
              /\ \/ /\ activated' = [activated EXCEPT ![p] = @ \cup {current[p]}]
                    /\ missed' = missed
                 \/ /\ missed' = [missed EXCEPT ![p] = @ \cup {current[p]}]
                    /\ activated' = activated
            BY <2>4 DEF RecordActivation, ActivatedVersion, registryVars
        <3>2. \A q \in Processes \ {p} : pc'[q] = pc[q] /\ current'[q] = current[q]
            BY <3>1
        <3>3. \A q \in Servers \ {p} : activated'[q] = activated[q] /\ missed'[q] = missed[q]
            BY <3>1
        <3>4. current'[p] \in activated'[p] \cup missed'[p]
            BY <2>4, <3>1
        <3>5. QED BY <2>1, <3>2, <3>3, <3>4, Zenon
    <2>5. CASE p \in Servers /\ (Lock(p) \/ ReadLedger(p) \/ Apply(p) \/ Migrated(p))
        BY <2>1, <2>5 DEF Lock, ReadLedger, Apply, Migrated, registryVars, auditVars
    <2>6. CASE LoadRefused(p) \/ Refuse(p) \/ Stop(p)
        <3>1. Exit(p)
            BY <2>6 DEF LoadRefused, Refuse, Stop
        <3>2. QED BY <2>1, <3>1 DEF Exit, Discard, auditVars
    <2>7. QED BY <1>1, <2>2, <2>3, <2>4, <2>5, <2>6 DEF Run
<1>2. CASE EditManifest \/ RunLow \/ UNCHANGED vars
    BY <1>2 DEF EditManifest, Edit, RunLow, vars, registryVars, fleetVars, auditVars
<1>3. QED BY <1>1, <1>2 DEF Next

\* The version a server judges by is in manifest_activations, or its insert
\* failed, however the directory changes under the readers.
THEOREM ActivationTrailCorrect == Spec => []ActivationTrail
<1>1. Init => ActivationTrail
    BY FleetAssumption DEF Init, ActivationTrail
<1>2. QED BY <1>1, TrailStep, FleetTypeCorrect, PTL DEF Spec
=============================================================================
