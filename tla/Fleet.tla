------------------------------- MODULE Fleet --------------------------------
(***************************************************************************)
(* The processes of a deployment from start to stop: servers (cmd/idemio)  *)
(* and reconcilers (cmd/reconciler) boot in any order over one database    *)
(* and one manifest directory, fail, are restarted, reload, drain.         *)
(*                                                                         *)
(* A server migrates and then insists on partition headroom, which only a  *)
(* reconciler's maintenance restores; a reconciler insists on the table    *)
(* that only a server's migration creates.                                 *)
(***************************************************************************)
EXTENDS Migration, Registry

CONSTANTS
    Reconcilers,
    MaxEdits,       \* a bound on the edits of the manifest directory
    MaxFaults       \* a bound on crashes, shutdowns and failed inserts

ASSUME FleetAssumption ==
    /\ Processes = Servers \cup Reconcilers /\ Servers \cap Reconcilers = {}
    /\ MaxEdits \in Nat /\ MaxFaults \in Nat

VARIABLES
    pc,             \* pc[p]: where p is between start and stop
    headroom,       \* have all range-partitioned tables 14 days to go?
    activated,      \* activated[p]: the versions in manifest_activations for this start of p
    missed,         \* missed[p]: the versions whose insert failed
    edits, faults

auditVars == <<activated, missed>>
fleetVars == <<pc, headroom, auditVars, edits, faults>>
vars == <<migrationVars, registryVars, fleetVars>>

Boot == {"loading", "locking", "locked", "migrating", "verifying"}
Up == {"activating", "serving"}

TypeOK ==
    /\ MigrationTypeOK /\ RegistryTypeOK
    /\ pc \in [Processes -> {"down"} \cup Boot \cup Up]
    /\ activated \in [Servers -> SUBSET Snapshots] /\ missed \in [Servers -> SUBSET Snapshots]
    /\ headroom \in {"enough", "low"}
    /\ edits \in 0 .. MaxEdits /\ faults \in 0 .. MaxFaults

Init ==
    /\ MigrationInit /\ RegistryInit
    /\ pc = [p \in Processes |-> "down"]
    /\ headroom = "low"
    /\ activated = [p \in Servers |-> {}] /\ missed = [p \in Servers |-> {}]
    /\ edits = 0 /\ faults = 0

Goto(p, label) == pc' = [pc EXCEPT ![p] = label]

\* The process ends: its sessions and its snapshot are gone, and its next
\* start has a principal of its own.
Exit(p) ==
    /\ Goto(p, "down")
    /\ Discard(p)
    /\ IF p \in Servers
       THEN /\ Unlock(p)
            /\ activated' = [activated EXCEPT ![p] = {}]
            /\ missed' = [missed EXCEPT ![p] = {}]
       ELSE UNCHANGED <<migrationVars, auditVars>>

-----------------------------------------------------------------------------
(* Boot.                                                                   *)

\* The supervisor starts the process; config.Load.
Start(p) ==
    /\ pc[p] = "down"
    /\ Goto(p, "loading")
    /\ UNCHANGED <<migrationVars, registryVars, headroom, auditVars, edits, faults>>

\* One more file of a Load, at boot or by the Watch of a running process.
Read(p) ==
    /\ pc[p] \in {"loading", "serving"}
    /\ ReadFile(p)
    /\ UNCHANGED <<migrationVars, fleetVars>>

\* NewStore succeeds.
Loaded(p) ==
    /\ pc[p] = "loading"
    /\ Activate(p)
    /\ Goto(p, IF p \in Servers THEN "locking" ELSE "verifying")
    /\ UNCHANGED <<migrationVars, headroom, auditVars, edits, faults>>

\* NewStore fails: refusing to boot on a bad manifest.
LoadRefused(p) ==
    /\ pc[p] = "loading"
    /\ LoadedAll(p) /\ ~ Accepted(p)
    /\ Exit(p)
    /\ UNCHANGED <<headroom, edits, faults>>

Lock(p) ==
    /\ pc[p] = "locking"
    /\ AcquireLock(p)
    /\ Goto(p, "locked")
    /\ UNCHANGED <<registryVars, headroom, auditVars, edits, faults>>

ReadLedger(p) ==
    /\ pc[p] = "locked"
    /\ pendingMigrations(p)
    /\ Goto(p, "migrating")
    /\ UNCHANGED <<registryVars, headroom, auditVars, edits, faults>>

\* The first migration creates the tables with partitions for months to come.
Apply(p) ==
    /\ pc[p] = "migrating"
    /\ apply(p)
    /\ headroom' = IF applied = {} THEN "enough" ELSE headroom
    /\ UNCHANGED <<registryVars, pc, auditVars, edits, faults>>

\* Migrate returns.
Migrated(p) ==
    /\ pc[p] = "migrating" /\ todo[p] = {}
    /\ Unlock(p)
    /\ Goto(p, "verifying")
    /\ UNCHANGED <<registryVars, headroom, auditVars, edits, faults>>

\* A reconciler that insists on headroom as well.
VerifiedAlike(p) == 1 \in applied /\ headroom = "enough"

\* VerifyUniqueConstraint needs the table; VerifyPartitionHeadroom is asked
\* by a server only.
Verified(p) == 1 \in applied /\ (p \in Servers => headroom = "enough")

\* A server records each activation; a reconciler records none.
Serving(p) == IF p \in Servers THEN "activating" ELSE "serving"

Verify(p) ==
    /\ pc[p] = "verifying"
    /\ Verified(p)
    /\ Goto(p, Serving(p))
    /\ UNCHANGED <<migrationVars, registryVars, headroom, auditVars, edits, faults>>

\* A check does not hold: run returns an error, after a server has migrated.
Refuse(p) ==
    /\ pc[p] = "verifying"
    /\ ~ Verified(p)
    /\ Exit(p)
    /\ UNCHANGED <<headroom, edits, faults>>

-----------------------------------------------------------------------------
(* Service.                                                                *)

\* The version of what the directory holds by now.
VersionOnDisk(p) == dir

ActivatedVersion(p) == current[p]

\* activator: one row per process and version.  A failed insert is logged and
\* not tried again.
RecordActivation(p) ==
    /\ pc[p] = "activating"
    /\ \/ /\ activated' = [activated EXCEPT ![p] = @ \cup {ActivatedVersion(p)}]
          /\ UNCHANGED <<missed, faults>>
       \/ /\ faults < MaxFaults /\ faults' = faults + 1
          /\ missed' = [missed EXCEPT ![p] = @ \cup {ActivatedVersion(p)}]
          /\ UNCHANGED activated
    /\ Goto(p, "serving")
    /\ UNCHANGED <<migrationVars, registryVars, headroom, edits>>

\* reload stores the new snapshot, and Watch calls onActivate after that.
Reload(p) ==
    /\ pc[p] = "serving"
    /\ Activate(p)
    /\ Goto(p, Serving(p))
    /\ UNCHANGED <<migrationVars, headroom, auditVars, edits, faults>>

ReloadRejected(p) ==
    /\ pc[p] = "serving"
    /\ KeepServing(p)
    /\ UNCHANGED <<migrationVars, fleetVars>>

\* EnsurePartitions of a reconciler that is up.
Maintain(p) ==
    /\ p \in Reconcilers /\ pc[p] = "serving"
    /\ headroom' = "enough"
    /\ UNCHANGED <<migrationVars, registryVars, pc, auditVars, edits, faults>>

\* A signal, a crash, or a database error that ends a boot.  (A drain changes
\* nothing that is kept here.)
Stop(p) ==
    /\ pc[p] # "down" /\ faults < MaxFaults
    /\ faults' = faults + 1
    /\ Exit(p)
    /\ UNCHANGED <<headroom, edits>>

-----------------------------------------------------------------------------
(* The world around.                                                       *)

EditManifest ==
    /\ edits < MaxEdits
    /\ edits' = edits + 1
    /\ \E new \in [1 .. Files -> Contents] : Edit(new)
    /\ UNCHANGED <<migrationVars, pc, headroom, auditVars, faults>>

\* Maintenance, which looks months ahead, has been away for weeks.
RunLow ==
    /\ headroom = "enough"
    /\ \A r \in Reconcilers : pc[r] # "serving"
    /\ headroom' = "low"
    /\ UNCHANGED <<migrationVars, registryVars, pc, auditVars, edits, faults>>

Run(p) ==
    \/ Start(p) \/ Read(p) \/ Loaded(p) \/ LoadRefused(p)
    \/ Verify(p) \/ Refuse(p) \/ Reload(p) \/ ReloadRejected(p) \/ Maintain(p)
    \/ /\ p \in Servers
       /\ Lock(p) \/ ReadLedger(p) \/ Apply(p) \/ Migrated(p) \/ RecordActivation(p)

Next ==
    \/ \E p \in Processes : Run(p) \/ Stop(p)
    \/ EditManifest \/ RunLow

Spec == Init /\ [][Next]_vars

Fairness ==
    \A p \in Processes :
        /\ WF_vars(Start(p)) /\ WF_vars(Read(p))
        /\ WF_vars(Loaded(p) \/ LoadRefused(p)) /\ WF_vars(Reload(p) \/ ReloadRejected(p))
        /\ WF_vars(Verify(p) \/ Refuse(p)) /\ WF_vars(Maintain(p))
        /\ p \in Servers =>
              /\ SF_vars(Lock(p)) /\ WF_vars(ReadLedger(p)) /\ WF_vars(Apply(p)) /\ WF_vars(Migrated(p))
              /\ WF_vars(RecordActivation(p))

FairSpec == Spec /\ Fairness

-----------------------------------------------------------------------------
\* The ledger is a prefix of the migrations, and whoever serves finds all the
\* migrations its binary carries: whatever replicas of whatever releases boot
\* at the same time, fail half way and start again.
SchemaInOrder ==
    /\ applied = 1 .. Cardinality(applied)
    /\ \A p \in Servers : pc[p] \in Up => 1 .. Carried[p] \subseteq applied

\* A migration somebody has decided to apply is not applied yet, so no boot
\* fails because another replica was migrating.
PendingIsPending == \A p \in Servers : todo[p] \cap applied = {}

\* The version a server judges by is in manifest_activations, but for inserts
\* that failed and the moment between the swap and the insert, however the
\* directory changed before and since.
ActivationTrail ==
    \A p \in Servers : pc[p] = "serving" => current[p] \in activated[p] \cup missed[p]

\* Servers wait for headroom and reconcilers for the schema, and neither for
\* ever: with a manifest directory that stays valid the whole fleet comes up.
FleetComesUp ==
    <>[](dir \in Snapshots => \A p \in Processes : pc[p] \in Up)

\* And it serves what the directory says, whatever was read in between.
ManifestConverges ==
    <>[](dir \in Snapshots => \A p \in Processes : current[p] = dir)
=============================================================================
