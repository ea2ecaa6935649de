----------------------------- MODULE Partitions -----------------------------
(***************************************************************************)
(* One range-partitioned table (write_intents, conflicts or                *)
(* payload_access_audit) and the maintainers that extend, retire and       *)
(* archive it (internal/maintenance, internal/archive, cmd/reconciler).    *)
(*                                                                         *)
(* Time counts partition lengths. Partition p holds the rows of period p;  *)
(* its upper bound is p + 1, and its name and its archive object are made  *)
(* from its lower bound, so both are p as well.                            *)
(***************************************************************************)
EXTENDS Integers, FiniteSets

CONSTANTS
    Rows,               \* rows that writers may insert
    Maintainers,        \* processes that run runMaintenance
    Ahead,              \* PartitionAhead
    Window,             \* the hot window of the table
    MaxTime,            \* a bound on time
    ArchiveConfigured,  \* whether object storage is configured
    None

ASSUME PartitionsAssumption ==
    /\ Ahead \in Nat \ {0} /\ Window \in Nat /\ MaxTime \in Nat
    /\ ArchiveConfigured \in BOOLEAN
    /\ None \notin 0 .. MaxTime + Ahead

VARIABLES
    now,
    attached,           \* the partitions of the table
    detached,           \* standalone tables that were partitions
    content,            \* content[p]: the rows in the table named p
    archive,            \* archive[p]: the rows of the object named p, {} without one
    written,            \* written[r]: the period in which r was inserted, or None
    ensured,            \* the horizon of the last successful EnsurePartitions
    supply,             \* history: broken once a period began without a partition
    pc,                 \* pc[m]: idle, listing, detaching, archiving or dropping
    todo,               \* todo[m]: the expired partitions m has still to retire
    part                \* part[m]: the partition m is retiring

vars == <<now, attached, detached, content, archive, written, ensured, supply, pc, todo, part>>

table == <<attached, detached, content, archive, ensured, supply>>

\* Partitions never reach beyond the last horizon.
Periods == 0 .. MaxTime + Ahead

TypeOK ==
    /\ now \in 0 .. MaxTime
    /\ attached \subseteq Periods
    /\ detached \subseteq Periods
    /\ content \in [Periods -> SUBSET Rows]
    /\ archive \in [Periods -> SUBSET Rows]
    /\ written \in [Rows -> Periods \cup {None}]
    /\ ensured \in Periods
    /\ supply \in {"unbroken", "broken"}
    /\ pc \in [Maintainers -> {"idle", "listing", "detaching", "archiving", "dropping"}]
    /\ todo \in [Maintainers -> SUBSET Periods]
    /\ part \in [Maintainers -> Periods]

\* The migration lays down the first partitions.
Init ==
    /\ now = 0
    /\ attached = 0 .. Ahead - 1
    /\ detached = {}
    /\ content = [p \in Periods |-> {}]
    /\ archive = [p \in Periods |-> {}]
    /\ written = [r \in Rows |-> None]
    /\ ensured = Ahead
    /\ supply = "unbroken"
    /\ pc = [m \in Maintainers |-> "idle"]
    /\ todo = [m \in Maintainers |-> {}]
    /\ part = [m \in Maintainers |-> 0]

-----------------------------------------------------------------------------
(* Time and writers.                                                       *)

\* Nothing makes time wait for maintenance: the table may run out.
Tick ==
    /\ now < MaxTime
    /\ now' = now + 1
    /\ supply' = IF now + 1 \in attached THEN supply ELSE "broken"
    /\ UNCHANGED <<attached, detached, content, archive, written, ensured, pc, todo, part>>

\* An insert goes to the partition of its time; with none attached it fails.
Insert(r) ==
    /\ written[r] = None
    /\ now \in attached
    /\ content' = [content EXCEPT ![now] = @ \cup {r}]
    /\ written' = [written EXCEPT ![r] = now]
    /\ UNCHANGED <<now, supply, attached, detached, archive, ensured, pc, todo, part>>

-----------------------------------------------------------------------------
(* runMaintenance: EnsurePartitions, then RetireExpired.                   *)

\* A mutant that starts an empty table with the next period.
UpperBoundNextPeriod(b) ==
    \/ attached = {} /\ b = now + 1
    \/ b - 1 \in attached /\ \A p \in attached : p < b

\* upperBound: the greatest upper bound, or the current period.
upperBound(b) ==
    \/ attached = {} /\ b = now
    \/ b - 1 \in attached /\ \A p \in attached : p < b

\* CREATE TABLE IF NOT EXISTS skips a name that a detached table still has.
\* The transaction holds the maintenance lock and commits as a whole.
EnsurePartitions(m) ==
    /\ pc[m] = "idle"
    /\ \E b \in Periods :
           /\ upperBound(b)
           /\ attached' = attached \cup ((b .. now + Ahead - 1) \ detached)
    /\ ensured' = now + Ahead
    /\ pc' = [pc EXCEPT ![m] = "listing"]
    /\ UNCHANGED <<now, supply, detached, content, archive, written, todo, part>>

\* Its error is logged, and maintenance goes on.
EnsureFails(m) ==
    /\ pc[m] = "idle"
    /\ pc' = [pc EXCEPT ![m] = "listing"]
    /\ UNCHANGED <<now, written, todo, part>> /\ UNCHANGED table

\* A mutant that compares the lower bound with the cutoff.
ExpiredByLowerBound(p) == p <= now - Window

expired(p) == p + 1 <= now - Window

\* archiver == nil compares an interface that holds a nil *archive.Archive, so
\* the early returns for an unconfigured archive are never taken.
List(m) ==
    /\ pc[m] = "listing"
    /\ todo' = [todo EXCEPT ![m] = {p \in attached : expired(p)}]
    /\ pc' = [pc EXCEPT ![m] = IF todo'[m] = {} THEN "idle" ELSE "detaching"]
    /\ UNCHANGED <<now, written, part>> /\ UNCHANGED table

\* The query has no ORDER BY: partitions come in any order.
Detach(m) ==
    /\ pc[m] = "detaching"
    /\ \E p \in todo[m] \cap attached :
           /\ attached' = attached \ {p}
           /\ detached' = detached \cup {p}
           /\ part' = [part EXCEPT ![m] = p]
    /\ pc' = [pc EXCEPT ![m] = "archiving"]
    /\ UNCHANGED <<now, supply, content, archive, written, ensured, todo>>

\* The end of a pass over the list: an error that returns, or a dead process.
\* A statement that landed before the end is the step before this one.
Quit(m) ==
    /\ pc[m] # "idle"
    /\ pc' = [pc EXCEPT ![m] = "idle"]
    /\ todo' = [todo EXCEPT ![m] = {}]
    /\ UNCHANGED <<now, written, part>> /\ UNCHANGED table

\* scanIntents, scanConflicts and scanAudit select every row of the table. The
\* Parquet encoding is left out: rows are told apart, their columns are not.
exportRows(p) == content[p]

\* Export and upload. Nothing writes to a detached table in between.
Archive(m) ==
    /\ pc[m] = "archiving" /\ ArchiveConfigured
    /\ archive' = [archive EXCEPT ![part[m]] = exportRows(part[m])]
    /\ pc' = [pc EXCEPT ![m] = "dropping"]
    /\ UNCHANGED <<now, supply, attached, detached, content, written, ensured, todo, part>>

\* On with the list.
Continue(m) ==
    /\ todo' = [todo EXCEPT ![m] = @ \ {part[m]}]
    /\ pc' = [pc EXCEPT ![m] = IF todo'[m] = {} THEN "idle" ELSE "detaching"]

\* The upload may have landed all the same. The table stays, detached.
ArchiveFails(m) ==
    /\ pc[m] = "archiving" /\ ArchiveConfigured
    /\ archive' \in {archive, [archive EXCEPT ![part[m]] = exportRows(part[m])]}
    /\ Continue(m)
    /\ UNCHANGED <<now, supply, attached, detached, content, written, ensured, part>>

\* A mutant that drops the table after a failed export as well.
DropUnarchived(m) ==
    /\ pc[m] \in {"archiving", "dropping"}
    /\ detached' = detached \ {part[m]}
    /\ content' = [content EXCEPT ![part[m]] = {}]
    /\ Continue(m)
    /\ UNCHANGED <<now, supply, attached, archive, written, ensured, part>>

Drop(m) ==
    /\ pc[m] = "dropping"
    /\ detached' = detached \ {part[m]}
    /\ content' = [content EXCEPT ![part[m]] = {}]
    /\ Continue(m)
    /\ UNCHANGED <<now, supply, attached, archive, written, ensured, part>>

-----------------------------------------------------------------------------
Next ==
    \/ Tick
    \/ \E r \in Rows : Insert(r)
    \/ \E m \in Maintainers :
           \/ EnsurePartitions(m) \/ EnsureFails(m) \/ List(m) \/ Detach(m)
           \/ Archive(m) \/ ArchiveFails(m) \/ Drop(m) \/ Quit(m)

Spec == Init /\ [][Next]_vars

-----------------------------------------------------------------------------
\* As long as the table has never run out, no row is lost on its way from the
\* table to the archive, whichever statement fails or maintainer dies in
\* between: it is in a table, attached or not, or in its partition's object.
RowsKept ==
    supply = "unbroken" =>
        \A r \in Rows : written[r] # None =>
            \/ r \in content[written[r]] /\ written[r] \in attached \cup detached
            \/ r \in archive[written[r]]

\* RetireExpired never takes rows inside the hot window from the table that
\* queries read.
HotRowsAttached ==
    \A r \in Rows : written[r] # None /\ written[r] >= now - Window => written[r] \in attached

\* From now to the horizon of the last successful maintenance every insert
\* finds its partition, whatever was retired since.
HorizonCovered == now .. ensured - 1 \subseteq attached

\* docs/DEPLOYMENT_CHECKLIST.md: without an archive "partitions past retention
\* are left attached".
LeftAttached == ~ArchiveConfigured => detached = {}
=============================================================================
