------------------------------- MODULE Sweep --------------------------------
(***************************************************************************)
(* The order in which the reconciler takes stale keys (selectStale, Sweep):*)
(* by claimed_at, one batch a sweep.  Claims are numbered in the order of  *)
(* their claimed_at, so a key that is claimed again is a new number.  A    *)
(* key whose probe fails stays pending and keeps its place.                *)
(***************************************************************************)
EXTENDS Naturals, FiniteSets

VARIABLES
    queue,      \* the claims that are pending and stale
    newest,     \* the last claim that went stale
    backlog,    \* how it began: keys stale at first, the batch, those whose probes fail
    sweeps      \* sweeps since

sweepVars == <<queue, newest, backlog, sweeps>>

NoBacklog == [keys |-> 0, batch |-> 1, broken |-> {}]

SweepInit == queue = {} /\ newest = 0 /\ backlog = NoBacklog /\ sweeps = 0

\* The reconciler starts, or comes back, and finds stale keys.
BacklogFound(keys, batch, broken) ==
    /\ SweepInit
    /\ backlog' = [keys |-> keys, batch |-> batch, broken |-> broken]
    /\ queue' = 1 .. keys /\ newest' = keys
    /\ UNCHANGED sweeps

\* ORDER BY claimed_at DESC.
staleKeysYoungest(stale, batch) == {k \in stale : Cardinality({j \in stale : j > k}) < batch}

staleKeys(stale, batch) == {k \in stale : Cardinality({j \in stale : j < k}) < batch}

\* What a sweep scans is settled, but for the keys whose probes fail.
SweepOnce ==
    /\ queue' = queue \ (staleKeys(queue, backlog.batch) \ backlog.broken)
    /\ sweeps' = sweeps + 1
    /\ UNCHANGED <<newest, backlog>>

\* One more claim reaches the age of stale_after.
GoStale ==
    /\ queue' = queue \cup {newest + 1} /\ newest' = newest + 1
    /\ UNCHANGED <<backlog, sweeps>>

\* A late outcome write, or a sweep cut short, settles one key.
SettleOne(k) ==
    /\ k \in queue
    /\ queue' = queue \ {k}
    /\ UNCHANGED <<newest, backlog, sweeps>>
=============================================================================
