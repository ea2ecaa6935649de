----------------------------- MODULE Reconciler -----------------------------
(***************************************************************************)
(* internal/reconcile: sweeps that settle keys left pending past           *)
(* reconcile.stale_after by asking the downstream, never by re-sending.    *)
(* A sweep reads its batch once and works through it; neither the probe    *)
(* nor the outcome write looks again at how old the claim is.              *)
(***************************************************************************)
EXTENDS Downstream, FiniteSets

CONSTANTS
    Reconcilers,   \* reconciler processes
    Batch          \* LIMIT of the stale-key query

ASSUME ReconcilerAssumption == Batch \in Nat \ {0}

VARIABLES
    todo,    \* candidates of the running sweep not yet resolved
    probed,  \* the candidate whose probe has answered, or None
    found    \* that probe's answer

reconcilerVars == <<todo, probed, found>>

ReconcilerTypeOK ==
    /\ todo \in [Reconcilers -> SUBSET Keys]
    /\ probed \in [Reconcilers -> Keys \cup {None}]
    /\ found \in [Reconcilers -> {"unknown", "executed", "not_executed"}]

ReconcilerInit ==
    /\ todo = [c \in Reconcilers |-> {}]
    /\ probed = [c \in Reconcilers |-> None]
    /\ found = [c \in Reconcilers |-> "unknown"]

-----------------------------------------------------------------------------
\* A sweep that does not look at the age of a claim.
AnyPending == {k \in Keys : status[k] = "pending"}

StaleKeys == {k \in Keys : status[k] = "pending" /\ k \in stale}

\* staleKeys.  The oldest Batch keys; the model lets any Batch of them be the
\* oldest, and the sweep take them in any order.
Select(c) ==
    /\ todo[c] = {} /\ probed[c] = None
    /\ \E S \in SUBSET StaleKeys :
          /\ S # {} /\ Cardinality(S) <= Batch
          /\ S = StaleKeys \/ Cardinality(S) = Batch
          /\ todo' = [todo EXCEPT ![c] = S]
    /\ UNCHANGED <<dbVars, call, probed, found>>

Dropped(c, k) == todo' = [todo EXCEPT ![c] = @ \ {k}]

\* The reconciler's current manifest no longer declares the type: escalate.
Escalate(c) ==
    /\ probed[c] = None
    /\ \E k \in todo[c] : Complete(k, "indeterminate", "none") /\ Dropped(c, k)
    /\ UNCHANGED <<call, probed, found>>

Probe(c) ==
    /\ probed[c] = None
    /\ \E k \in todo[c] :
          /\ probed' = [probed EXCEPT ![c] = k]
          /\ found' = [found EXCEPT ![c] =
                          IF byCorrelation(k) = {} THEN "not_executed" ELSE "executed"]
          /\ Dropped(c, k)
    /\ UNCHANGED <<dbVars, call>>

\* The probe is unreachable, answers other than 200 or cannot be decoded, or
\* an escalation cannot be written: the key is left for a later sweep.
ProbeFails(c) ==
    /\ probed[c] = None
    /\ \E k \in todo[c] : Dropped(c, k)
    /\ UNCHANGED <<dbVars, call, probed, found>>

Settled(c) ==
    /\ probed' = [probed EXCEPT ![c] = None]
    /\ found' = [found EXCEPT ![c] = "unknown"]

\* A key the downstream never saw is left as it is.
ResolvedStatusWaits(o) == IF o = "executed" THEN "done" ELSE "pending"

\* A probe that has answered settles the key, whatever it answered.
ResolvedStatusDone(o) == "done"

ResolvedStatus(o) == IF o = "executed" THEN "done" ELSE "failed"

ResolvedBody(o) == IF o = "executed" THEN "probe" ELSE "none"

Resolve(c) ==
    /\ probed[c] # None
    /\ Complete(probed[c], ResolvedStatus(found[c]), ResolvedBody(found[c]))
    /\ Settled(c)
    /\ UNCHANGED <<call, todo>>

\* Complete returns an error: the key is left for the next sweep.
ResolveFails(c) ==
    /\ probed[c] # None
    /\ Settled(c)
    /\ UNCHANGED <<dbVars, call, todo>>

\* The reconciler stops; a new one starts with no memory of the sweep.
Restart(c) ==
    /\ todo[c] # {} \/ probed[c] # None
    /\ todo' = [todo EXCEPT ![c] = {}]
    /\ Settled(c)
    /\ UNCHANGED <<dbVars, call>>

ReconcilerStep(c) ==
    Select(c) \/ Escalate(c) \/ Probe(c) \/ ProbeFails(c) \/ Resolve(c) \/ ResolveFails(c)
=============================================================================
