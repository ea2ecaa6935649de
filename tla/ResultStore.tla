---------------------------- MODULE ResultStore -----------------------------
(***************************************************************************)
(* Where the result of a key is kept. A large result is put in object      *)
(* storage before the outcome is written, under a name made from the key   *)
(* alone (internal/resultstore); the expiry sweep deletes the row first    *)
(* and its object afterwards (internal/maintenance/retention.go).          *)
(*                                                                         *)
(* The claims of a key are numbered; a result is known by the number of    *)
(* the claim whose write it answers. The write path is reduced to what     *)
(* bears on results: who may write an outcome, when, and how often.        *)
(***************************************************************************)
EXTENDS Naturals

CONSTANTS
    Keys,
    MaxClaims,              \* a bound on the claims of a key
    Reconcilers,            \* processes that sweep stale keys
    OutcomeWriteAttempts,   \* cfg.OutcomeWriteAttempts
    LostAcks                \* whether an outcome may commit unacknowledged

Handler == "handler"

ASSUME ResultStoreAssumption ==
    /\ MaxClaims \in Nat /\ OutcomeWriteAttempts \in Nat \ {0} /\ LostAcks \in BOOLEAN
    /\ Handler \notin Reconcilers

VARIABLES
    status,         \* status[k]: absent, pending, failed, done or indeterminate
    claims,         \* claims[k]: how often k has been claimed
    stored,         \* stored[k]: where the row has its result: none, inline, ref
    recorded,       \* recorded[k]: the claim whose outcome the row has, or 0
    old,            \* the keys whose created_at is past retention
    objects,        \* objects[k]: the result in the object named after k, or 0
    writer,         \* writer[k][w]: where w is with the outcome of k
    refs,           \* the objects that sweeps have still to delete
    raced,          \* history: the keys whose row was inserted while a sweep had
                    \* the object of the last one to delete
    overtaken       \* history: the keys last claimed while a writer was at work

vars == <<status, claims, stored, recorded, old, objects, writer, refs, raced, overtaken>>

Claims == 1 .. MaxClaims

\* Who writes the outcome of a claim: its handler, or a reconciler.
Writers == Claims \X ({Handler} \cup Reconcilers)

\* A call, its result before and after it is placed, or an outcome without one.
Flying == {"calling", "small", "large", "inline", "ref", "failed", "indeterminate"}

WriterStates == Flying \cup {"none"}

TypeOK ==
    /\ status \in [Keys -> {"absent", "pending", "failed", "done", "indeterminate"}]
    /\ claims \in [Keys -> 0 .. MaxClaims]
    /\ stored \in [Keys -> {"none", "inline", "ref"}]
    /\ recorded \in [Keys -> 0 .. MaxClaims]
    /\ old \subseteq Keys
    /\ objects \in [Keys -> 0 .. MaxClaims]
    /\ writer \in [Keys -> [Writers -> WriterStates]]
    /\ refs \subseteq Keys /\ raced \subseteq Keys /\ overtaken \subseteq Keys

Init ==
    /\ status = [k \in Keys |-> "absent"]
    /\ claims = [k \in Keys |-> 0]
    /\ stored = [k \in Keys |-> "none"]
    /\ recorded = [k \in Keys |-> 0]
    /\ old = {}
    /\ objects = [k \in Keys |-> 0]
    /\ writer = [k \in Keys |-> [w \in Writers |-> "none"]]
    /\ refs = {} /\ raced = {} /\ overtaken = {}

InFlight(k) == \E w \in Writers : writer[k][w] \in Flying

-----------------------------------------------------------------------------
(* Claims.                                                                 *)

NewWriter(k) ==
    /\ claims[k] < MaxClaims
    /\ claims' = [claims EXCEPT ![k] = @ + 1]
    /\ writer' = [writer EXCEPT ![k][<<claims[k] + 1, Handler>>] = "calling"]
    /\ status' = [status EXCEPT ![k] = "pending"]
    /\ stored' = [stored EXCEPT ![k] = "none"]
    /\ recorded' = [recorded EXCEPT ![k] = 0]

Overtaking(k) == IF InFlight(k) THEN overtaken \cup {k} ELSE overtaken \ {k}

\* insertKey: created_at is now.  A sweep may still have the object of the
\* expired row to delete, and a writer of its last claim its outcome to write.
Claim(k) ==
    /\ status[k] = "absent"
    /\ NewWriter(k)
    /\ old' = old \ {k}
    /\ raced' = IF k \in refs THEN raced \cup {k} ELSE raced \ {k}
    /\ overtaken' = Overtaking(k)
    /\ UNCHANGED <<objects, refs>>

\* reclaimKey: the result goes, created_at stays. An object that was placed
\* for the row stays as well, and so may a writer of an earlier claim.
Reclaim(k) ==
    /\ status[k] = "failed"
    /\ NewWriter(k)
    /\ overtaken' = Overtaking(k)
    /\ UNCHANGED <<old, objects, refs, raced>>

-----------------------------------------------------------------------------
(* The writer of an outcome: execute and persistOutcome, or a reconciler.   *)

rowVars == <<status, stored, recorded>>
otherVars == <<claims, old, refs, raced, overtaken>>

Step(k, w, from, to) ==
    /\ writer[k][w] \in from
    /\ writer' = [writer EXCEPT ![k][w] = to]

\* The call, or the probe, ends: with a result of either size, or without one.
Call(k, w) ==
    /\ \E end \in {"small", "large", "failed", "indeterminate"} : Step(k, w, {"calling"}, end)
    /\ UNCHANGED <<rowVars, objects, otherVars>>

\* Place, for a result that is not over the cap (or without object storage).
PlaceInline(k, w) ==
    /\ Step(k, w, {"small"}, "inline")
    /\ UNCHANGED <<rowVars, objects, otherVars>>

\* Place, for a large result.
PlaceObject(k, w) ==
    /\ Step(k, w, {"large"}, "ref")
    /\ objects' = [objects EXCEPT ![k] = w[1]]
    /\ UNCHANGED <<rowVars, otherVars>>

\* The reference is kept after a failed upload.
KeepRef(k, w) ==
    /\ Step(k, w, {"large"}, "ref")
    /\ objects' \in {objects, [objects EXCEPT ![k] = w[1]]}
    /\ UNCHANGED <<rowVars, otherVars>>

\* Put fails, though the object may be there: the result is kept inline.
FallBack(k, w) ==
    /\ Step(k, w, {"large"}, "inline")
    /\ objects' \in {objects, [objects EXCEPT ![k] = w[1]]}
    /\ UNCHANGED <<rowVars, otherVars>>

\* Complete commits. completeKey asks for a pending row and no more, not whose
\* claim it is.
Commit(k, w) ==
    LET outcome == writer[k][w] IN
    IF status[k] # "pending" THEN UNCHANGED rowVars
    ELSE IF outcome \in {"inline", "ref"}
    THEN /\ status' = [status EXCEPT ![k] = "done"]
         /\ stored' = [stored EXCEPT ![k] = outcome]
         /\ recorded' = [recorded EXCEPT ![k] = w[1]]
    ELSE /\ status' = [status EXCEPT ![k] = outcome]
         /\ UNCHANGED <<stored, recorded>>

\* The outcome is written, and that was the last attempt or the commit is
\* acknowledged.
Complete(k, w) ==
    /\ Step(k, w, {"inline", "ref", "failed", "indeterminate"}, "none")
    /\ Commit(k, w)
    /\ UNCHANGED <<objects, otherVars>>

\* persistOutcome gets an error for a commit that landed and goes on to its
\* next attempt.  A reconciler makes one attempt a sweep.
CompleteUnacknowledged(k, w) ==
    /\ LostAcks /\ OutcomeWriteAttempts > 1 /\ w[2] = Handler
    /\ Step(k, w, {"inline", "ref", "failed", "indeterminate"}, writer[k][w])
    /\ Commit(k, w)
    /\ UNCHANGED <<objects, otherVars>>

\* The process dies, a probe fails, or every outcome write fails.
Die(k, w) ==
    /\ Step(k, w, Flying, "none")
    /\ UNCHANGED <<rowVars, objects, otherVars>>

\* The claim is older than stale_after: no handler is at work on the key.
Stale(k) == \A g \in Claims : writer[k][<<g, Handler>>] \notin Flying

\* A sweep of reconciler c takes a stale key, to write the probe's answer.
Reconcile(k, c) ==
    /\ status[k] = "pending" /\ Stale(k)
    /\ \A g \in Claims : writer[k][<<g, c>>] \notin Flying
    /\ writer' = [writer EXCEPT ![k][<<claims[k], c>>] = "calling"]
    /\ UNCHANGED <<rowVars, objects, otherVars>>

-----------------------------------------------------------------------------
(* Expiry.                                                                 *)

\* created_at passes the retention window, which no single call outlasts.
Age(k) ==
    /\ status[k] # "absent" /\ k \notin old /\ ~InFlight(k)
    /\ old' = old \cup {k}
    /\ UNCHANGED <<rowVars, claims, objects, writer, refs, raced, overtaken>>

\* expireKeys looks at created_at only, whatever the status. RETURNING gives
\* the references.
ExpireBatch ==
    /\ \E batch \in SUBSET {k \in old : status[k] # "absent"} :
           /\ batch # {}
           /\ status' = [k \in Keys |-> IF k \in batch THEN "absent" ELSE status[k]]
           /\ stored' = [k \in Keys |-> IF k \in batch THEN "none" ELSE stored[k]]
           /\ recorded' = [k \in Keys |-> IF k \in batch THEN 0 ELSE recorded[k]]
           /\ refs' = refs \cup {k \in batch : stored[k] = "ref"}
           /\ old' = old \ batch
    /\ UNCHANGED <<claims, objects, writer, raced, overtaken>>

\* One object after the other, up to a thousand of them.
DeleteObject(k) ==
    /\ k \in refs
    /\ objects' = [objects EXCEPT ![k] = 0]
    /\ refs' = refs \ {k}
    /\ UNCHANGED <<rowVars, claims, old, writer, raced, overtaken>>

\* A failed delete or the end of a process: the rest of its objects stays behind.
DeleteFails ==
    /\ \E left \in SUBSET refs : left # refs /\ refs' = left
    /\ UNCHANGED <<rowVars, claims, old, objects, writer, raced, overtaken>>

-----------------------------------------------------------------------------
Next ==
    \/ \E k \in Keys :
           \/ Claim(k) \/ Reclaim(k) \/ Age(k) \/ DeleteObject(k)
           \/ \E c \in Reconcilers : Reconcile(k, c)
           \/ \E w \in Writers :
                  \/ Call(k, w) \/ PlaceInline(k, w) \/ PlaceObject(k, w)
                  \/ FallBack(k, w) \/ Complete(k, w) \/ CompleteUnacknowledged(k, w)
                  \/ Die(k, w)
    \/ ExpireBatch \/ DeleteFails

Spec == Init /\ [][Next]_vars

-----------------------------------------------------------------------------
\* The object of k holds what claim g returned, or was lost to a race.
ObjectIsOf(k, g) == objects[k] = g \/ (k \in raced /\ objects[k] = 0)

\* A done row has the result of its own claim: inline, or in an object that
\* holds it.  Objects left behind by failed uploads, dead handlers and broken
\* sweeps never take its place, nor does the upload of a second reconciler.  A
\* row inserted before a sweep is through with the object of the expired one
\* may lose its object, but never has another claim's.  Excepted is a claim
\* that overtook a writer of an earlier one.
PromiseKept ==
    \A k \in Keys \ overtaken : status[k] = "done" =>
        recorded[k] = claims[k] /\ (stored[k] = "ref" => ObjectIsOf(k, claims[k]))

OneReconciler == \A c, d \in Reconcilers : c = d

\* No outcome write is repeated that may have landed.
NoBlindRetry == ~ LostAcks \/ OutcomeWriteAttempts = 1

\* A failed key has no writer left, so a re-claim overtakes none, unless the
\* failed claim had overtaken one itself.  It takes OneReconciler and
\* NoBlindRetry; then only the expiry of a row in use lets a claim overtake.
FailedHasNoWriter == \A k \in Keys \ overtaken : status[k] = "failed" => ~ InFlight(k)
=============================================================================
