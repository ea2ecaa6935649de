------------------------------ MODULE KeyStore ------------------------------
(***************************************************************************)
(* The rows of the write path that Postgres holds: idempotency_keys,       *)
(* write_intents and conflicts, and the statements that end a claim.       *)
(*                                                                         *)
(* A request of Requests is one POST /v1/writes.  It commits at most one   *)
(* claim, so the intent that claim inserts carries the request's own name. *)
(* Canonical bodies stand for request_hash: two bodies are equal exactly   *)
(* when their hashes are.                                                  *)
(***************************************************************************)
EXTENDS Naturals

CONSTANTS
    Requests,   \* handler invocations
    Keys,       \* (agent_id, idempotency_key) pairs
    Bodies,     \* canonical request bodies
    KeyOf,      \* [Requests -> Keys], the Idempotency-Key header with the agent
    BodyOf,     \* [Requests -> Bodies]
    None        \* no key, no body, no lock holder

ASSUME StoreAssumption ==
    /\ KeyOf \in [Requests -> Keys]
    /\ BodyOf \in [Requests -> Bodies]
    /\ None \notin Requests \cup Keys \cup Bodies

VARIABLES
    status,     \* idempotency_keys.status; "absent" before the first claim
    hash,       \* idempotency_keys.request_hash
    attempt,    \* idempotency_keys.attempt_count
    result,     \* idempotency_keys.result, by where the body came from
    stale,      \* keys whose claimed_at is older than reconcile.stale_after
    intents,    \* write_intents, by the request that inserted it
    aged,       \* intents, committed or not, whose emitted_at has left the window
    conflicts   \* conflicts rows

rowVars == <<status, hash, attempt, result, stale>>
dbVars == <<status, hash, attempt, result, stale, intents, aged, conflicts>>

Statuses == {"absent", "pending", "done", "failed", "indeterminate", "rejected"}
Results == {"none", "response", "probe", "conflict"}
Resolutions == {"serialized", "rejected", "observed"}
Conflicts == [a : Requests, b : Requests, resolution : Resolutions]

StoreTypeOK ==
    /\ status \in [Keys -> Statuses]
    /\ hash \in [Keys -> Bodies \cup {None}]
    /\ attempt \in [Keys -> Nat]
    /\ result \in [Keys -> Results]
    /\ stale \in SUBSET Keys
    /\ intents \in [Requests -> {"none", "live", "voided"}]
    /\ aged \in SUBSET Requests
    /\ conflicts \in SUBSET Conflicts

StoreInit ==
    /\ status = [k \in Keys |-> "absent"]
    /\ hash = [k \in Keys |-> None]
    /\ attempt = [k \in Keys |-> 0]
    /\ result = [k \in Keys |-> "none"]
    /\ stale = {}
    /\ intents = [r \in Requests |-> "none"]
    /\ aged = {}
    /\ conflicts = {}

-----------------------------------------------------------------------------
\* The intents of key k that the conflict window still counts.
LiveIntents(k) == {i \in Requests : KeyOf[i] = k /\ intents[i] = "live"}

\* A failed write whose intent goes on counting.
VoidNothing(k) == UNCHANGED intents

\* voidLatestIntent.  ORDER BY emitted_at DESC LIMIT 1 chooses among the live
\* intents of the key; the model lets the choice be any of them.
VoidLatestIntent(k) ==
    IF LiveIntents(k) = {}
    THEN UNCHANGED intents
    ELSE \E i \in LiveIntents(k) : intents' = [intents EXCEPT ![i] = "voided"]

\* Complete: the status moves only from pending, and a failed write's intent
\* is voided in the same transaction.  Zero rows matched leaves all unchanged.
Complete(k, st, body) ==
    IF status[k] = "pending"
    THEN /\ status' = [status EXCEPT ![k] = st]
         /\ result' = [result EXCEPT ![k] = body]
         /\ IF st = "failed" THEN VoidLatestIntent(k) ELSE UNCHANGED intents
         /\ UNCHANGED <<hash, attempt, stale, aged, conflicts>>
    ELSE UNCHANGED dbVars

\* insertClaim or reclaim, committed with the row's final status st: the row
\* is pending unless the same transaction rejected it.
CommitClaim(r, st, body, intent, rows) ==
    LET k == KeyOf[r] IN
    /\ status' = [status EXCEPT ![k] = st]
    /\ hash' = [hash EXCEPT ![k] = BodyOf[r]]
    /\ attempt' = [attempt EXCEPT ![k] = @ + 1]
    /\ result' = [result EXCEPT ![k] = body]
    /\ stale' = stale \ {k}
    /\ intents' = [intents EXCEPT ![r] = intent]
    /\ conflicts' = conflicts \cup rows
    /\ UNCHANGED aged
=============================================================================
