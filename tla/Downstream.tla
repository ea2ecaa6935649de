----------------------------- MODULE Downstream -----------------------------
(***************************************************************************)
(* The business API behind the write path, as the repository's stand-in    *)
(* for it (cmd/fakedownstream) and its callers use it.  A request makes at *)
(* most one call, so calls carry the request's name.  A call that was sent *)
(* may be executed, or end without an execution, at any time after the     *)
(* send: the caller's timeout or crash does not recall it.                 *)
(***************************************************************************)
EXTENDS KeyStore

VARIABLE call   \* "idle" | "sent" | "executed" | "declined"

DownstreamTypeOK ==
    call \in [Requests -> {"idle", "sent", "executed", "declined"}]

DownstreamInit == call = [r \in Requests |-> "idle"]

-----------------------------------------------------------------------------
\* The execution ledger: the calls recorded under the correlation id of key k.
byCorrelation(k) == {r \in Requests : KeyOf[r] = k /\ call[r] = "executed"}

\* handleExecute records the execution before it answers.
ExecuteCall(r) ==
    /\ call[r] = "sent"
    /\ call' = [call EXCEPT ![r] = "executed"]

\* handleExecute refuses, or cannot decode or record; or the request is lost
\* on the way, and then no response arrives.
DeclineCall(r) ==
    /\ call[r] = "sent"
    /\ call' = [call EXCEPT ![r] = "declined"]

DownstreamStep(r) == ExecuteCall(r) \/ DeclineCall(r)
=============================================================================
