---------------------------- MODULE WriteHandler ----------------------------
(***************************************************************************)
(* handleWrite and the claim transaction it runs, from the decoded request *)
(* to the response.  Many handlers, on any number of replicas, interleave; *)
(* they meet only in the database and at the downstream.                   *)
(*                                                                         *)
(* The claim transaction is four steps, each a database round trip whose   *)
(* effect another transaction can tell: Begin (now() is fixed here), the   *)
(* advisory lock, the statements up to the window query, and the status    *)
(* query with the commit.  Nothing of it is visible before the commit.     *)
(***************************************************************************)
EXTENDS Downstream, Conflict

CONSTANTS
    Agents,
    Resources,
    AgentOf,              \* [Keys -> Agents]
    ResourceOf,           \* [Bodies -> Resources]
    Declared,             \* [Bodies -> Operations], the manifest's declaration
    Enforced,             \* requests admitted under a manifest with enforce: true
    OutcomeWriteAttempts, \* IDEMIO_OUTCOME_WRITE_ATTEMPTS
    LostAcks              \* may an outcome commit and its acknowledgement be lost?

ASSUME HandlerAssumption ==
    /\ AgentOf \in [Keys -> Agents]
    /\ ResourceOf \in [Bodies -> Resources]
    /\ Declared \in [Bodies -> Operations]
    /\ Enforced \subseteq Requests
    /\ OutcomeWriteAttempts \in Nat \ {0}
    /\ LostAcks \in BOOLEAN

VARIABLES
    pc,         \* where each handler is
    lock,       \* pg_advisory_xact_lock holder of each resource
    behind,     \* intents already out of the window at the transaction's now()
    window,     \* conflicting intents the window query returned
    blocking,   \* the pending key a same-agent conflict waits for
    outcome,    \* what the downstream call came to: a status and a body
    tries,      \* outcome write attempts left
    answer      \* the response, by its meaning

txVars == <<lock, behind, window, blocking>>
handlerVars == <<pc, lock, behind, window, blocking, outcome, tries, answer>>

InTransaction == {"locking", "locked", "resolving"}
Active == {"calling", "persisting"}
PCs == {"received", "waiting", "polling", "answered", "crashed"}
          \cup InTransaction \cup Active
Outcomes == [status : {"none", "done", "failed", "indeterminate"}, body : Results]
NoOutcome == [status |-> "none", body |-> "none"]
Answers == {"none", "refused", "mismatch", "error", "not_executed", "accepted", "created",
            "replayed", "conflict", "unreachable", "indeterminate"}

HandlerTypeOK ==
    /\ pc \in [Requests -> PCs]
    /\ lock \in [Resources -> Requests \cup {None}]
    /\ behind \in [Requests -> SUBSET Requests]
    /\ window \in [Requests -> SUBSET Requests]
    /\ blocking \in [Requests -> Keys \cup {None}]
    /\ outcome \in [Requests -> Outcomes]
    /\ tries \in [Requests -> 0..OutcomeWriteAttempts]
    /\ answer \in [Requests -> Answers]
    /\ \A r \in Requests : pc[r] = "persisting" => outcome[r].status # "none"

HandlerInit ==
    /\ pc = [r \in Requests |-> "received"]
    /\ lock = [x \in Resources |-> None]
    /\ behind = [r \in Requests |-> {}]
    /\ window = [r \in Requests |-> {}]
    /\ blocking = [r \in Requests |-> None]
    /\ outcome = [r \in Requests |-> NoOutcome]
    /\ tries = [r \in Requests |-> 0]
    /\ answer = [r \in Requests |-> "none"]

Resource(r) == ResourceOf[BodyOf[r]]
Agent(r) == AgentOf[KeyOf[r]]

Goto(r, label) == pc' = [pc EXCEPT ![r] = label]

Answer(r, a) == Goto(r, "answered") /\ answer' = [answer EXCEPT ![r] = a]

\* A transaction that ends frees its lock; what it read is gone.
EndTransaction(r) ==
    /\ lock' = [x \in Resources |-> IF lock[x] = r THEN None ELSE lock[x]]
    /\ window' = [window EXCEPT ![r] = {}]

Commit(r) == EndTransaction(r) /\ behind' = [behind EXCEPT ![r] = {}]

\* The intent is gone, and with it its emitted_at: a new try has a new now().
Rollback(r) ==
    /\ EndTransaction(r)
    /\ behind' = [s \in Requests |-> IF s = r THEN {} ELSE behind[s] \ {r}]
    /\ aged' = aged \ {r}
    /\ UNCHANGED <<rowVars, intents, conflicts>>

-----------------------------------------------------------------------------
(* Admission: handleWrite up to the claim.                                 *)

\* A 4xx before the claim: identity, role, key, body, manifest or hash.
Refuse(r) ==
    /\ pc[r] = "received"
    /\ Answer(r, "refused")
    /\ UNCHANGED <<dbVars, call, txVars, outcome, tries>>

\* pool.Begin: now() is fixed here, before the lock is waited for.
BeginTransaction(r) ==
    /\ Goto(r, "locking")
    /\ behind' = [behind EXCEPT ![r] = aged]
    /\ UNCHANGED <<lock, window>>

Admit(r) ==
    /\ pc[r] = "received"
    /\ BeginTransaction(r)
    /\ UNCHANGED <<dbVars, call, blocking, outcome, tries, answer>>

-----------------------------------------------------------------------------
(* Claim.                                                                  *)

\* No mutual exclusion between claims of one resource.
LockIgnored(r) == TRUE

LockFree(r) == lock[Resource(r)] = None

lockResource(r) ==
    /\ pc[r] = "locking"
    /\ LockFree(r)
    /\ lock' = [lock EXCEPT ![Resource(r)] = r]
    /\ Goto(r, "locked")
    /\ UNCHANGED <<dbVars, call, behind, window, blocking, outcome, tries, answer>>

\* SQLSTATE 55P03: the holder kept the lock for the whole lock_timeout.
LockTimeout(r) ==
    /\ pc[r] = "locking"
    /\ ~ LockFree(r)
    /\ Rollback(r)
    /\ Answer(r, "not_executed")
    /\ UNCHANGED <<call, blocking, outcome, tries>>

\* The index is taken with the lock, before the insert.
RivalInsertEarly(r) ==
    /\ status[KeyOf[r]] = "absent"
    /\ \E s \in Requests \ {r} : KeyOf[s] = KeyOf[r] /\ pc[s] \in {"locked", "resolving"}

\* No unique constraint on (agent_id, idempotency_key).
RivalInsertUnseen(r) == FALSE

\* Somebody else's uncommitted insert of the same key holds the unique index.
RivalInsert(r) ==
    /\ status[KeyOf[r]] = "absent"
    /\ \E s \in Requests \ {r} : KeyOf[s] = KeyOf[r] /\ pc[s] = "resolving"

\* claimKey finds the key used with another body: 422.
ClaimMismatch(r) ==
    /\ pc[r] = "locked"
    /\ status[KeyOf[r]] # "absent"
    /\ hash[KeyOf[r]] # BodyOf[r]
    /\ Rollback(r)
    /\ Answer(r, "mismatch")
    /\ UNCHANGED <<call, blocking, outcome, tries>>

\* writeExisting.  A stored result that was offloaded may not be readable: 500.
AnswersFor(st) ==
    CASE st = "done" -> {"replayed", "error"}
      [] st = "pending" -> {"accepted"}
      [] st = "rejected" -> {"conflict"}
      [] st = "indeterminate" -> {"indeterminate"}
      [] OTHER -> {"unreachable"}

\* claimKey finds the key taken: answered from the row, or polled for.
ClaimExisting(r) ==
    LET st == status[KeyOf[r]] IN
    /\ pc[r] = "locked"
    /\ st \notin {"absent", "failed"}
    /\ hash[KeyOf[r]] = BodyOf[r]
    /\ Rollback(r)
    /\ IF st = "pending"
       THEN Goto(r, "polling") /\ UNCHANGED answer
       ELSE \E a \in AnswersFor(st) : Answer(r, a)
    /\ UNCHANGED <<call, blocking, outcome, tries>>

\* A window query that counts only writes still in flight.
conflictingIntentsInFlight(r) ==
    {i \in Requests \ {r} :
        /\ intents[i] = "live" /\ i \notin behind[r] /\ status[KeyOf[i]] = "pending"
        /\ Resource(i) = Resource(r)
        /\ ~ Compatible(Declared[BodyOf[r]], Declared[BodyOf[i]])}

\* The window query: live intents of the resource, in the window at this
\* transaction's now(), that the matrix does not let stand beside this one.
conflictingIntents(r) ==
    {i \in Requests \ {r} :
        /\ intents[i] = "live" /\ i \notin behind[r]
        /\ Resource(i) = Resource(r)
        /\ ~ Compatible(Declared[BodyOf[r]], Declared[BodyOf[i]])}

\* A claim that takes a key another request claimed with a different body.
MayTakeIgnoringHash(r) ==
    status[KeyOf[r]] \in {"absent", "failed"}

\* A claim that takes over an indeterminate key as well.
MayTakeIndeterminate(r) ==
    \/ status[KeyOf[r]] = "absent"
    \/ status[KeyOf[r]] \in {"failed", "indeterminate"} /\ hash[KeyOf[r]] = BodyOf[r]

\* insertClaim wins on a new key; reclaim wins on a failed one with this body.
MayTake(r) ==
    \/ status[KeyOf[r]] = "absent"
    \/ status[KeyOf[r]] = "failed" /\ hash[KeyOf[r]] = BodyOf[r]

\* claimKey takes the key, recordIntent writes the intent, the window is read.
ClaimFresh(r) ==
    /\ pc[r] = "locked"
    /\ MayTake(r)
    /\ ~ RivalInsert(r)
    /\ window' = [window EXCEPT ![r] = conflictingIntents(r)]
    /\ Goto(r, "resolving")
    /\ UNCHANGED <<dbVars, call, lock, behind, blocking, outcome, tries, answer>>

-----------------------------------------------------------------------------
(* resolveConflicts, then the commit or the rollback.                      *)

others(r) == {i \in window[r] : Agent(i) # Agent(r)}

\* firstPending: the keys of the agent's own conflicting intents still pending.
PendingBehind(r) == {KeyOf[i] : i \in {j \in window[r] : status[KeyOf[j]] = "pending"}}

recordConflicts(r, resolution) ==
    {[a |-> r, b |-> i, resolution |-> resolution] : i \in window[r]}

MustReject(r) == r \in Enforced /\ others(r) # {}

MustSerialize(r) == r \in Enforced /\ others(r) = {} /\ PendingBehind(r) # {}

\* The serialized write keeps its claim while it waits.
ResolveSerializeCommits(r) ==
    /\ pc[r] = "resolving"
    /\ MustSerialize(r)
    /\ \E k \in PendingBehind(r) : blocking' = [blocking EXCEPT ![r] = k]
    /\ CommitClaim(r, "pending", "none", "live", {})
    /\ Commit(r)
    /\ Goto(r, "waiting")
    /\ UNCHANGED <<call, outcome, tries, answer>>

\* The transaction rolls back unclaimed and the request waits for the key.
ResolveSerialize(r) ==
    /\ pc[r] = "resolving"
    /\ MustSerialize(r)
    /\ \E k \in PendingBehind(r) : blocking' = [blocking EXCEPT ![r] = k]
    /\ Rollback(r)
    /\ Goto(r, "waiting")
    /\ UNCHANGED <<call, outcome, tries, answer>>

\* A rejection that forgets to void its own intent.
ResolveRejectKeepsIntent(r) ==
    /\ pc[r] = "resolving"
    /\ MustReject(r)
    /\ CommitClaim(r, "rejected", "conflict", "live", recordConflicts(r, "rejected"))
    /\ Commit(r)
    /\ Answer(r, "conflict")
    /\ UNCHANGED <<call, blocking, outcome, tries>>

\* reject: conflict rows, a rejected key and a voided intent, in one commit.
\* When the commit's acknowledgement is lost the client gets 500 claim_failed.
ResolveReject(r) ==
    /\ pc[r] = "resolving"
    /\ MustReject(r)
    /\ CommitClaim(r, "rejected", "conflict", "voided", recordConflicts(r, "rejected"))
    /\ Commit(r)
    /\ \/ Answer(r, "conflict")
       \/ Answer(r, "error")
    /\ UNCHANGED <<call, blocking, outcome, tries>>

\* No conflict, an observed one, or one that has nothing left to wait for.
ResolveClaim(r) ==
    /\ pc[r] = "resolving"
    /\ ~ MustReject(r) /\ ~ MustSerialize(r)
    /\ CommitClaim(r, "pending", "none", "live",
                   recordConflicts(r, IF r \in Enforced THEN "serialized" ELSE "observed"))
    /\ Commit(r)
    /\ \/ Goto(r, "calling") /\ UNCHANGED answer
       \/ Answer(r, "error")
    /\ UNCHANGED <<call, blocking, outcome, tries>>

\* A statement fails or the client goes away: rollback, 500 claim_failed.
ClaimError(r) ==
    /\ pc[r] \in InTransaction
    /\ Rollback(r)
    /\ Answer(r, "error")
    /\ UNCHANGED <<call, blocking, outcome, tries>>

\* waitForTerminal sees the key terminal (or gone): the claim runs again.
WaitResolved(r) ==
    /\ pc[r] = "waiting"
    /\ status[blocking[r]] # "pending"
    /\ blocking' = [blocking EXCEPT ![r] = None]
    /\ BeginTransaction(r)
    /\ UNCHANGED <<dbVars, call, outcome, tries, answer>>

\* The wait's deadline passes, the client leaves, or a lookup fails.
WaitExpired(r) ==
    /\ pc[r] = "waiting"
    /\ blocking' = [blocking EXCEPT ![r] = None]
    /\ Answer(r, "not_executed")
    /\ UNCHANGED <<dbVars, call, lock, behind, window, outcome, tries>>

-----------------------------------------------------------------------------
(* awaitCompletion: polling for somebody else's outcome.                   *)

PollResolved(r) ==
    /\ pc[r] = "polling"
    /\ status[KeyOf[r]] # "pending"
    /\ \E a \in AnswersFor(status[KeyOf[r]]) : Answer(r, a)
    /\ UNCHANGED <<dbVars, call, txVars, outcome, tries>>

PollExpired(r) ==
    /\ pc[r] = "polling"
    /\ Answer(r, "accepted")
    /\ UNCHANGED <<dbVars, call, txVars, outcome, tries>>

-----------------------------------------------------------------------------
(* execute: the downstream call.                                           *)

Send(r) ==
    /\ pc[r] = "calling" /\ call[r] = "idle"
    /\ call' = [call EXCEPT ![r] = "sent"]
    /\ UNCHANGED <<dbVars, handlerVars>>

\* An outcome write loop that runs once too often.
CallReturnsOneMore(r, st, body) ==
    /\ outcome' = [outcome EXCEPT ![r] = [status |-> st, body |-> body]]
    /\ tries' = [tries EXCEPT ![r] = OutcomeWriteAttempts + 1]
    /\ Goto(r, "persisting")
    /\ UNCHANGED <<dbVars, call, txVars, answer>>

CallReturns(r, st, body) ==
    /\ outcome' = [outcome EXCEPT ![r] = [status |-> st, body |-> body]]
    /\ tries' = [tries EXCEPT ![r] = OutcomeWriteAttempts]
    /\ Goto(r, "persisting")
    /\ UNCHANGED <<dbVars, call, txVars, answer>>

\* notDialed: no connection, so nothing was sent.
DialFailed(r) ==
    /\ pc[r] = "calling" /\ call[r] = "idle"
    /\ CallReturns(r, "failed", "none")

\* classifyResponse.  The manifest puts a status an execution can produce in
\* the definitive ranges or in none; only a refusal may be in not_executed.
ClassifiedAs(r) ==
    IF call[r] = "declined" THEN {"done", "failed", "indeterminate"}
                            ELSE {"done", "indeterminate"}

ResponseArrives(r) ==
    /\ pc[r] = "calling" /\ call[r] \in {"executed", "declined"}
    /\ \E st \in ClassifiedAs(r) : CallReturns(r, st, "response")

\* A timeout taken for a call that never arrived.
LostResponseFailed(r) == "failed"

\* The call budget ends, or the connection breaks, with no complete response.
LostResponseOutcome(r) == "indeterminate"

CallFails(r) ==
    /\ pc[r] = "calling"
    /\ CallReturns(r, LostResponseOutcome(r), "none")

-----------------------------------------------------------------------------
(* persistOutcome and the response.                                        *)

AnswerOf(r) ==
    CASE outcome[r].status = "done" -> "created"
      [] outcome[r].status = "failed" -> "unreachable"
      [] OTHER -> "indeterminate"

CompleteOutcome(r) == Complete(KeyOf[r], outcome[r].status, outcome[r].body)

\* The handler returns: its locals are gone.
EndCall(r) ==
    /\ outcome' = [outcome EXCEPT ![r] = NoOutcome]
    /\ tries' = [tries EXCEPT ![r] = 0]

\* Complete returns without an error; whether it changed the row is not asked.
OutcomeWritten(r) ==
    /\ pc[r] = "persisting"
    /\ CompleteOutcome(r)
    /\ EndCall(r)
    /\ Answer(r, AnswerOf(r))
    /\ UNCHANGED <<call, txVars>>

\* An attempt fails.  The commit may have landed all the same when only its
\* acknowledgement was lost.  The last failure leaves the key to the reconciler.
OutcomeWriteFails(r) ==
    /\ pc[r] = "persisting"
    /\ \/ UNCHANGED dbVars
       \/ LostAcks /\ CompleteOutcome(r)
    /\ IF tries[r] > 1
       THEN tries' = [tries EXCEPT ![r] = @ - 1] /\ UNCHANGED <<pc, outcome, answer>>
       ELSE EndCall(r) /\ Answer(r, AnswerOf(r))
    /\ UNCHANGED <<call, txVars>>

-----------------------------------------------------------------------------
\* The process dies: an open transaction rolls back, nobody is answered.
Crash(r) ==
    /\ pc[r] \notin {"received", "answered", "crashed"}
    /\ IF pc[r] \in InTransaction THEN Rollback(r) ELSE UNCHANGED <<dbVars, lock, behind, window>>
    /\ EndCall(r)
    /\ blocking' = [blocking EXCEPT ![r] = None]
    /\ Goto(r, "crashed")
    /\ UNCHANGED <<call, answer>>

\* emitted_at of r's intent, the now() of its transaction, falls behind the
\* window.  A short window can end before a transaction that waits for a lock.
LeaveWindow(r) ==
    /\ pc[r] \in InTransaction \/ intents[r] = "live"
    /\ r \notin aged
    /\ aged' = aged \cup {r}
    /\ UNCHANGED <<rowVars, intents, conflicts>>

HandlerStep(r) ==
    \/ Refuse(r) \/ Admit(r)
    \/ lockResource(r) \/ LockTimeout(r)
    \/ ClaimMismatch(r) \/ ClaimExisting(r) \/ ClaimFresh(r)
    \/ ResolveSerialize(r) \/ ResolveReject(r) \/ ResolveClaim(r)
    \/ WaitResolved(r) \/ WaitExpired(r)
    \/ PollResolved(r) \/ PollExpired(r)
    \/ Send(r) \/ DialFailed(r) \/ ResponseArrives(r) \/ CallFails(r)
    \/ OutcomeWritten(r) \/ OutcomeWriteFails(r)
=============================================================================
