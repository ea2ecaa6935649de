---------------------------- MODULE ClaimProofs -----------------------------
(***************************************************************************)
(* What holds of the write path however many reconcilers run and whatever  *)
(* acknowledgements are lost, for any requests, keys, bodies, agents,      *)
(* resources and declarations: the types; the exclusion of claims (lock,   *)
(* row and traces of a request up to the commit of its claim); the body a  *)
(* key executes; the truth of what a client was told; the intents that go  *)
(* with the rows; and the exclusion of conflicting writes.                 *)
(***************************************************************************)
EXTENDS WritePathInv, TLAPS

-----------------------------------------------------------------------------
\* The statements on the rows keep their types.
LEMMA CompleteType ==
    ASSUME StoreTypeOK, NEW k \in Keys, NEW st \in Statuses, NEW body \in Results,
           Complete(k, st, body)
    PROVE  StoreTypeOK'
<1>1. CASE status[k] # "pending"
    BY <1>1 DEF Complete, StoreTypeOK, dbVars
<1>2. CASE status[k] = "pending"
    <2>1. intents' \in [Requests -> {"none", "live", "voided"}]
        BY <1>2 DEF Complete, StoreTypeOK, VoidLatestIntent, LiveIntents
    <2>2. QED BY <1>2, <2>1 DEF Complete, StoreTypeOK
<1>3. QED BY <1>1, <1>2

\* The claim's commit keeps them too.
LEMMA CommitClaimType ==
    ASSUME StoreTypeOK, NEW r \in Requests, NEW st \in Statuses, NEW body \in Results,
           NEW intent \in {"live", "voided"}, NEW rows \in SUBSET Conflicts,
           CommitClaim(r, st, body, intent, rows)
    PROVE  StoreTypeOK'
<1>1. KeyOf[r] \in Keys /\ BodyOf[r] \in Bodies
    BY StoreAssumption
<1>2. QED BY <1>1 DEF CommitClaim, StoreTypeOK

\* Ends of a transaction keep the types of the handler's transaction state.
LEMMA EndType ==
    ASSUME TypeOK, NEW r \in Requests, Commit(r) \/ Rollback(r)
    PROVE  /\ lock' \in [Resources -> Requests \cup {None}]
           /\ behind' \in [Requests -> SUBSET Requests]
           /\ window' \in [Requests -> SUBSET Requests]
           /\ Rollback(r) => StoreTypeOK'
<1>1. EndTransaction(r)
    BY DEF Commit, Rollback
<1>2. lock' \in [Resources -> Requests \cup {None}]
    BY <1>1 DEF TypeOK, HandlerTypeOK, EndTransaction
<1>3. window' \in [Requests -> SUBSET Requests]
    BY <1>1 DEF TypeOK, HandlerTypeOK, EndTransaction
<1>4. behind' \in [Requests -> SUBSET Requests]
    BY DEF TypeOK, HandlerTypeOK, Commit, Rollback
<1>5. Rollback(r) => StoreTypeOK'
    BY DEF TypeOK, StoreTypeOK, Rollback, rowVars
<1>6. QED BY <1>2, <1>3, <1>4, <1>5

\* Every step of a handler keeps the types.
LEMMA HandlerStepType ==
    ASSUME TypeOK, NEW r \in Requests, HandlerStep(r) \/ ClaimError(r) \/ Crash(r)
    PROVE  StoreTypeOK' /\ DownstreamTypeOK' /\ HandlerTypeOK'
<1> USE DEF TypeOK, DownstreamTypeOK, HandlerTypeOK, PCs, InTransaction, Active, Answers,
            Goto, Answer
<1>1. CASE Refuse(r)
    BY <1>1 DEF Refuse, StoreTypeOK, dbVars, txVars
<1>2. CASE Admit(r)
    BY <1>2 DEF Admit, BeginTransaction, StoreTypeOK, dbVars
<1>3. CASE lockResource(r)
    BY <1>3 DEF lockResource, Resource, StoreTypeOK, dbVars
<1>4. CASE LockTimeout(r)
    BY <1>4, EndType DEF LockTimeout
<1>5. CASE ClaimMismatch(r)
    BY <1>5, EndType DEF ClaimMismatch
<1>6. CASE ClaimExisting(r)
    BY <1>6, EndType DEF ClaimExisting, AnswersFor
<1>7. CASE ClaimFresh(r)
    BY <1>7 DEF ClaimFresh, conflictingIntents, StoreTypeOK, dbVars
<1>8. CASE ResolveSerialize(r)
    <2>1. PendingBehind(r) \subseteq Keys
        BY StoreAssumption DEF PendingBehind
    <2>2. QED BY <1>8, <2>1, EndType DEF ResolveSerialize
<1>9. CASE ResolveReject(r)
    <2>1. recordConflicts(r, "rejected") \in SUBSET Conflicts
        BY DEF recordConflicts, Conflicts, Resolutions
    <2>2. StoreTypeOK'
        BY <1>9, <2>1, CommitClaimType DEF ResolveReject, Statuses, Results
    <2>3. /\ lock' \in [Resources -> Requests \cup {None}]
          /\ behind' \in [Requests -> SUBSET Requests]
          /\ window' \in [Requests -> SUBSET Requests]
        BY <1>9, EndType DEF ResolveReject
    <2>4. pc' = [pc EXCEPT ![r] = "answered"] /\ answer' \in [Requests -> Answers]
        BY <1>9 DEF ResolveReject
    <2>5. QED BY <1>9, <2>2, <2>3, <2>4 DEF ResolveReject
<1>10. CASE ResolveClaim(r)
    <2>1. recordConflicts(r, IF r \in Enforced THEN "serialized" ELSE "observed")
              \in SUBSET Conflicts
        BY DEF recordConflicts, Conflicts, Resolutions
    <2>2. StoreTypeOK'
        BY <1>10, <2>1, CommitClaimType DEF ResolveClaim, Statuses, Results
    <2>3. /\ lock' \in [Resources -> Requests \cup {None}]
          /\ behind' \in [Requests -> SUBSET Requests]
          /\ window' \in [Requests -> SUBSET Requests]
        BY <1>10, EndType DEF ResolveClaim
    <2>4. QED BY <1>10, <2>2, <2>3 DEF ResolveClaim
<1>11. CASE ClaimError(r)
    BY <1>11, EndType DEF ClaimError
<1>12. CASE WaitResolved(r)
    BY <1>12 DEF WaitResolved, BeginTransaction, StoreTypeOK, dbVars
<1>13. CASE WaitExpired(r)
    BY <1>13 DEF WaitExpired, StoreTypeOK, dbVars
<1>14. CASE PollResolved(r)
    BY <1>14 DEF PollResolved, AnswersFor, StoreTypeOK, dbVars, txVars
<1>15. CASE PollExpired(r)
    BY <1>15 DEF PollExpired, StoreTypeOK, dbVars, txVars
<1>16. CASE Send(r)
    BY <1>16 DEF Send, StoreTypeOK, dbVars, handlerVars
<1>17. ASSUME NEW st \in {"done", "failed", "indeterminate"}, NEW body \in Results,
              CallReturns(r, st, body)
       PROVE  StoreTypeOK' /\ DownstreamTypeOK' /\ HandlerTypeOK'
    BY <1>17, HandlerAssumption DEF CallReturns, Outcomes, StoreTypeOK, dbVars, txVars
<1>18. CASE DialFailed(r)
    BY <1>17, <1>18 DEF DialFailed, Results
<1>19. CASE ResponseArrives(r)
    BY <1>17, <1>19 DEF ResponseArrives, ClassifiedAs, Results
<1>20. CASE CallFails(r)
    BY <1>17, <1>20 DEF CallFails, LostResponseOutcome, Results
<1>21. outcome[r].status \in {"none", "done", "failed", "indeterminate"}
       /\ outcome[r].body \in Results
    BY DEF Outcomes
<1>22. EndCall(r) => /\ outcome' \in [Requests -> Outcomes]
                     /\ tries' \in [Requests -> 0..OutcomeWriteAttempts]
    BY HandlerAssumption DEF EndCall, NoOutcome, Outcomes, Results
<1>23. AnswerOf(r) \in Answers
    BY DEF AnswerOf
<1>24. CASE OutcomeWritten(r)
    <2>1. StoreTypeOK'
        <3>1. KeyOf[r] \in Keys
            BY StoreAssumption
        <3>2. QED BY <1>24, <1>21, <3>1, CompleteType DEF OutcomeWritten, CompleteOutcome, Statuses
    <2>2. /\ outcome' \in [Requests -> Outcomes]
          /\ tries' \in [Requests -> 0..OutcomeWriteAttempts]
        BY <1>24, <1>22, Zenon DEF OutcomeWritten
    <2>3. pc' = [pc EXCEPT ![r] = "answered"] /\ answer' \in [Requests -> Answers]
        BY <1>24, <1>23 DEF OutcomeWritten
    <2>4. DownstreamTypeOK'
        BY <1>24 DEF OutcomeWritten
    <2>5. QED BY <1>24, <2>1, <2>2, <2>3, <2>4 DEF OutcomeWritten, EndCall, txVars
<1>25. CASE OutcomeWriteFails(r)
    <2>1. StoreTypeOK'
        <3>1. KeyOf[r] \in Keys
            BY StoreAssumption
        <3>2. outcome[r].status \in Statuses
            BY <1>21, <1>25 DEF OutcomeWriteFails, Statuses
        <3>3. CompleteOutcome(r) => StoreTypeOK'
            BY <1>21, <3>1, <3>2, CompleteType DEF CompleteOutcome
        <3>4. UNCHANGED dbVars => StoreTypeOK'
            BY DEF StoreTypeOK, dbVars
        <3>5. QED BY <1>25, <3>3, <3>4 DEF OutcomeWriteFails
    <2>2. CASE tries[r] > 1
        BY <1>25, <2>1, <2>2, HandlerAssumption DEF OutcomeWriteFails, txVars
    <2>3. CASE ~ (tries[r] > 1)
        <3>1. EndCall(r) /\ Answer(r, AnswerOf(r))
            BY <1>25, <2>3 DEF OutcomeWriteFails
        <3>2. /\ outcome' \in [Requests -> Outcomes]
              /\ tries' \in [Requests -> 0..OutcomeWriteAttempts]
            BY <1>22, <3>1
        <3>3. pc' = [pc EXCEPT ![r] = "answered"] /\ answer' \in [Requests -> Answers]
            BY <1>23, <3>1
        <3>4. UNCHANGED <<call, txVars>>
            BY <1>25 DEF OutcomeWriteFails
        <3>5. QED BY <2>1, <3>1, <3>2, <3>3, <3>4 DEF EndCall, txVars
    <2>4. QED BY <2>2, <2>3
<1>26. CASE Crash(r)
    <2>1. StoreTypeOK' /\ lock' \in [Resources -> Requests \cup {None}]
          /\ behind' \in [Requests -> SUBSET Requests]
          /\ window' \in [Requests -> SUBSET Requests]
        BY <1>26, EndType DEF Crash, StoreTypeOK, dbVars
    <2>2. /\ outcome' \in [Requests -> Outcomes]
          /\ tries' \in [Requests -> 0..OutcomeWriteAttempts]
        BY <1>26, <1>22, Zenon DEF Crash
    <2>3. QED BY <1>26, <2>1, <2>2 DEF Crash, EndCall
<1>27. QED
    BY <1>1, <1>2, <1>3, <1>4, <1>5, <1>6, <1>7, <1>8, <1>9, <1>10, <1>11, <1>12, <1>13, <1>14,
       <1>15, <1>16, <1>18, <1>19, <1>20, <1>24, <1>25, <1>26, Zenon DEF HandlerStep

\* Every step of a reconciler keeps the types.
LEMMA ReconcilerStepType ==
    ASSUME TypeOK, NEW c \in Reconcilers, ReconcilerStep(c) \/ Restart(c)
    PROVE  StoreTypeOK' /\ DownstreamTypeOK' /\ ReconcilerTypeOK'
<1> USE DEF TypeOK, DownstreamTypeOK, ReconcilerTypeOK
<1>1. CASE Select(c)
    BY <1>1 DEF Select, StaleKeys, StoreTypeOK, dbVars
<1>2. CASE Escalate(c)
    <2>1. PICK k \in todo[c] : Complete(k, "indeterminate", "none") /\ Dropped(c, k)
        BY <1>2 DEF Escalate
    <2>2. StoreTypeOK'
        BY <2>1, CompleteType DEF Statuses, Results
    <2>3. QED BY <1>2, <2>1, <2>2 DEF Escalate, Dropped
<1>3. CASE Probe(c)
    BY <1>3 DEF Probe, Dropped, StoreTypeOK, dbVars
<1>4. CASE ProbeFails(c)
    BY <1>4 DEF ProbeFails, Dropped, StoreTypeOK, dbVars
<1>5. CASE Resolve(c)
    <2>1. StoreTypeOK'
        BY <1>5, CompleteType DEF Resolve, ResolvedStatus, ResolvedBody, Statuses, Results
    <2>2. QED BY <1>5, <2>1 DEF Resolve, Settled
<1>6. CASE ResolveFails(c)
    BY <1>6 DEF ResolveFails, Settled, StoreTypeOK, dbVars
<1>7. CASE Restart(c)
    BY <1>7 DEF Restart, Settled, StoreTypeOK, dbVars
<1>8. QED BY <1>1, <1>2, <1>3, <1>4, <1>5, <1>6, <1>7 DEF ReconcilerStep

\* Every step of the environment keeps the types.
LEMMA EnvironmentType == TypeOK /\ Environment => TypeOK'
<1> SUFFICES ASSUME TypeOK, Environment PROVE TypeOK'
    OBVIOUS
<1> USE DEF TypeOK
<1>1. CASE \E r \in Requests : DownstreamStep(r) /\ UNCHANGED <<dbVars, handlerVars, reconcilerVars>>
    BY <1>1 DEF DownstreamStep, ExecuteCall, DeclineCall, DownstreamTypeOK, StoreTypeOK,
                HandlerTypeOK, ReconcilerTypeOK, dbVars, handlerVars, reconcilerVars
<1>2. CASE \E i \in Requests : LeaveWindow(i) /\ UNCHANGED <<call, handlerVars, reconcilerVars>>
    BY <1>2 DEF LeaveWindow, DownstreamTypeOK, StoreTypeOK, HandlerTypeOK, ReconcilerTypeOK,
                rowVars, handlerVars, reconcilerVars
<1>3. CASE \E k \in Keys : BecomeStale(k) /\ UNCHANGED <<call, handlerVars, reconcilerVars>>
    BY <1>3 DEF BecomeStale, DownstreamTypeOK, StoreTypeOK, HandlerTypeOK, ReconcilerTypeOK,
                handlerVars, reconcilerVars
<1>4. QED BY <1>1, <1>2, <1>3 DEF Environment

\* Every step of the system keeps the types.
LEMMA TypeStep == TypeOK /\ [Next]_vars => TypeOK'
<1> SUFFICES ASSUME TypeOK, [Next]_vars PROVE TypeOK'
    OBVIOUS
<1>1. ASSUME NEW r \in Requests, HandlerStep(r) \/ ClaimError(r) \/ Crash(r),
             UNCHANGED reconcilerVars
      PROVE  TypeOK'
    <2>1. ReconcilerTypeOK'
        BY <1>1 DEF TypeOK, ReconcilerTypeOK, reconcilerVars
    <2>2. QED BY <1>1, <2>1, HandlerStepType DEF TypeOK
<1>2. ASSUME NEW c \in Reconcilers, ReconcilerStep(c) \/ Restart(c), UNCHANGED handlerVars
      PROVE  TypeOK'
    <2>1. HandlerTypeOK'
        BY <1>2 DEF TypeOK, HandlerTypeOK, handlerVars
    <2>2. QED BY <1>2, <2>1, ReconcilerStepType DEF TypeOK
<1>3. CASE UNCHANGED vars
    BY <1>3 DEF vars, TypeOK, StoreTypeOK, DownstreamTypeOK, HandlerTypeOK, ReconcilerTypeOK,
                dbVars, handlerVars, reconcilerVars
<1>4. QED BY <1>1, <1>2, <1>3, EnvironmentType DEF Next

\* The type invariant holds in every reachable state of the write path.
THEOREM TypeCorrect == Spec => []TypeOK
<1>1. Init => TypeOK
    <2>1. StoreInit => StoreTypeOK
        BY DEF StoreInit, StoreTypeOK, Statuses, Results, Conflicts
    <2>2. DownstreamInit => DownstreamTypeOK
        BY DEF DownstreamInit, DownstreamTypeOK
    <2>3. HandlerInit => HandlerTypeOK
        BY HandlerAssumption DEF HandlerInit, HandlerTypeOK, PCs, Outcomes, NoOutcome, Results, Answers
    <2>4. ReconcilerInit => ReconcilerTypeOK
        BY DEF ReconcilerInit, ReconcilerTypeOK
    <2>5. QED BY <2>1, <2>2, <2>3, <2>4 DEF Init, TypeOK
<1>2. QED BY <1>1, TypeStep, PTL DEF Spec

-----------------------------------------------------------------------------
\* What the proofs below need of the types: which variables are functions.
LEMMA Shapes ==
    ASSUME TypeOK
    PROVE  /\ pc = [r \in Requests |-> pc[r]] /\ outcome = [r \in Requests |-> outcome[r]]
           /\ call = [r \in Requests |-> call[r]] /\ intents = [r \in Requests |-> intents[r]]
           /\ status = [k \in Keys |-> status[k]] /\ hash = [k \in Keys |-> hash[k]]
           /\ lock = [x \in Resources |-> lock[x]]
BY DEF TypeOK, StoreTypeOK, DownstreamTypeOK, HandlerTypeOK

\* Steps outside a handler leave program counters and locks alone, write no
\* intent but to void one, and make no call.
LEMMA OutsideStep ==
    ASSUME TypeOK,
           \/ \E c \in Reconcilers : (ReconcilerStep(c) \/ Restart(c)) /\ UNCHANGED handlerVars
           \/ Environment
           \/ UNCHANGED vars
    PROVE  /\ UNCHANGED handlerVars
           /\ \A r \in Requests : intents[r] = "none" => intents'[r] = "none"
           /\ \A r \in Requests : call[r] = "idle" => call'[r] = "idle"
           /\ hash' = hash
           /\ \A k \in Keys : status[k] # "pending" => status'[k] = status[k]
<1> USE Shapes
<1>1. ASSUME NEW k \in Keys, NEW st, NEW body, Complete(k, st, body)
      PROVE  /\ \A r \in Requests : intents[r] = "none" => intents'[r] = "none"
             /\ hash' = hash
             /\ \A x \in Keys : status[x] # "pending" => status'[x] = status[x]
    BY <1>1 DEF Complete, VoidLatestIntent, LiveIntents, dbVars
<1>2. ASSUME NEW c \in Reconcilers, ReconcilerStep(c) \/ Restart(c)
      PROVE  /\ call' = call
             /\ \/ UNCHANGED dbVars
                \/ \E k \in Keys : \E st, body : Complete(k, st, body)
    BY <1>2 DEF ReconcilerStep, Select, Escalate, Probe, ProbeFails, Resolve, ResolveFails, Restart,
                TypeOK, ReconcilerTypeOK
<1>3. QED
    BY <1>1, <1>2 DEF Environment, DownstreamStep, ExecuteCall, DeclineCall, LeaveWindow,
                      BecomeStale, dbVars, rowVars, vars

\* Steps of a handler keep the advisory locks with those who are past lockResource.
LEMMA LockHeldStep == TypeOK /\ LockHeld /\ [Next]_vars => LockHeld'
<1> SUFFICES ASSUME TypeOK, LockHeld, [Next]_vars PROVE LockHeld'
    OBVIOUS
<1>1. ASSUME NEW r \in Requests, HandlerStep(r) \/ ClaimError(r) \/ Crash(r)
      PROVE  LockHeld'
    <2> USE Shapes DEF LockHeld, Resource, Goto, Answer
    <2>1. CASE lockResource(r)
        BY <2>1, StoreAssumption, HandlerAssumption DEF lockResource, LockFree
    <2>2. ASSUME EndTransaction(r), NEW l, l \notin {"locked", "resolving"}, Goto(r, l)
          PROVE  LockHeld'
        BY <2>2, StoreAssumption, HandlerAssumption DEF EndTransaction
    <2>3. ASSUME UNCHANGED lock, NEW l, l \notin {"locked", "resolving"}, Goto(r, l)
          PROVE  LockHeld'
        BY <2>3
    <2>4. CASE ClaimFresh(r)
        BY <2>4 DEF ClaimFresh
    <2>5. CASE Send(r)
        BY <2>5 DEF Send, handlerVars
    <2>6. CASE OutcomeWriteFails(r)
        BY <2>6 DEF OutcomeWriteFails, txVars
    <2>7. CASE LockTimeout(r) \/ ClaimMismatch(r) \/ ClaimError(r)
        BY <2>2, <2>7 DEF LockTimeout, ClaimMismatch, ClaimError, Rollback
    <2>8. CASE ClaimExisting(r) \/ ResolveSerialize(r)
        BY <2>2, <2>8 DEF ClaimExisting, ResolveSerialize, Rollback
    <2>9. CASE ResolveReject(r) \/ ResolveClaim(r)
        BY <2>2, <2>9 DEF ResolveReject, ResolveClaim, Commit
    <2>10. CASE Crash(r)
        BY <2>2, <2>3, <2>10 DEF Crash, Rollback
    <2>11. CASE Refuse(r) \/ Admit(r) \/ WaitResolved(r) \/ WaitExpired(r)
        BY <2>3, <2>11 DEF Refuse, Admit, WaitResolved, WaitExpired, BeginTransaction, txVars
    <2>12. CASE PollResolved(r) \/ PollExpired(r) \/ OutcomeWritten(r)
        BY <2>3, <2>12 DEF PollResolved, PollExpired, OutcomeWritten, txVars
    <2>13. CASE DialFailed(r) \/ ResponseArrives(r) \/ CallFails(r)
        BY <2>3, <2>13 DEF DialFailed, ResponseArrives, CallFails, CallReturns, txVars
    <2>14. QED
        BY <1>1, <2>1, <2>4, <2>5, <2>6, <2>7, <2>8, <2>9, <2>10, <2>11, <2>12, <2>13
           DEF HandlerStep
<1>2. CASE UNCHANGED handlerVars
    BY <1>2 DEF LockHeld, handlerVars
<1>3. QED BY <1>1, <1>2, OutsideStep DEF Next

\* A step of handler r moves no other handler and makes no call for it; it is
\* before its claim afterwards only if it was before, and then left no trace.
LEMMA HandlerEffect ==
    ASSUME TypeOK, NEW r \in Requests, HandlerStep(r) \/ ClaimError(r) \/ Crash(r)
    PROVE  /\ \A s \in Requests \ {r} :
                 /\ pc'[s] = pc[s] /\ call'[s] = call[s] /\ outcome'[s] = outcome[s]
                 /\ intents[s] = "none" => intents'[s] = "none"
           /\ pc'[r] \in Unclaimed =>
                 /\ pc[r] \in Unclaimed /\ call'[r] = call[r]
                 /\ intents[r] = "none" => intents'[r] = "none"
<1> USE Shapes DEF Unclaimed, InTransaction, Goto, Answer, dbVars
<1>1. CASE Refuse(r) \/ Admit(r) \/ WaitResolved(r) \/ WaitExpired(r)
    BY <1>1 DEF Refuse, Admit, WaitResolved, WaitExpired, BeginTransaction
<1>2. CASE lockResource(r) \/ ClaimFresh(r)
    BY <1>2 DEF lockResource, ClaimFresh
<1>3. CASE LockTimeout(r) \/ ClaimMismatch(r) \/ ClaimError(r)
    BY <1>3 DEF LockTimeout, ClaimMismatch, ClaimError, Rollback
<1>4. CASE ClaimExisting(r) \/ ResolveSerialize(r)
    BY <1>4 DEF ClaimExisting, ResolveSerialize, Rollback
<1>5. CASE ResolveReject(r) \/ ResolveClaim(r)
    BY <1>5 DEF ResolveReject, ResolveClaim, CommitClaim
<1>6. CASE PollResolved(r) \/ PollExpired(r) \/ Send(r)
    BY <1>6 DEF PollResolved, PollExpired, Send, handlerVars
<1>7. CASE DialFailed(r) \/ ResponseArrives(r) \/ CallFails(r)
    BY <1>7 DEF DialFailed, ResponseArrives, CallFails, CallReturns
<1>8. CompleteOutcome(r) => \A s \in Requests : intents[s] = "none" => intents'[s] = "none"
    BY DEF CompleteOutcome, Complete, VoidLatestIntent, LiveIntents
<1>9. CASE OutcomeWritten(r)
    BY <1>8, <1>9 DEF OutcomeWritten, EndCall
<1>10. CASE OutcomeWriteFails(r)
    BY <1>8, <1>10 DEF OutcomeWriteFails, EndCall
<1>11. CASE Crash(r)
    BY <1>11 DEF Crash, EndCall, Rollback
<1>12. QED
    BY <1>1, <1>2, <1>3, <1>4, <1>5, <1>6, <1>7, <1>9, <1>10, <1>11 DEF HandlerStep

\* A request leaves no intent and no call before its claim commits.
LEMMA NothingYetStep == TypeOK /\ NothingYet /\ [Next]_vars => NothingYet'
<1> SUFFICES ASSUME TypeOK, NothingYet, [Next]_vars PROVE NothingYet'
    OBVIOUS
<1>1. ASSUME NEW r \in Requests, HandlerStep(r) \/ ClaimError(r) \/ Crash(r)
      PROVE  NothingYet'
    BY <1>1, HandlerEffect DEF NothingYet
<1>2. CASE \/ \E c \in Reconcilers : (ReconcilerStep(c) \/ Restart(c)) /\ UNCHANGED handlerVars
           \/ Environment
           \/ UNCHANGED vars
    BY <1>2, OutsideStep DEF NothingYet, handlerVars
<1>3. QED BY <1>1, <1>2 DEF Next

\* The row a claim has found free stays free until the claim ends: the unique
\* index guards a new key, the advisory lock a failed one, since the requests
\* that may re-claim it share its body and so its resource.
LEMMA RowHeldStep == TypeOK /\ LockHeld /\ RowHeld /\ [Next]_vars => RowHeld'
<1> SUFFICES ASSUME TypeOK, LockHeld, RowHeld, [Next]_vars PROVE RowHeld'
    OBVIOUS
<1>1. ASSUME NEW r \in Requests, HandlerStep(r) \/ ClaimError(r) \/ Crash(r)
      PROVE  RowHeld'
    <2> USE Shapes
    <2>1. \A s \in Requests \ {r} : pc'[s] = pc[s]
        BY <1>1, HandlerEffect
    <2>2. CASE ClaimFresh(r)
        <3>1. /\ pc[r] = "locked" /\ MayTake(r) /\ ~ RivalInsert(r)
              /\ pc' = [pc EXCEPT ![r] = "resolving"]
              /\ status' = status /\ hash' = hash
            BY <2>2 DEF ClaimFresh, Goto, dbVars
        <3>2. ASSUME NEW s \in Requests \ {r}, pc[s] = "resolving", KeyOf[s] = KeyOf[r]
              PROVE  FALSE
            <4>1. status[KeyOf[r]] # "absent"
                BY <3>1, <3>2 DEF RivalInsert
            <4>2. BodyOf[s] = BodyOf[r]
                BY <3>1, <3>2, <4>1 DEF RowHeld, MayTake
            <4>3. QED BY <3>1, <3>2, <4>2 DEF LockHeld, Resource
        <3>3. QED BY <3>1, <3>2 DEF RowHeld, MayTake
    <2>3. CASE ResolveReject(r) \/ ResolveClaim(r)
        <3>1. /\ pc[r] = "resolving" /\ pc'[r] # "resolving"
              /\ \A k \in Keys \ {KeyOf[r]} : status'[k] = status[k] /\ hash'[k] = hash[k]
            BY <2>3 DEF ResolveReject, ResolveClaim, CommitClaim, Goto, Answer
        <3>2. QED BY <2>1, <3>1, StoreAssumption DEF RowHeld, MayTake
    <2>4. ASSUME pc'[r] # "resolving", hash' = hash,
                 \A k \in Keys : status[k] # "pending" => status'[k] = status[k]
          PROVE  RowHeld'
        BY <2>1, <2>4, StoreAssumption DEF RowHeld, MayTake
    <2>5. CASE OutcomeWritten(r) \/ OutcomeWriteFails(r)
        BY <2>4, <2>5 DEF OutcomeWritten, OutcomeWriteFails, CompleteOutcome, Complete, Goto,
                          Answer, dbVars
    <2>6. CASE ~ (\/ ClaimFresh(r) \/ ResolveReject(r) \/ ResolveClaim(r)
                  \/ OutcomeWritten(r) \/ OutcomeWriteFails(r))
        <3> USE DEF Goto, Answer, dbVars
        <3>1. CASE Refuse(r) \/ Admit(r) \/ WaitResolved(r) \/ WaitExpired(r) \/ lockResource(r)
            BY <2>4, <3>1 DEF Refuse, Admit, WaitResolved, WaitExpired, BeginTransaction,
                              lockResource
        <3>2. CASE LockTimeout(r) \/ ClaimMismatch(r) \/ ClaimError(r)
            BY <2>4, <3>2 DEF LockTimeout, ClaimMismatch, ClaimError, Rollback, rowVars
        <3>3. CASE ClaimExisting(r) \/ ResolveSerialize(r)
            BY <2>4, <3>3 DEF ClaimExisting, ResolveSerialize, Rollback, rowVars
        <3>4. CASE PollResolved(r) \/ PollExpired(r) \/ Send(r)
            BY <2>4, <3>4 DEF PollResolved, PollExpired, Send, handlerVars
        <3>5. CASE DialFailed(r) \/ ResponseArrives(r) \/ CallFails(r)
            BY <2>4, <3>5 DEF DialFailed, ResponseArrives, CallFails, CallReturns
        <3>6. CASE Crash(r)
            BY <2>4, <3>6 DEF Crash, Rollback, rowVars
        <3>7. QED BY <1>1, <2>6, <3>1, <3>2, <3>3, <3>4, <3>5, <3>6 DEF HandlerStep
    <2>7. QED BY <2>2, <2>3, <2>5, <2>6
<1>2. CASE \/ \E c \in Reconcilers : (ReconcilerStep(c) \/ Restart(c)) /\ UNCHANGED handlerVars
           \/ Environment
           \/ UNCHANGED vars
    <2>1. /\ pc' = pc /\ hash' = hash
          /\ \A k \in Keys : status[k] # "pending" => status'[k] = status[k]
        BY <1>2, OutsideStep DEF handlerVars
    <2>2. QED BY <2>1, StoreAssumption DEF RowHeld, MayTake
<1>3. QED BY <1>1, <1>2 DEF Next

\* The claim transaction is exclusive in every reachable state, however many
\* reconcilers run and whatever acknowledgements are lost.
THEOREM ClaimInvariant == Spec => [](TypeOK /\ ClaimInv)
<1>1. Init => ClaimInv
    BY DEF Init, StoreInit, DownstreamInit, HandlerInit, ClaimInv, LockHeld, NothingYet, RowHeld
<1>2. TypeOK /\ ClaimInv /\ [Next]_vars => ClaimInv'
    BY LockHeldStep, NothingYetStep, RowHeldStep DEF ClaimInv
<1>3. QED BY <1>1, <1>2, TypeCorrect, PTL DEF Spec

-----------------------------------------------------------------------------
\* A step of handler r commits a claim, writes an outcome, or leaves the rows
\* and the intents alone.
LEMMA HandlerRows ==
    ASSUME TypeOK, NEW r \in Requests, HandlerStep(r) \/ ClaimError(r) \/ Crash(r)
    PROVE  \/ ResolveReject(r) \/ ResolveClaim(r)
           \/ pc[r] = "persisting" /\ CompleteOutcome(r)
           \/ UNCHANGED <<status, hash, intents>>
<1> USE DEF dbVars, rowVars, Rollback
<1>1. CASE Refuse(r) \/ Admit(r) \/ WaitResolved(r) \/ WaitExpired(r) \/ lockResource(r)
    BY <1>1 DEF Refuse, Admit, WaitResolved, WaitExpired, lockResource
<1>2. CASE LockTimeout(r) \/ ClaimMismatch(r) \/ ClaimError(r)
    BY <1>2, Zenon DEF LockTimeout, ClaimMismatch, ClaimError
<1>3. CASE ClaimExisting(r) \/ ClaimFresh(r) \/ ResolveSerialize(r)
    BY <1>3, Zenon DEF ClaimExisting, ClaimFresh, ResolveSerialize
<1>4. CASE PollResolved(r) \/ PollExpired(r) \/ Send(r)
    BY <1>4, Zenon DEF PollResolved, PollExpired, Send
<1>5. CASE DialFailed(r) \/ ResponseArrives(r) \/ CallFails(r)
    BY <1>5, Zenon DEF DialFailed, ResponseArrives, CallFails, CallReturns
<1>6. CASE OutcomeWritten(r) \/ OutcomeWriteFails(r)
    BY <1>6 DEF OutcomeWritten, OutcomeWriteFails
<1>7. CASE Crash(r)
    BY <1>7 DEF Crash
<1>8. QED BY <1>1, <1>2, <1>3, <1>4, <1>5, <1>6, <1>7 DEF HandlerStep

\* A step of the system commits a claim, completes a pending row, or leaves the
\* rows and the intents alone.
LEMMA RowStep ==
    ASSUME TypeOK, [Next]_vars
    PROVE  \/ \E r \in Requests : ResolveReject(r) \/ ResolveClaim(r)
           \/ \E k \in Keys, st \in {"done", "failed", "indeterminate"} : \E body : Complete(k, st, body)
           \/ UNCHANGED <<status, hash, intents>>
<1>1. ASSUME NEW r \in Requests, pc[r] = "persisting", CompleteOutcome(r)
      PROVE  \E k \in Keys, st \in {"done", "failed", "indeterminate"} : \E body : Complete(k, st, body)
    <2>1. KeyOf[r] \in Keys
        BY StoreAssumption
    <2>2. outcome[r].status \in {"done", "failed", "indeterminate"}
        BY <1>1 DEF TypeOK, HandlerTypeOK, Outcomes
    <2>3. QED BY <1>1, <2>1, <2>2 DEF CompleteOutcome
<1>2. ASSUME NEW c \in Reconcilers, ReconcilerStep(c) \/ Restart(c)
      PROVE  \/ UNCHANGED <<status, hash, intents>>
             \/ \E k \in Keys, st \in {"done", "failed", "indeterminate"} :
                   \E body : Complete(k, st, body)
    <2>1. todo[c] \subseteq Keys /\ probed[c] \in Keys \cup {None}
        BY DEF TypeOK, ReconcilerTypeOK
    <2>2. QED BY <1>2, <2>1 DEF ReconcilerStep, Select, Escalate, Probe, ProbeFails, Resolve,
                                ResolveFails, Restart, ResolvedStatus, dbVars
<1>3. CASE Environment \/ UNCHANGED vars
    BY <1>3, Zenon DEF Environment, LeaveWindow, BecomeStale, dbVars, rowVars, vars
<1>4. QED BY <1>1, <1>2, <1>3, HandlerRows DEF Next

\* What the commit of a claim finds and writes.
LEMMA ClaimCommits ==
    ASSUME TypeOK, ClaimInv, NEW r \in Requests, ResolveReject(r) \/ ResolveClaim(r)
    PROVE  \E st \in {"pending", "rejected"} :
              /\ pc[r] = "resolving" /\ MayTake(r)
              /\ intents[r] = "none" /\ call[r] = "idle"
              /\ status' = [status EXCEPT ![KeyOf[r]] = st]
              /\ hash' = [hash EXCEPT ![KeyOf[r]] = BodyOf[r]]
              /\ intents' = [intents EXCEPT ![r] = IF st = "pending" THEN "live" ELSE "voided"]
              /\ UNCHANGED <<aged, call>>
              /\ EndTransaction(r) /\ behind' = [behind EXCEPT ![r] = {}]
              /\ pc' = [pc EXCEPT ![r] = pc'[r]] /\ pc'[r] \in {"calling", "answered"}
<1>1. pc[r] = "resolving"
    BY DEF ResolveReject, ResolveClaim
<1>2. MayTake(r) /\ intents[r] = "none" /\ call[r] = "idle"
    BY <1>1 DEF ClaimInv, RowHeld, NothingYet, Unclaimed, InTransaction
<1>3. CASE ResolveReject(r)
    BY <1>1, <1>2, <1>3, Shapes DEF ResolveReject, CommitClaim, Commit, Answer, Goto
<1>4. CASE ResolveClaim(r)
    BY <1>1, <1>2, <1>4, Shapes DEF ResolveClaim, CommitClaim, Commit, Answer, Goto
<1>5. QED BY <1>3, <1>4, Zenon

-----------------------------------------------------------------------------
\* The hash of a key in use is not changed by any step.
LEMMA BodyFixedStep == TypeOK /\ ClaimInv /\ BodyFixed /\ [Next]_vars => BodyFixed'
<1> SUFFICES ASSUME TypeOK, ClaimInv, BodyFixed, [Next]_vars PROVE BodyFixed'
    OBVIOUS
<1> USE Shapes
<1>1. ASSUME NEW r \in Requests, ResolveReject(r) \/ ResolveClaim(r)
      PROVE  BodyFixed'
    <2>1. PICK st \in {"pending", "rejected"} :
              /\ pc[r] = "resolving" /\ MayTake(r)
              /\ status' = [status EXCEPT ![KeyOf[r]] = st]
              /\ hash' = [hash EXCEPT ![KeyOf[r]] = BodyOf[r]]
              /\ call' = call /\ pc' = [pc EXCEPT ![r] = pc'[r]]
        BY <1>1, ClaimCommits
    <2>2. SUFFICES ASSUME NEW s \in Requests, pc'[s] \in Active \/ call'[s] # "idle"
                   PROVE  status'[KeyOf[s]] # "absent" /\ hash'[KeyOf[s]] = BodyOf[s]
        BY DEF BodyFixed
    <2>3. KeyOf[s] \in Keys /\ KeyOf[r] \in Keys
        BY StoreAssumption
    <2>4. CASE s = r
        BY <2>1, <2>3, <2>4
    <2>5. CASE s # r
        <3>1. status[KeyOf[s]] # "absent" /\ hash[KeyOf[s]] = BodyOf[s]
            BY <2>1, <2>2, <2>5 DEF BodyFixed
        <3>2. QED BY <2>1, <2>3, <3>1 DEF MayTake
    <2>6. QED BY <2>4, <2>5
<1>2. ASSUME \A s \in Requests : pc'[s] \in Active \/ call'[s] # "idle"
                                    => pc[s] \in Active \/ call[s] # "idle",
             hash' = hash, \A k \in Keys : status[k] # "absent" => status'[k] # "absent"
      PROVE  BodyFixed'
    BY <1>2, StoreAssumption DEF BodyFixed
<1>3. ASSUME ~ \E r \in Requests : ResolveReject(r) \/ ResolveClaim(r)
      PROVE  hash' = hash /\ \A k \in Keys : status[k] # "absent" => status'[k] # "absent"
    BY <1>3, RowStep DEF Complete, dbVars
<1>4. ASSUME NEW r \in Requests, HandlerStep(r) \/ ClaimError(r) \/ Crash(r),
             ~ (ResolveReject(r) \/ ResolveClaim(r))
      PROVE  \A s \in Requests : pc'[s] \in Active \/ call'[s] # "idle"
                                    => pc[s] \in Active \/ call[s] # "idle"
    <2>1. \A s \in Requests \ {r} : pc'[s] = pc[s] /\ call'[s] = call[s]
        BY <1>4, HandlerEffect
    <2>2. pc'[r] \in Active \/ call'[r] # "idle" => pc[r] \in Active \/ call[r] # "idle"
        BY <1>4 DEF HandlerStep, Refuse, Admit, lockResource, LockTimeout, ClaimMismatch,
            ClaimExisting, ClaimFresh, ResolveSerialize, ClaimError, WaitResolved, WaitExpired,
            BeginTransaction, PollResolved, PollExpired, Send, DialFailed, ResponseArrives,
            CallFails, CallReturns, OutcomeWritten, OutcomeWriteFails, Crash, Goto, Answer, Active
    <2>3. QED BY <2>1, <2>2
<1>5. CASE \E r \in Requests : HandlerStep(r) \/ ClaimError(r) \/ Crash(r)
    <2>1. PICK r \in Requests : HandlerStep(r) \/ ClaimError(r) \/ Crash(r)
        BY <1>5
    <2>2. CASE ResolveReject(r) \/ ResolveClaim(r)
        BY <1>1, <2>2
    <2>3. CASE ~ (ResolveReject(r) \/ ResolveClaim(r))
        BY <1>1, <1>2, <1>3, <1>4, <2>1, <2>3
    <2>4. QED BY <2>2, <2>3
<1>6. CASE \/ \E c \in Reconcilers : (ReconcilerStep(c) \/ Restart(c)) /\ UNCHANGED handlerVars
           \/ Environment
           \/ UNCHANGED vars
    <2>1. /\ pc' = pc
          /\ \A s \in Requests : call[s] = "idle" => call'[s] = "idle"
        BY <1>6, OutsideStep DEF handlerVars
    <2>2. QED BY <1>1, <1>2, <1>3, <2>1
<1>7. QED BY <1>5, <1>6 DEF Next

\* A key executes only the body it was first claimed with.
THEOREM OnlyTheClaimedBodyCorrect == Spec => []OnlyTheClaimedBody
<1>1. Init => BodyFixed
    BY DEF Init, DownstreamInit, HandlerInit, BodyFixed, Active
<1>2. BodyFixed => OnlyTheClaimedBody
    BY DEF BodyFixed, OnlyTheClaimedBody
<1>3. QED BY <1>1, <1>2, BodyFixedStep, ClaimInvariant, PTL DEF Spec

-----------------------------------------------------------------------------
\* What a step of handler r that answers knows of its own call: "refused",
\* "mismatch" and "not_executed" are said before the claim, "conflict" and
\* "unreachable" before the claim or after a call that failed.
LEMMA AnswerGiven ==
    ASSUME TypeOK, NEW r \in Requests, HandlerStep(r) \/ ClaimError(r) \/ Crash(r)
    PROVE  /\ pc[r] # "answered"
           /\ \A s \in Requests \ {r} : answer'[s] = answer[s]
           /\ answer'[r] # answer[r] => pc'[r] = "answered"
           /\ answer'[r] # answer[r] /\ answer'[r] \in {"refused", "mismatch", "not_executed"} =>
                 pc[r] \in Unclaimed /\ UNCHANGED <<intents, call>>
           /\ answer'[r] # answer[r] /\ answer'[r] \in {"conflict", "unreachable"} =>
                 /\ call' = call
                 /\ \/ pc[r] \in Unclaimed
                    \/ pc[r] = "persisting" /\ outcome[r].status = "failed"
           /\ pc'[r] = "persisting" /\ outcome'[r].status = "failed" =>
                 \/ call'[r] \in {"idle", "declined"}
                 \/ pc[r] = "persisting" /\ outcome' = outcome /\ call' = call
<1>1. answer = [s \in Requests |-> answer[s]]
    BY DEF TypeOK, HandlerTypeOK
<1> USE <1>1, Shapes DEF Unclaimed, InTransaction, Goto, Answer, dbVars
<1>2. CASE Refuse(r) \/ Admit(r) \/ WaitResolved(r) \/ WaitExpired(r)
    BY <1>2 DEF Refuse, Admit, WaitResolved, WaitExpired, BeginTransaction
<1>3. CASE lockResource(r) \/ ClaimFresh(r)
    BY <1>3 DEF lockResource, ClaimFresh
<1>4. CASE LockTimeout(r) \/ ClaimMismatch(r) \/ ClaimError(r)
    BY <1>4 DEF LockTimeout, ClaimMismatch, ClaimError, Rollback
<1>5. \A st : \A a \in AnswersFor(st) : a \notin {"refused", "mismatch", "not_executed"}
    BY DEF AnswersFor
<1>6. CASE ClaimExisting(r)
    BY <1>5, <1>6 DEF ClaimExisting, Rollback
<1>7. CASE ResolveSerialize(r)
    BY <1>7 DEF ResolveSerialize
<1>8. CASE ResolveReject(r)
    BY <1>8 DEF ResolveReject
<1>9. CASE ResolveClaim(r)
    BY <1>9 DEF ResolveClaim
<1>10. CASE PollResolved(r)
    BY <1>5, <1>10 DEF PollResolved
<1>11. CASE PollExpired(r) \/ Send(r)
    BY <1>11 DEF PollExpired, Send, handlerVars
<1>12. CASE DialFailed(r) \/ CallFails(r)
    BY <1>12 DEF DialFailed, CallFails, CallReturns, LostResponseOutcome
<1>13. CASE ResponseArrives(r)
    BY <1>13 DEF ResponseArrives, ClassifiedAs, CallReturns
<1>14. AnswerOf(r) \notin {"refused", "mismatch", "not_executed", "conflict"}
       /\ (AnswerOf(r) = "unreachable" => outcome[r].status = "failed")
    BY DEF AnswerOf
<1>15. CASE OutcomeWritten(r)
    BY <1>14, <1>15 DEF OutcomeWritten
<1>16. CASE OutcomeWriteFails(r)
    BY <1>14, <1>16 DEF OutcomeWriteFails
<1>17. CASE Crash(r)
    BY <1>17 DEF Crash
<1>18. QED
    BY <1>2, <1>3, <1>4, <1>6, <1>7, <1>8, <1>9, <1>10, <1>11, <1>12, <1>13, <1>15, <1>16, <1>17, Zenon
       DEF HandlerStep

\* What a client was told stays true over every later step of any actor.
LEMMA AnswersTrueStep == TypeOK /\ ClaimInv /\ AnswersTrue /\ [Next]_vars => AnswersTrue'
<1> SUFFICES ASSUME TypeOK, ClaimInv, AnswersTrue, [Next]_vars PROVE AnswersTrue'
    OBVIOUS
<1>1. ASSUME NEW r \in Requests, HandlerStep(r) \/ ClaimError(r) \/ Crash(r)
      PROVE  AnswersTrue'
    <2>1. /\ \A s \in Requests \ {r} :
                /\ pc'[s] = pc[s] /\ call'[s] = call[s] /\ outcome'[s] = outcome[s]
                /\ answer'[s] = answer[s]
                /\ intents[s] = "none" => intents'[s] = "none"
          /\ pc[r] # "answered" /\ answer[r] = "none"
        BY <1>1, HandlerEffect, AnswerGiven DEF AnswersTrue
    <2>2. pc[r] \in Unclaimed => intents[r] = "none" /\ call[r] = "idle"
        BY DEF ClaimInv, NothingYet
    <2>3. \A s \in Requests : answer'[s] # "none" => pc'[s] = "answered"
        BY <1>1, <2>1, AnswerGiven DEF AnswersTrue
    <2>4. HonestFailure'
        BY <1>1, <2>1, AnswerGiven DEF AnswersTrue, HonestFailure, Effective
    <2>5. NotExecutedIsTrue'
        <3>1. ASSUME NEW s \in Requests
              PROVE  /\ answer'[s] \in {"refused", "mismatch", "not_executed"} =>
                           intents'[s] = "none" /\ call'[s] = "idle"
                     /\ answer'[s] \in {"conflict", "unreachable"} => call'[s] \notin {"sent", "executed"}
            <4>1. CASE s # r
                BY <2>1, <4>1 DEF AnswersTrue, NotExecutedIsTrue
            <4>2. CASE s = r /\ answer'[r] \in {"refused", "mismatch", "not_executed"}
                BY <1>1, <2>1, <2>2, <4>2, AnswerGiven
            <4>3. CASE s = r /\ answer'[r] \in {"conflict", "unreachable"}
                <5>1. /\ call' = call
                      /\ pc[r] \in Unclaimed \/ (pc[r] = "persisting" /\ outcome[r].status = "failed")
                    BY <1>1, <2>1, <4>3, AnswerGiven
                <5>2. QED BY <2>2, <4>3, <5>1 DEF AnswersTrue, HonestFailure, Effective
            <4>4. QED BY <4>1, <4>2, <4>3
        <3>2. QED BY <3>1 DEF NotExecutedIsTrue
    <2>6. QED BY <2>3, <2>4, <2>5 DEF AnswersTrue
<1>2. CASE \/ \E c \in Reconcilers : (ReconcilerStep(c) \/ Restart(c)) /\ UNCHANGED handlerVars
           \/ Environment
           \/ UNCHANGED vars
    <2>1. /\ UNCHANGED <<pc, outcome, answer>>
          /\ \A s \in Requests : intents[s] = "none" => intents'[s] = "none"
          /\ \A s \in Requests : call[s] = "idle" => call'[s] = "idle"
        BY <1>2, OutsideStep DEF handlerVars
    <2>2. \A s \in Requests : Effective(s)' => Effective(s)
        BY <1>2, Shapes DEF ReconcilerStep, Select, Escalate, Probe, ProbeFails, Resolve, ResolveFails,
            Restart, Environment, DownstreamStep, ExecuteCall, DeclineCall, vars, Effective
    <2>3. QED BY <2>1, <2>2 DEF AnswersTrue, HonestFailure, NotExecutedIsTrue, Effective
<1>3. QED BY <1>1, <1>2 DEF Next

\* "Nothing was sent downstream", "conflict" and "downstream unreachable" are
\* true of the request that got them, for good.
THEOREM NotExecutedIsTrueCorrect == Spec => []NotExecutedIsTrue
<1>1. Init => AnswersTrue
    BY DEF Init, HandlerInit, AnswersTrue, HonestFailure, NotExecutedIsTrue
<1>2. AnswersTrue => NotExecutedIsTrue
    BY DEF AnswersTrue
<1>3. QED BY <1>1, <1>2, AnswersTrueStep, ClaimInvariant, PTL DEF Spec

-----------------------------------------------------------------------------
\* What a step of handler r that reports a success knows: "created" is said
\* after a response, "replayed" of a done key with the handler's own body.
LEMMA SuccessGiven ==
    ASSUME TypeOK, NEW r \in Requests, HandlerStep(r) \/ ClaimError(r) \/ Crash(r)
    PROVE  /\ answer'[r] # answer[r] /\ answer'[r] = "created" =>
                 pc[r] = "persisting" /\ outcome[r].status = "done" /\ call' = call
           /\ answer'[r] # answer[r] /\ answer'[r] = "replayed" =>
                 /\ status[KeyOf[r]] = "done" /\ call' = call
                 /\ pc[r] = "polling" \/ hash[KeyOf[r]] = BodyOf[r]
           /\ pc'[r] = "persisting" /\ outcome'[r].status = "done" =>
                 \/ call'[r] \in Settlements
                 \/ pc[r] = "persisting" /\ outcome' = outcome /\ call' = call
           /\ pc'[r] = "polling" =>
                 \/ pc[r] = "polling"
                 \/ status[KeyOf[r]] # "absent" /\ hash[KeyOf[r]] = BodyOf[r]
<1>1. answer = [s \in Requests |-> answer[s]]
    BY DEF TypeOK, HandlerTypeOK
<1> USE <1>1, Shapes DEF Goto, Answer, dbVars, Settlements
<1>2. CASE Refuse(r) \/ Admit(r) \/ WaitResolved(r) \/ WaitExpired(r)
    BY <1>2 DEF Refuse, Admit, WaitResolved, WaitExpired, BeginTransaction
<1>3. CASE lockResource(r) \/ ClaimFresh(r)
    BY <1>3 DEF lockResource, ClaimFresh
<1>4. CASE LockTimeout(r) \/ ClaimMismatch(r) \/ ClaimError(r)
    BY <1>4 DEF LockTimeout, ClaimMismatch, ClaimError
<1>5. \A st : \A a \in AnswersFor(st) : a # "created" /\ (a = "replayed" => st = "done")
    BY DEF AnswersFor
<1>6. CASE ClaimExisting(r)
    BY <1>5, <1>6 DEF ClaimExisting
<1>7. CASE ResolveSerialize(r)
    BY <1>7 DEF ResolveSerialize
<1>8. CASE ResolveReject(r)
    BY <1>8 DEF ResolveReject
<1>9. CASE ResolveClaim(r)
    BY <1>9 DEF ResolveClaim
<1>10. CASE PollResolved(r)
    BY <1>5, <1>10 DEF PollResolved
<1>11. CASE PollExpired(r) \/ Send(r)
    BY <1>11 DEF PollExpired, Send, handlerVars
<1>12. CASE DialFailed(r) \/ CallFails(r)
    BY <1>12 DEF DialFailed, CallFails, CallReturns, LostResponseOutcome
<1>13. CASE ResponseArrives(r)
    BY <1>13 DEF ResponseArrives, CallReturns
<1>14. AnswerOf(r) # "replayed" /\ (AnswerOf(r) = "created" => outcome[r].status = "done")
    BY DEF AnswerOf
<1>15. CASE OutcomeWritten(r)
    BY <1>14, <1>15 DEF OutcomeWritten
<1>16. CASE OutcomeWriteFails(r)
    BY <1>14, <1>16 DEF OutcomeWriteFails
<1>17. CASE Crash(r)
    BY <1>17 DEF Crash
<1>18. QED
    BY <1>2, <1>3, <1>4, <1>6, <1>7, <1>8, <1>9, <1>10, <1>11, <1>12, <1>13, <1>15, <1>16, <1>17, Zenon
       DEF HandlerStep

\* A settled call stays as it is.
LEMMA SettledForGood ==
    ASSUME TypeOK, [Next]_vars
    PROVE  \A s \in Requests : call[s] \in Settlements => call'[s] = call[s]
<1> USE Shapes DEF Settlements
<1>1. ASSUME NEW r \in Requests, HandlerStep(r) \/ ClaimError(r) \/ Crash(r)
      PROVE  call' = call \/ Send(r)
    BY <1>1 DEF HandlerStep, Refuse, Admit, lockResource, LockTimeout, ClaimMismatch,
        ClaimExisting, ClaimFresh, ResolveSerialize, ResolveReject, ResolveClaim, ClaimError,
        WaitResolved, WaitExpired, PollResolved, PollExpired, DialFailed, ResponseArrives,
        CallFails, CallReturns, OutcomeWritten, OutcomeWriteFails, Crash
<1>2. ASSUME NEW r \in Requests, Send(r)
      PROVE  \A s \in Requests : call[s] \in Settlements => call'[s] = call[s]
    BY <1>2 DEF Send
<1>3. CASE \/ \E c \in Reconcilers : (ReconcilerStep(c) \/ Restart(c)) /\ UNCHANGED handlerVars
           \/ Environment
           \/ UNCHANGED vars
    BY <1>3 DEF ReconcilerStep, Select, Escalate, Probe, ProbeFails, Resolve, ResolveFails, Restart,
        Environment, DownstreamStep, ExecuteCall, DeclineCall, vars
<1>4. QED BY <1>1, <1>2, <1>3 DEF Next

\* A key in use keeps its hash and stays in use.
LEMMA HashForGood ==
    ASSUME TypeOK, ClaimInv, [Next]_vars, NEW k \in Keys, status[k] # "absent"
    PROVE  status'[k] # "absent" /\ hash'[k] = hash[k]
<1> USE Shapes
<1>1. ASSUME NEW r \in Requests, ResolveReject(r) \/ ResolveClaim(r)
      PROVE  status'[k] # "absent" /\ hash'[k] = hash[k]
    <2>1. PICK st \in {"pending", "rejected"} :
              /\ MayTake(r)
              /\ status' = [status EXCEPT ![KeyOf[r]] = st]
              /\ hash' = [hash EXCEPT ![KeyOf[r]] = BodyOf[r]]
        BY <1>1, ClaimCommits
    <2>2. KeyOf[r] \in Keys
        BY StoreAssumption
    <2>3. QED BY <2>1, <2>2 DEF MayTake
<1>2. ASSUME ~ \E r \in Requests : ResolveReject(r) \/ ResolveClaim(r)
      PROVE  status'[k] # "absent" /\ hash'[k] = hash[k]
    BY <1>2, RowStep DEF Complete, dbVars
<1>3. QED BY <1>1, <1>2

\* A key becomes done by a handler that has a definitive response of it, or by a
\* sweep whose probe found an execution of it.
LEMMA DoneWritten ==
    ASSUME TypeOK, ClaimInv, [Next]_vars, NEW k \in Keys, status'[k] = "done", status[k] # "done"
    PROVE  \/ \E r \in Requests : KeyOf[r] = k /\ pc[r] = "persisting" /\ outcome[r].status = "done"
           \/ \E c \in Reconcilers : probed[c] = k /\ found[c] = "executed"
<1> USE Shapes
<1>1. ASSUME NEW x \in Keys, NEW st, NEW body, Complete(x, st, body)
      PROVE  x = k /\ st = "done"
    BY <1>1 DEF Complete, dbVars
<1>2. ASSUME NEW r \in Requests, HandlerStep(r) \/ ClaimError(r) \/ Crash(r)
      PROVE  KeyOf[r] = k /\ pc[r] = "persisting" /\ outcome[r].status = "done"
    <2>1. KeyOf[r] \in Keys
        BY StoreAssumption
    <2>2. ~ (ResolveReject(r) \/ ResolveClaim(r))
        BY <2>1, ClaimCommits
    <2>3. status' # status
        OBVIOUS
    <2>4. pc[r] = "persisting" /\ CompleteOutcome(r)
        BY <1>2, <2>2, <2>3, HandlerRows
    <2>5. QED BY <1>1, <2>1, <2>4 DEF CompleteOutcome
<1>3. ASSUME NEW c \in Reconcilers, ReconcilerStep(c) \/ Restart(c)
      PROVE  probed[c] = k /\ found[c] = "executed"
    <2>1. todo[c] \subseteq Keys /\ probed[c] \in Keys \cup {None}
        BY DEF TypeOK, ReconcilerTypeOK
    <2>2. ~ Escalate(c)
        BY <1>1, <2>1 DEF Escalate
    <2>3. Resolve(c)
        BY <1>3, <2>2 DEF ReconcilerStep, Select, Probe, ProbeFails, ResolveFails, Restart, dbVars
    <2>4. QED BY <1>1, <2>1, <2>3 DEF Resolve, ResolvedStatus
<1>4. ~ (Environment \/ UNCHANGED vars)
    <2>1. Environment \/ UNCHANGED vars => status' = status
        BY Zenon DEF Environment, LeaveWindow, BecomeStale, dbVars, rowVars, vars
    <2>2. QED BY <2>1
<1>5. QED BY <1>2, <1>3, <1>4 DEF Next

\* What success rests on is kept by every step of any actor.
LEMMA SuccessBackedStep ==
    TypeOK /\ ClaimInv /\ BodyFixed /\ SuccessBacked /\ [Next]_vars => SuccessBacked'
<1> SUFFICES ASSUME TypeOK, ClaimInv, BodyFixed, SuccessBacked, [Next]_vars PROVE SuccessBacked'
    OBVIOUS
<1>1. \A s \in Requests : call[s] \in Settlements => call'[s] = call[s]
    BY SettledForGood
<1>2. \A k \in Keys : status[k] # "absent" => status'[k] # "absent" /\ hash'[k] = hash[k]
    BY HashForGood
<1>3. \A r \in Requests : KeyOf[r] \in Keys
    BY StoreAssumption
<1>4. ASSUME NEW k \in Keys, status'[k] = "done"
      PROVE  \E s \in Requests : KeyOf[s] = k /\ call'[s] \in Settlements
    <2>1. CASE status[k] = "done"
        BY <1>1, <2>1 DEF SuccessBacked
    <2>2. CASE status[k] # "done"
        <3>1. ASSUME NEW r \in Requests, KeyOf[r] = k, pc[r] = "persisting", outcome[r].status = "done"
              PROVE  call[r] \in Settlements
            BY <3>1 DEF SuccessBacked
        <3>2. ASSUME NEW c \in Reconcilers, probed[c] = k, found[c] = "executed"
              PROVE  \E s \in Requests : KeyOf[s] = k /\ call[s] \in Settlements
            <4>1. k # None
                BY StoreAssumption
            <4>2. QED BY <3>2, <4>1 DEF SuccessBacked, ProbeBacked, byCorrelation, Settlements
        <3>3. QED BY <1>1, <1>4, <2>2, <3>1, <3>2, DoneWritten
    <2>3. QED BY <2>1, <2>2
<1>5. ASSUME NEW c \in Reconcilers,
             \/ probed'[c] = probed[c] /\ found'[c] = found[c]
             \/ probed'[c] = None
             \/ byCorrelation(probed'[c]) # {}
      PROVE  ProbeBacked(c)'
    <2>1. \A s \in Requests : call[s] = "executed" => call'[s] = "executed"
        BY <1>1 DEF Settlements
    <2>2. ProbeBacked(c)
        BY DEF SuccessBacked
    <2>3. QED BY <1>5, <2>1, <2>2 DEF ProbeBacked, byCorrelation
<1>6. ASSUME NEW r \in Requests, HandlerStep(r) \/ ClaimError(r) \/ Crash(r), UNCHANGED reconcilerVars
      PROVE  SuccessBacked'
    <2>1. \A s \in Requests \ {r} :
              pc'[s] = pc[s] /\ outcome'[s] = outcome[s] /\ call'[s] = call[s] /\ answer'[s] = answer[s]
        BY <1>6, HandlerEffect, AnswerGiven
    <2>2. \A s \in Requests :
              pc'[s] = "persisting" /\ outcome'[s].status = "done" => call'[s] \in Settlements
        <3>1. ASSUME NEW s \in Requests, pc[s] = "persisting", outcome[s].status = "done"
              PROVE  call'[s] \in Settlements
            BY <1>1, <3>1 DEF SuccessBacked
        <3>2. pc'[r] = "persisting" /\ outcome'[r].status = "done" =>
                  \/ call'[r] \in Settlements
                  \/ pc[r] = "persisting" /\ outcome' = outcome
            BY <1>6, SuccessGiven
        <3>3. QED BY <2>1, <3>1, <3>2
    <2>3. \A s \in Requests :
              pc'[s] = "polling" => status'[KeyOf[s]] # "absent" /\ hash'[KeyOf[s]] = BodyOf[s]
        <3>1. ASSUME NEW s \in Requests, pc[s] = "polling"
              PROVE  status'[KeyOf[s]] # "absent" /\ hash'[KeyOf[s]] = BodyOf[s]
            BY <1>2, <1>3, <3>1 DEF SuccessBacked
        <3>2. pc'[r] = "polling" =>
                  pc[r] = "polling" \/ (status[KeyOf[r]] # "absent" /\ hash[KeyOf[r]] = BodyOf[r])
            BY <1>6, SuccessGiven
        <3>3. QED BY <1>2, <1>3, <2>1, <3>1, <3>2
    <2>4. \A c \in Reconcilers : ProbeBacked(c)'
        BY <1>5, <1>6 DEF reconcilerVars
    <2>5. ASSUME NEW s \in Requests, answer'[s] = "created"
          PROVE  call'[s] \in Settlements
        <3>1. CASE answer[s] = "created"
            BY <1>1, <3>1 DEF SuccessBacked, SuccessIsTrue
        <3>2. CASE answer[s] # "created"
            <4>1. s = r
                BY <2>1, <2>5, <3>2
            <4>2. pc[r] = "persisting" /\ outcome[r].status = "done" /\ call' = call
                BY <1>6, <2>5, <3>2, <4>1, SuccessGiven
            <4>3. QED BY <4>1, <4>2 DEF SuccessBacked
        <3>3. QED BY <3>1, <3>2
    <2>6. ASSUME NEW s \in Requests, answer'[s] = "replayed"
          PROVE  \E q \in Requests :
                     KeyOf[q] = KeyOf[s] /\ BodyOf[q] = BodyOf[s] /\ call'[q] \in Settlements
        <3>1. CASE answer[s] = "replayed"
            <4>1. PICK q \in Requests :
                      KeyOf[q] = KeyOf[s] /\ BodyOf[q] = BodyOf[s] /\ call[q] \in Settlements
                BY <3>1 DEF SuccessBacked, SuccessIsTrue
            <4>2. QED BY <1>1, <4>1
        <3>2. CASE answer[s] # "replayed"
            <4>1. s = r
                BY <2>1, <2>6, <3>2
            <4>2. status[KeyOf[r]] = "done" /\ hash[KeyOf[r]] = BodyOf[r]
                BY <1>6, <2>6, <3>2, <4>1, SuccessGiven DEF SuccessBacked
            <4>3. PICK q \in Requests : KeyOf[q] = KeyOf[r] /\ call[q] \in Settlements
                BY <1>3, <4>2 DEF SuccessBacked
            <4>4. BodyOf[q] = BodyOf[r]
                BY <4>2, <4>3 DEF BodyFixed, Settlements
            <4>5. QED BY <1>1, <4>1, <4>3, <4>4
        <3>3. QED BY <3>1, <3>2
    <2>7. QED BY <1>4, <2>2, <2>3, <2>4, <2>5, <2>6 DEF SuccessBacked, SuccessIsTrue
<1>7. ASSUME UNCHANGED handlerVars, \A c \in Reconcilers : ProbeBacked(c)'
      PROVE  SuccessBacked'
    <2>1. UNCHANGED <<pc, outcome, answer>>
        BY <1>7 DEF handlerVars
    <2>2. SuccessIsTrue'
        <3>1. ASSUME NEW s \in Requests, answer[s] = "replayed"
              PROVE  \E q \in Requests :
                         KeyOf[q] = KeyOf[s] /\ BodyOf[q] = BodyOf[s] /\ call'[q] \in Settlements
            <4>1. PICK q \in Requests :
                      KeyOf[q] = KeyOf[s] /\ BodyOf[q] = BodyOf[s] /\ call[q] \in Settlements
                BY <3>1 DEF SuccessBacked, SuccessIsTrue
            <4>2. QED BY <1>1, <4>1
        <3>2. \A s \in Requests : answer[s] = "created" => call'[s] \in Settlements
            BY <1>1 DEF SuccessBacked, SuccessIsTrue
        <3>3. QED BY <2>1, <3>1, <3>2 DEF SuccessIsTrue
    <2>3. \A s \in Requests :
              pc'[s] = "persisting" /\ outcome'[s].status = "done" => call'[s] \in Settlements
        BY <1>1, <2>1 DEF SuccessBacked
    <2>4. \A s \in Requests :
              pc'[s] = "polling" => status'[KeyOf[s]] # "absent" /\ hash'[KeyOf[s]] = BodyOf[s]
        BY <1>2, <1>3, <2>1 DEF SuccessBacked
    <2>5. QED BY <1>4, <1>7, <2>2, <2>3, <2>4 DEF SuccessBacked
<1>8. ASSUME NEW c \in Reconcilers, ReconcilerStep(c) \/ Restart(c)
      PROVE  \A d \in Reconcilers : ProbeBacked(d)'
    <2>1. /\ probed = [d \in Reconcilers |-> probed[d]] /\ found = [d \in Reconcilers |-> found[d]]
        BY DEF TypeOK, ReconcilerTypeOK
    <2>2. CASE Probe(c)
        <3>1. PICK k \in todo[c] :
                  /\ probed' = [probed EXCEPT ![c] = k]
                  /\ found' = [found EXCEPT ![c] =
                                  IF byCorrelation(k) = {} THEN "not_executed" ELSE "executed"]
            BY <2>2 DEF Probe
        <3>2. \A d \in Reconcilers \ {c} : ProbeBacked(d)'
            BY <1>5, <2>1, <3>1
        <3>3. CASE byCorrelation(k) = {}
            BY <2>1, <3>1, <3>2, <3>3 DEF ProbeBacked
        <3>4. CASE byCorrelation(k) # {}
            BY <1>5, <2>1, <3>1, <3>2, <3>4
        <3>5. QED BY <3>3, <3>4
    <2>3. CASE UNCHANGED <<probed, found>>
        BY <1>5, <2>3
    <2>4. CASE Settled(c)
        BY <1>5, <2>1, <2>4 DEF Settled
    <2>5. QED BY <1>8, <2>2, <2>3, <2>4 DEF ReconcilerStep, Select, Escalate, ProbeFails, Resolve,
                                            ResolveFails, Restart
<1>9. CASE Environment \/ UNCHANGED vars
    <2>1. UNCHANGED handlerVars /\ UNCHANGED <<probed, found>>
        BY <1>9, Zenon DEF Environment, vars, reconcilerVars
    <2>2. QED BY <1>5, <1>7, <2>1
<1>10. QED BY <1>6, <1>7, <1>8, <1>9 DEF Next

\* A 201 and a replay are of a call of the same key and body that the downstream
\* settled, however many reconcilers run and whatever acknowledgements are lost.
THEOREM SuccessIsTrueCorrect == Spec => []SuccessIsTrue
<1>1. Init => BodyFixed /\ SuccessBacked
    BY StoreAssumption DEF Init, StoreInit, DownstreamInit, HandlerInit, ReconcilerInit, BodyFixed,
        SuccessBacked, ProbeBacked, SuccessIsTrue, Active
<1>2. SuccessBacked => SuccessIsTrue
    BY DEF SuccessBacked
<1>3. QED BY <1>1, <1>2, BodyFixedStep, SuccessBackedStep, ClaimInvariant, PTL DEF Spec

-----------------------------------------------------------------------------
\* The intents in the window follow the status of their key over every step.
LEMMA LiveIntentStep == TypeOK /\ ClaimInv /\ LiveIntentPerKey /\ [Next]_vars => LiveIntentPerKey'
<1> SUFFICES ASSUME TypeOK, ClaimInv, LiveIntentPerKey, [Next]_vars PROVE LiveIntentPerKey'
    OBVIOUS
<1> USE Shapes
<1>1. ASSUME NEW r \in Requests, ResolveReject(r) \/ ResolveClaim(r)
      PROVE  LiveIntentPerKey'
    <2> DEFINE k == KeyOf[r]
    <2>1. PICK st \in {"pending", "rejected"} :
              /\ MayTake(r) /\ intents[r] = "none"
              /\ status' = [status EXCEPT ![k] = st]
              /\ intents' = [intents EXCEPT ![r] = IF st = "pending" THEN "live" ELSE "voided"]
        BY <1>1, ClaimCommits
    <2>2. k \in Keys /\ LiveIntents(k) = {}
        BY <2>1, StoreAssumption DEF MayTake, LiveIntentPerKey
    <2>3. LiveIntents(k)' = IF st = "pending" THEN {r} ELSE {}
        BY <2>1, <2>2 DEF LiveIntents
    <2>4. \A x \in Keys \ {k} : status'[x] = status[x] /\ LiveIntents(x)' = LiveIntents(x)
        BY <2>1 DEF LiveIntents
    <2>5. QED BY <2>1, <2>2, <2>3, <2>4 DEF LiveIntentPerKey
<1>2. ASSUME NEW k \in Keys, NEW st \in {"done", "failed", "indeterminate"}, NEW body,
             Complete(k, st, body)
      PROVE  LiveIntentPerKey'
    <2>1. CASE status[k] # "pending"
        BY <1>2, <2>1 DEF Complete, dbVars, LiveIntentPerKey, LiveIntents
    <2>2. CASE status[k] = "pending"
        <3>1. PICK i \in Requests : LiveIntents(k) = {i}
            BY <2>2 DEF LiveIntentPerKey
        <3>2. /\ status' = [status EXCEPT ![k] = st]
              /\ IF st = "failed" THEN intents' = [intents EXCEPT ![i] = "voided"]
                                  ELSE intents' = intents
            BY <1>2, <2>2, <3>1 DEF Complete, VoidLatestIntent
        <3>3. KeyOf[i] = k
            BY <3>1 DEF LiveIntents
        <3>4. LiveIntents(k)' = IF st = "failed" THEN {} ELSE {i}
            BY <3>1, <3>2 DEF LiveIntents
        <3>5. \A x \in Keys \ {k} : status'[x] = status[x] /\ LiveIntents(x)' = LiveIntents(x)
            BY <3>2, <3>3 DEF LiveIntents
        <3>6. QED BY <3>2, <3>4, <3>5 DEF LiveIntentPerKey
    <2>3. QED BY <2>1, <2>2
<1>3. CASE UNCHANGED <<status, hash, intents>>
    BY <1>3 DEF LiveIntentPerKey, LiveIntents
<1>4. QED BY <1>1, <1>2, <1>3, RowStep

\* A key that is pending, done or indeterminate has exactly one intent in the
\* conflict window, and any other key none.
THEOREM LiveIntentPerKeyCorrect == Spec => []LiveIntentPerKey
<1>1. Init => LiveIntentPerKey
    BY DEF Init, StoreInit, LiveIntentPerKey, LiveIntents
<1>2. QED BY <1>1, LiveIntentStep, ClaimInvariant, PTL DEF Spec

-----------------------------------------------------------------------------
\* The matrix does not ask who came first: Compatible is symmetric.
LEMMA CompatibleSymmetric == \A a, b : Compatible(a, b) <=> Compatible(b, a)
<1>1. \A x, y : overlaps(x, y) <=> overlaps(y, x)
    BY DEF overlaps
<1>2. \A x, y : ScopesDisjoint(x, y) <=> ScopesDisjoint(y, x)
    BY <1>1 DEF ScopesDisjoint
<1>3. QED BY <1>2 DEF Compatible

\* A field is written by a selector that names it or an ancestor of it; an
\* undeclared selector may write every field.
Writes(scope, field) ==
    scope = {} \/ \E p \in scope : Len(p) <= Len(field) /\ SubSeq(field, 1, Len(p)) = p

\* Paths that lead to one field overlap: one of them leads to the other.
LEMMA CommonField ==
    ASSUME NEW S, NEW f \in Seq(S), NEW p \in Seq(S), NEW q \in Seq(S),
           Len(p) <= Len(f), SubSeq(f, 1, Len(p)) = p,
           Len(q) <= Len(f), SubSeq(f, 1, Len(q)) = q, Len(p) <= Len(q)
    PROVE  p = q \/ HasPrefixDot(q, p)
<1>1. Len(p) \in Nat /\ Len(q) \in Nat /\ Len(f) \in Nat
    OBVIOUS
<1>2. p = [i \in 1 .. Len(p) |-> f[i]] /\ q = [i \in 1 .. Len(q) |-> f[i]]
    OBVIOUS
<1>3. SubSeq(q, 1, Len(p)) = [i \in 1 .. Len(p) |-> q[i]]
    OBVIOUS
<1>4. SubSeq(q, 1, Len(p)) = p
    BY <1>1, <1>2, <1>3
<1>5. CASE Len(p) = Len(q)
    BY <1>2, <1>5
<1>6. CASE Len(p) < Len(q)
    BY <1>4, <1>6 DEF HasPrefixDot
<1>7. \A m, n \in Nat : m <= n => m = n \/ m < n
    OBVIOUS
<1>8. QED BY <1>1, <1>5, <1>6, <1>7, Zenon

\* ScopesDisjoint: two mutates are let through together exactly when there is no
\* field that both may write, for selectors of any number of paths of any depth.
THEOREM ScopesDisjointCorrect ==
    ASSUME NEW a \in SUBSET Paths, NEW b \in SUBSET Paths
    PROVE  ScopesDisjoint(a, b) <=> ~ \E f \in Seq(Segments) : Writes(a, f) /\ Writes(b, f)
<1>1. \A p \in a \cup b : p \in Seq(Segments) /\ Len(p) \in Nat /\ SubSeq(p, 1, Len(p)) = p
    BY DEF Paths
<1>2. \A p \in a : Writes(a, p)
    BY <1>1 DEF Writes
<1>3. \A p \in b : Writes(b, p)
    BY <1>1 DEF Writes
<1>4. CASE a = {} \/ b = {}
    <2>1. \E f \in Seq(Segments) : Writes(a, f) /\ Writes(b, f)
        <3>1. CASE a = {} /\ b = {}
            <4>1. <<>> \in Seq(Segments) /\ Writes(a, <<>>) /\ Writes(b, <<>>)
                BY <3>1 DEF Writes
            <4>2. QED BY <4>1
        <3>2. CASE a # {}
            BY <1>1, <1>2, <1>4, <3>2 DEF Writes
        <3>3. CASE b # {}
            BY <1>1, <1>3, <1>4, <3>3 DEF Writes
        <3>4. QED BY <3>1, <3>2, <3>3
    <2>2. QED BY <1>4, <2>1 DEF ScopesDisjoint
<1>5. CASE a # {} /\ b # {}
    <2>1. ASSUME NEW p \in a, NEW q \in b, overlaps(p, q)
          PROVE  \E f \in Seq(Segments) : Writes(a, f) /\ Writes(b, f)
        <3>1. CASE p = q
            BY <1>1, <1>2, <1>3, <3>1
        <3>2. CASE HasPrefixDot(p, q)
            <4>1. Writes(b, p)
                BY <1>1, <3>2 DEF Writes, HasPrefixDot
            <4>2. QED BY <1>1, <1>2, <4>1
        <3>3. CASE HasPrefixDot(q, p)
            <4>1. Writes(a, q)
                BY <1>1, <3>3 DEF Writes, HasPrefixDot
            <4>2. QED BY <1>1, <1>3, <4>1
        <3>4. QED BY <2>1, <3>1, <3>2, <3>3 DEF overlaps
    <2>2. ASSUME NEW f \in Seq(Segments), Writes(a, f), Writes(b, f)
          PROVE  \E p \in a, q \in b : overlaps(p, q)
        <3>1. PICK p \in a : Len(p) <= Len(f) /\ SubSeq(f, 1, Len(p)) = p
            BY <1>5, <2>2 DEF Writes
        <3>2. PICK q \in b : Len(q) <= Len(f) /\ SubSeq(f, 1, Len(q)) = q
            BY <1>5, <2>2 DEF Writes
        <3>3. p \in Seq(Segments) /\ q \in Seq(Segments) /\ Len(p) \in Nat /\ Len(q) \in Nat
            BY <1>1
        <3>4. CASE Len(p) <= Len(q)
            BY <3>1, <3>2, <3>3, <3>4, CommonField DEF overlaps
        <3>5. CASE Len(q) <= Len(p)
            BY <3>1, <3>2, <3>3, <3>5, CommonField DEF overlaps
        <3>6. QED BY <3>3, <3>4, <3>5
    <2>3. QED BY <1>5, <2>1, <2>2 DEF ScopesDisjoint
<1>6. QED BY <1>4, <1>5

\* What the proofs below need of the types of the transaction state.
LEMMA WindowShapes ==
    ASSUME TypeOK
    PROVE  /\ behind \in [Requests -> SUBSET Requests] /\ window = [r \in Requests |-> window[r]]
           /\ aged \subseteq Requests
BY DEF TypeOK, StoreTypeOK, HandlerTypeOK

\* A step of handler r un-ages no intent but the one its own transaction rolls
\* back, and reads no window but in claimKey.
LEMMA WindowEffect ==
    ASSUME TypeOK, NEW r \in Requests, HandlerStep(r) \/ ClaimError(r) \/ Crash(r)
    PROVE  /\ \/ aged' = aged
              \/ pc[r] \in InTransaction /\ aged' = aged \ {r}
           /\ \A j \in Requests \ {r} : window'[j] = window[j]
           /\ pc'[r] = "resolving" => ClaimFresh(r)
           /\ WindowClock => WindowClock'
<1> USE Shapes, WindowShapes DEF WindowClock, Goto, Answer, dbVars
<1>1. ASSUME EndTransaction(r)
      PROVE  \A j \in Requests \ {r} : window'[j] = window[j]
    BY <1>1 DEF EndTransaction
<1>2. ASSUME Rollback(r)
      PROVE  aged' = aged \ {r} /\ (WindowClock => WindowClock')
    BY <1>2 DEF Rollback
<1>3. ASSUME Commit(r), aged' = aged
      PROVE  WindowClock => WindowClock'
    BY <1>3 DEF Commit
<1>4. ASSUME BeginTransaction(r), aged' = aged
      PROVE  window' = window /\ (WindowClock => WindowClock')
    BY <1>4 DEF BeginTransaction
<1>5. CASE Admit(r) \/ WaitResolved(r)
    <2>1. BeginTransaction(r) /\ aged' = aged
        BY <1>5 DEF Admit, WaitResolved
    <2>2. QED BY <1>4, <2>1 DEF BeginTransaction
<1>6. CASE LockTimeout(r) \/ ClaimMismatch(r) \/ ClaimError(r) \/ ClaimExisting(r) \/ ResolveSerialize(r)
    <2>1. Rollback(r) /\ pc[r] \in InTransaction /\ pc'[r] # "resolving"
        BY <1>6 DEF LockTimeout, ClaimMismatch, ClaimError, ClaimExisting, ResolveSerialize,
                    InTransaction
    <2>2. QED BY <1>1, <1>2, <2>1 DEF Rollback
<1>7. CASE ResolveReject(r) \/ ResolveClaim(r)
    <2>1. Commit(r) /\ aged' = aged /\ pc'[r] # "resolving"
        BY <1>7 DEF ResolveReject, ResolveClaim, CommitClaim
    <2>2. QED BY <1>1, <1>3, <2>1 DEF Commit
<1>8. CASE ClaimFresh(r)
    BY <1>8 DEF ClaimFresh
<1>9. ASSUME UNCHANGED <<aged, behind, window>>, pc'[r] # "resolving"
      PROVE  /\ aged' = aged
             /\ \A j \in Requests \ {r} : window'[j] = window[j]
             /\ pc'[r] = "resolving" => ClaimFresh(r)
             /\ WindowClock => WindowClock'
    BY <1>9
<1>10. CASE Refuse(r) \/ WaitExpired(r) \/ lockResource(r) \/ PollResolved(r) \/ PollExpired(r)
    BY <1>9, <1>10 DEF Refuse, WaitExpired, lockResource, PollResolved, PollExpired, txVars
<1>11. CASE Send(r) \/ DialFailed(r) \/ ResponseArrives(r) \/ CallFails(r)
    BY <1>9, <1>11 DEF Send, DialFailed, ResponseArrives, CallFails, CallReturns, txVars, handlerVars
<1>12. CASE OutcomeWritten(r) \/ OutcomeWriteFails(r)
    <2>1. UNCHANGED <<aged, behind, window>>
        BY <1>12 DEF OutcomeWritten, OutcomeWriteFails, CompleteOutcome, Complete, txVars
    <2>2. pc'[r] # "resolving"
        BY <1>12 DEF OutcomeWritten, OutcomeWriteFails
    <2>3. QED BY <1>9, <2>1, <2>2
<1>13. CASE Crash(r)
    <2>1. pc'[r] # "resolving"
        BY <1>13 DEF Crash
    <2>2. CASE pc[r] \in InTransaction
        BY <1>1, <1>2, <1>13, <2>1, <2>2 DEF Crash, Rollback
    <2>3. CASE pc[r] \notin InTransaction
        BY <1>9, <1>13, <2>1, <2>3 DEF Crash
    <2>4. QED BY <2>2, <2>3
<1>14. QED
    BY <1>5, <1>6, <1>7, <1>8, <1>10, <1>11, <1>12, <1>13 DEF HandlerStep

\* Time only takes intents out of the window.
LEMMA ClockStep ==
    ASSUME TypeOK,
           \/ \E c \in Reconcilers : (ReconcilerStep(c) \/ Restart(c)) /\ UNCHANGED handlerVars
           \/ Environment
           \/ UNCHANGED vars
    PROVE  aged \subseteq aged'
BY DEF ReconcilerStep, Select, Escalate, Probe, ProbeFails, Resolve, ResolveFails, Restart,
       Complete, Environment, LeaveWindow, BecomeStale, dbVars, vars

\* No step adds a live intent but the commit of a claim.
LEMMA LiveOnlyByClaim ==
    ASSUME TypeOK, [Next]_vars, ~ \E r \in Requests : ResolveReject(r) \/ ResolveClaim(r)
    PROVE  /\ \A i \in Requests : intents'[i] = "live" => intents[i] = "live"
           /\ \A k \in Keys : status'[k] = "pending" => status[k] = "pending"
BY RowStep, Shapes DEF Complete, VoidLatestIntent, LiveIntents, dbVars

\* A live intent that has left the window does not come back into it.
LEMMA AgedForGood ==
    ASSUME TypeOK, ClaimInv, [Next]_vars, NEW i \in Requests, intents[i] = "live", i \notin aged'
    PROVE  i \notin aged
<1>1. ASSUME NEW r \in Requests, HandlerStep(r) \/ ClaimError(r) \/ Crash(r)
      PROVE  i \notin aged
    <2>1. pc[r] \in InTransaction => intents[r] = "none"
        BY DEF ClaimInv, NothingYet, Unclaimed
    <2>2. QED BY <1>1, <2>1, WindowEffect
<1>2. QED BY <1>1, ClockStep DEF Next

\* While a claim resolves, nobody else can put a conflicting intent beside it:
\* whoever could needs the lock it holds.
LEMMA WindowCompleteStep ==
    ASSUME TypeOK, ClaimInv, WindowClock, WindowComplete, [Next]_vars
    PROVE  WindowComplete'
<1> SUFFICES ASSUME NEW j \in Requests, pc'[j] = "resolving", NEW i \in Requests \ {j},
                    intents'[i] = "live", i \notin aged', Resource(i) = Resource(j),
                    ~ Compatible(Declared[BodyOf[j]], Declared[BodyOf[i]])
             PROVE  i \in window'[j]
    BY DEF WindowComplete, Resource
<1>1. ASSUME NEW r \in Requests, HandlerStep(r) \/ ClaimError(r) \/ Crash(r)
      PROVE  i \in window'[j]
    <2>1. CASE ClaimFresh(j)
        <3>1. intents' = intents /\ aged' = aged /\ window'[j] = conflictingIntents(j)
            BY <2>1, WindowShapes DEF ClaimFresh, dbVars
        <3>2. i \notin behind[j]
            BY <3>1 DEF WindowClock
        <3>3. QED BY <3>1, <3>2 DEF conflictingIntents
    <2>2. CASE ~ ClaimFresh(j)
        <3>1. j # r /\ pc[j] = "resolving" /\ window'[j] = window[j]
            BY <1>1, <2>2, WindowEffect, HandlerEffect
        <3>2. CASE ResolveReject(r) \/ ResolveClaim(r)
            <4>1. /\ pc[r] = "resolving" /\ aged' = aged
                  /\ \A x \in Requests \ {r} : intents'[x] = intents[x]
                BY <3>2, ClaimCommits, Shapes
            <4>2. lock[Resource(r)] = r /\ lock[Resource(j)] = j
                BY <3>1, <4>1 DEF ClaimInv, LockHeld
            <4>3. i # r
                BY <3>1, <4>2
            <4>4. QED BY <3>1, <4>1, <4>3 DEF WindowComplete
        <3>3. CASE ~ (ResolveReject(r) \/ ResolveClaim(r))
            <4>1. intents[i] = "live"
                BY <1>1, <3>3, HandlerRows, Shapes
                   DEF CompleteOutcome, Complete, VoidLatestIntent, LiveIntents, dbVars
            <4>2. i \notin aged
                BY <4>1, AgedForGood
            <4>3. QED BY <3>1, <4>1, <4>2 DEF WindowComplete
        <3>4. QED BY <3>2, <3>3
    <2>3. QED BY <2>1, <2>2
<1>2. CASE \/ \E c \in Reconcilers : (ReconcilerStep(c) \/ Restart(c)) /\ UNCHANGED handlerVars
           \/ Environment
           \/ UNCHANGED vars
    <2>1. pc' = pc /\ window' = window
        BY <1>2, OutsideStep DEF handlerVars
    <2>2. intents[i] = "live"
        <3>1. \A r \in Requests : ~ (ResolveReject(r) \/ ResolveClaim(r))
            BY <2>1, Shapes DEF ResolveReject, ResolveClaim, Goto, Answer
        <3>2. QED BY <3>1, LiveOnlyByClaim
    <2>3. i \notin aged
        BY <2>2, AgedForGood
    <2>4. QED BY <2>1, <2>2, <2>3 DEF WindowComplete
<1>3. QED BY <1>1, <1>2 DEF Next

\* A claim that commits beside a conflicting intent found it in its window, and
\* so it is the agent's own and no longer pending.
LEMMA ConflictsExcludedStep ==
    ASSUME TypeOK, ClaimInv, LiveIntentPerKey, WindowComplete, ConflictsExcluded, [Next]_vars
    PROVE  ConflictsExcluded'
<1> SUFFICES ASSUME NEW i \in Enforced, NEW j \in Enforced, i # j, Resource(i) = Resource(j),
                    intents'[i] = "live", intents'[j] = "live", i \notin aged', j \notin aged',
                    ~ Compatible(Declared[BodyOf[i]], Declared[BodyOf[j]])
             PROVE  /\ Agent(i) = Agent(j)
                    /\ ~ (status'[KeyOf[i]] = "pending" /\ status'[KeyOf[j]] = "pending")
    BY DEF ConflictsExcluded, Resource, Agent
<1>1. /\ i \in Requests /\ KeyOf[i] \in Keys
      /\ j \in Requests /\ KeyOf[j] \in Keys
    BY StoreAssumption, HandlerAssumption
<1>2. ~ Compatible(Declared[BodyOf[j]], Declared[BodyOf[i]])
    BY CompatibleSymmetric
<1>3. CASE ~ \E r \in Requests : ResolveReject(r) \/ ResolveClaim(r)
    <2>1. /\ intents[i] = "live" /\ intents[j] = "live"
          /\ status'[KeyOf[i]] = "pending" => status[KeyOf[i]] = "pending"
          /\ status'[KeyOf[j]] = "pending" => status[KeyOf[j]] = "pending"
        BY <1>1, <1>3, LiveOnlyByClaim
    <2>2. i \notin aged /\ j \notin aged
        BY <1>1, <2>1, AgedForGood
    <2>3. QED BY <2>1, <2>2 DEF ConflictsExcluded
<1>4. ASSUME NEW r \in Requests, ResolveReject(r) \/ ResolveClaim(r)
      PROVE  /\ Agent(i) = Agent(j)
             /\ ~ (status'[KeyOf[i]] = "pending" /\ status'[KeyOf[j]] = "pending")
    <2>1. PICK st \in {"pending", "rejected"} :
              /\ pc[r] = "resolving" /\ MayTake(r)
              /\ status' = [status EXCEPT ![KeyOf[r]] = st]
              /\ intents' = [intents EXCEPT ![r] = IF st = "pending" THEN "live" ELSE "voided"]
              /\ aged' = aged
        BY <1>4, ClaimCommits
    <2>2. \A x \in Requests \ {r} : intents'[x] = intents[x]
        BY <2>1, Shapes
    <2>3. \A x \in Requests : intents[x] = "live" => KeyOf[x] # KeyOf[r]
        BY <2>1, StoreAssumption DEF MayTake, LiveIntentPerKey, LiveIntents
    <2>4. \A x \in Requests : intents[x] = "live" => status'[KeyOf[x]] = status[KeyOf[x]]
        BY <2>1, <2>3, Shapes, StoreAssumption
    <2>5. ASSUME NEW x \in Requests \ {r}, r \in Enforced, intents'[r] = "live", intents'[x] = "live",
                 x \notin aged, Resource(x) = Resource(r),
                 ~ Compatible(Declared[BodyOf[r]], Declared[BodyOf[x]])
          PROVE  Agent(x) = Agent(r) /\ status'[KeyOf[x]] # "pending"
        <3>1. ResolveClaim(r)
            BY <1>4, <2>5, Shapes DEF ResolveReject, CommitClaim
        <3>2. x \in window[r]
            BY <2>1, <2>2, <2>5 DEF WindowComplete
        <3>3. others(r) = {} /\ PendingBehind(r) = {}
            BY <2>5, <3>1 DEF ResolveClaim, MustReject, MustSerialize
        <3>4. Agent(x) = Agent(r) /\ status[KeyOf[x]] # "pending"
            BY <3>2, <3>3 DEF others, PendingBehind
        <3>5. QED BY <2>2, <2>4, <2>5, <3>4
    <2>6. CASE i = r
        BY <1>1, <2>1, <2>5, <2>6
    <2>7. CASE j = r
        BY <1>1, <1>2, <2>1, <2>5, <2>7
    <2>8. CASE i # r /\ j # r
        BY <1>1, <2>1, <2>2, <2>4, <2>8 DEF ConflictsExcluded
    <2>9. QED BY <2>6, <2>7, <2>8
<1>5. QED BY <1>3, <1>4

\* Of two conflicting enforced writes in the window, writes of different agents
\* are never both live and writes of one agent never both pending.
THEOREM ConflictsExcludedCorrect == Spec => []ConflictsExcluded
<1>1. Init => ExclusionInv
    <2> SUFFICES ASSUME StoreInit, HandlerInit PROVE ExclusionInv
        BY DEF Init
    <2>1. LiveIntentPerKey
        BY DEF StoreInit, LiveIntentPerKey, LiveIntents
    <2>2. WindowClock /\ WindowComplete
        BY DEF StoreInit, HandlerInit, WindowClock, WindowComplete
    <2>3. ConflictsExcluded
        BY HandlerAssumption DEF StoreInit, ConflictsExcluded
    <2>4. QED BY <2>1, <2>2, <2>3 DEF ExclusionInv
<1>2. TypeOK /\ WindowClock /\ [Next]_vars => WindowClock'
    <2> SUFFICES ASSUME TypeOK, WindowClock, [Next]_vars PROVE WindowClock'
        OBVIOUS
    <2>1. CASE \/ \E c \in Reconcilers : (ReconcilerStep(c) \/ Restart(c)) /\ UNCHANGED handlerVars
               \/ Environment
               \/ UNCHANGED vars
        <3>1. behind' = behind /\ aged \subseteq aged'
            BY <2>1, OutsideStep, ClockStep DEF handlerVars
        <3>2. QED BY <3>1 DEF WindowClock
    <2>2. QED BY <2>1, WindowEffect DEF Next
<1>3. TypeOK /\ ClaimInv /\ ExclusionInv /\ [Next]_vars => ExclusionInv'
    BY <1>2, LiveIntentStep, WindowCompleteStep, ConflictsExcludedStep DEF ExclusionInv
<1>4. ExclusionInv => ConflictsExcluded
    BY DEF ExclusionInv
<1>5. QED BY <1>1, <1>3, <1>4, ClaimInvariant, PTL DEF Spec
=============================================================================
