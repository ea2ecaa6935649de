-------------------------- MODULE WritePathProofs ---------------------------
(***************************************************************************)
(* From the claim to the terminal status: handlers, the sweep and the      *)
(* environment keep a claimed key with its one writer, and what that means *)
(* for its executions.  The write path then implements IdempotentKey.      *)
(***************************************************************************)
EXTENDS ClaimProofs, WritePathRefinement

-----------------------------------------------------------------------------
\* What the proofs below need of the reconciler's types.
LEMMA SweepShapes ==
    ASSUME TypeOK
    PROVE  /\ todo \in [Reconcilers -> SUBSET Keys]
           /\ probed \in [Reconcilers -> Keys \cup {None}]
           /\ found \in [Reconcilers -> {"unknown", "executed", "not_executed"}]
           /\ stale \in SUBSET Keys
BY DEF TypeOK, StoreTypeOK, ReconcilerTypeOK

\* A step that only takes handler r somewhere inactive disturbs no writer.
LEMMA QuietStep ==
    ASSUME TypeOK, WriterInv, NEW r \in Requests,
           pc'[r] \notin Active, \A s \in Requests \ {r} : pc'[s] = pc[s] /\ outcome'[s] = outcome[s],
           UNCHANGED <<status, stale, call, todo, probed, found>>
    PROVE  WriterInv'
<1>1. \A k \in Keys : InFlight(k)' => InFlight(k)
    BY DEF InFlight
<1>2. ExclusiveWriter'
    BY DEF WriterInv, ExclusiveWriter, Effective
<1>3. EffectsAccounted'
    BY DEF WriterInv, EffectsAccounted, Effective
<1>4. HonestFailure'
    BY DEF WriterInv, HonestFailure, Effective, Active
<1>5. SweepUndisturbed'
    BY <1>1, SweepShapes DEF WriterInv, SweepUndisturbed, byCorrelation
<1>6. QED BY <1>2, <1>3, <1>4, <1>5 DEF WriterInv

\* A claim commits on a row nobody works on and nothing was executed for.
LEMMA CommitStep ==
    ASSUME TypeOK, ClaimInv, WriterInv, NEW r \in Requests,
           ResolveReject(r) \/ ResolveClaim(r), UNCHANGED reconcilerVars
    PROVE  WriterInv'
<1> DEFINE k == KeyOf[r]
<1> USE Shapes, SweepShapes
<1>1. /\ status[k] \in {"absent", "failed"} /\ pc[r] = "resolving"
      /\ call[r] = "idle"
    BY DEF ResolveReject, ResolveClaim, ClaimInv, RowHeld, MayTake, NothingYet, Unclaimed,
           InTransaction
<1>2. PICK st \in {"pending", "rejected"} :
      /\ status' = [status EXCEPT ![k] = st]
      /\ stale' = stale \ {k}
      /\ call' = call /\ outcome' = outcome
      /\ \A s \in Requests \ {r} : pc'[s] = pc[s]
      /\ pc'[r] \in {"calling", "answered"}
      /\ pc'[r] = "calling" => st = "pending"
    BY DEF ResolveReject, ResolveClaim, CommitClaim, Goto, Answer
<1>3. \A s \in Requests : KeyOf[s] = k => ~ Effective(s) /\ pc[s] \notin Active
    BY <1>1 DEF WriterInv, EffectsAccounted, ExclusiveWriter
<1>4. \A x \in Keys \ {k} : status'[x] = status[x] /\ (InFlight(x)' => InFlight(x))
    BY <1>2 DEF InFlight
<1>5. status'[k] = st
    BY <1>2, StoreAssumption
<1>6. ExclusiveWriter'
    BY <1>2, <1>3, <1>4, <1>5 DEF WriterInv, ExclusiveWriter, Effective, Active
<1>7. EffectsAccounted'
    BY <1>2, <1>3, <1>4 DEF WriterInv, EffectsAccounted, Effective
<1>8. HonestFailure'
    BY <1>2 DEF WriterInv, HonestFailure, Effective
<1>9. SweepUndisturbed'
    <2>1. UNCHANGED <<todo, probed, found>>
        BY DEF reconcilerVars
    <2>2. \A c \in Reconcilers : k \notin todo[c] \cup ({probed[c]} \ {None})
        BY <1>1 DEF WriterInv, SweepUndisturbed
    <2>3. QED BY <1>2, <1>4, <2>1, <2>2 DEF WriterInv, SweepUndisturbed, byCorrelation
<1>10. QED BY <1>6, <1>7, <1>8, <1>9 DEF WriterInv

\* The call: only the key's one writer sends, and it judges its own call.
LEMMA CallStep ==
    ASSUME TypeOK, WriterInv, NEW r \in Requests,
           Send(r) \/ DialFailed(r) \/ ResponseArrives(r) \/ CallFails(r), UNCHANGED reconcilerVars
    PROVE  WriterInv'
<1> USE Shapes, SweepShapes
<1>1. /\ status' = status /\ stale' = stale
      /\ UNCHANGED <<todo, probed, found>>
      /\ \A s \in Requests \ {r} : pc'[s] = pc[s] /\ call'[s] = call[s] /\ outcome'[s] = outcome[s]
      /\ pc[r] = "calling" /\ pc'[r] \in Active
    BY DEF Send, DialFailed, ResponseArrives, CallFails, CallReturns, Goto, dbVars, handlerVars,
           reconcilerVars, Active
<1>2. \/ call'[r] = call[r]
      \/ call[r] = "idle" /\ call'[r] = "sent" /\ pc'[r] = "calling"
    BY DEF Send, DialFailed, ResponseArrives, CallFails, CallReturns, handlerVars
<1>3. /\ status[KeyOf[r]] = "pending"
      /\ \A s \in Requests \ {r} : KeyOf[s] = KeyOf[r] => pc[s] \notin Active /\ ~ Effective(s)
    BY <1>1 DEF WriterInv, ExclusiveWriter, Active
<1>4. \A x \in Keys : InFlight(x)' => InFlight(x)
    BY <1>1 DEF InFlight, Active
<1>5. \A x \in Keys : byCorrelation(x)' = byCorrelation(x)
    BY <1>1, <1>2 DEF byCorrelation
<1>6. ExclusiveWriter'
    BY <1>1, <1>3 DEF WriterInv, ExclusiveWriter, Effective, Active
<1>7. EffectsAccounted'
    BY <1>1, <1>2, <1>3 DEF WriterInv, EffectsAccounted, Effective
<1>8. HonestFailure'
    <2>1. pc'[r] = "persisting" /\ outcome'[r].status = "failed" => call'[r] \in {"idle", "declined"}
        BY <1>1 DEF Send, DialFailed, ResponseArrives, CallFails, CallReturns, ClassifiedAs,
               LostResponseOutcome, handlerVars
    <2>2. QED BY <1>1, <2>1 DEF WriterInv, HonestFailure, Effective
<1>9. SweepUndisturbed'
    BY <1>1, <1>4, <1>5 DEF WriterInv, SweepUndisturbed
<1>10. QED BY <1>6, <1>7, <1>8, <1>9 DEF WriterInv

\* A status written for key k when no handler is active on k, and failed only
\* when no call of k had an effect, disturbs no other writer.
LEMMA CompleteStep ==
    ASSUME TypeOK, WriterInv, NEW k \in Keys, NEW st \in {"done", "failed", "indeterminate"},
           status[k] = "pending", status' = [status EXCEPT ![k] = st], UNCHANGED <<stale, call>>,
           \A s \in Requests : pc'[s] \in Active =>
               pc'[s] = pc[s] /\ outcome'[s] = outcome[s] /\ KeyOf[s] # k,
           st = "failed" => \A s \in Requests : KeyOf[s] = k => ~ Effective(s)
    PROVE  /\ ExclusiveWriter' /\ EffectsAccounted' /\ HonestFailure'
           /\ \A x \in stale' : status'[x] = "pending" => ~ InFlight(x)'
           /\ \A x \in Keys \ {k} : status'[x] = status[x] /\ (InFlight(x)' => InFlight(x))
<1> USE Shapes, SweepShapes
<1>1. \A x \in Keys \ {k} : status'[x] = status[x] /\ (InFlight(x)' => InFlight(x))
    BY DEF InFlight
<1>2. status'[k] = st
    OBVIOUS
<1>3. ExclusiveWriter'
    <2> SUFFICES ASSUME NEW r \in Requests, pc'[r] \in Active
                 PROVE  /\ status'[KeyOf[r]] = "pending"
                        /\ \A s \in Requests \ {r} :
                              KeyOf[s] = KeyOf[r] => pc'[s] \notin Active /\ ~ Effective(s)'
        BY DEF ExclusiveWriter
    <2>1. pc[r] \in Active /\ KeyOf[r] \in Keys \ {k}
        BY StoreAssumption
    <2>2. QED BY <1>1, <2>1 DEF WriterInv, ExclusiveWriter, Effective
<1>4. EffectsAccounted'
    BY <1>1, <1>2 DEF WriterInv, EffectsAccounted, Effective
<1>5. HonestFailure'
    BY DEF WriterInv, HonestFailure, Effective, Active
<1>6. \A x \in stale' : status'[x] = "pending" => ~ InFlight(x)'
    BY <1>1, <1>2 DEF WriterInv, SweepUndisturbed
<1>7. QED BY <1>1, <1>3, <1>4, <1>5, <1>6

\* The outcome write: the writer ends its own claim, never a later one.
LEMMA OutcomeStep ==
    ASSUME TypeOK, WriterInv, NoBlindRetry, NEW r \in Requests,
           OutcomeWritten(r) \/ OutcomeWriteFails(r), UNCHANGED reconcilerVars
    PROVE  WriterInv'
<1> DEFINE k == KeyOf[r]
<1>1. /\ pc[r] = "persisting" /\ status[k] = "pending" /\ k \in Keys
      /\ \A s \in Requests \ {r} : KeyOf[s] = k => pc[s] \notin Active /\ ~ Effective(s)
    BY StoreAssumption DEF OutcomeWritten, OutcomeWriteFails, WriterInv, ExclusiveWriter, Active
<1>2. /\ call' = call /\ UNCHANGED <<todo, probed, found>>
      /\ \A s \in Requests \ {r} : pc'[s] = pc[s] /\ outcome'[s] = outcome[s]
    BY Shapes DEF OutcomeWritten, OutcomeWriteFails, EndCall, Answer, Goto, reconcilerVars
<1>3. CASE CompleteOutcome(r) /\ pc'[r] = "answered"
    <2>1. outcome[r].status \in {"done", "failed", "indeterminate"}
        BY <1>1 DEF TypeOK, HandlerTypeOK, Outcomes
    <2>2. status' = [status EXCEPT ![k] = outcome[r].status] /\ stale' = stale
        BY <1>1, <1>3 DEF CompleteOutcome, Complete
    <2>3. outcome[r].status = "failed" => \A s \in Requests : KeyOf[s] = k => ~ Effective(s)
        BY <1>1 DEF WriterInv, HonestFailure
    <2>4. \A s \in Requests : pc'[s] \in Active =>
              pc'[s] = pc[s] /\ outcome'[s] = outcome[s] /\ KeyOf[s] # k
        BY <1>1, <1>2, <1>3 DEF Active
    <2>5. /\ ExclusiveWriter' /\ EffectsAccounted' /\ HonestFailure'
          /\ \A x \in stale' : status'[x] = "pending" => ~ InFlight(x)'
          /\ \A x \in Keys \ {k} : status'[x] = status[x] /\ (InFlight(x)' => InFlight(x))
        BY <1>1, <1>2, <2>1, <2>2, <2>3, <2>4, CompleteStep
    <2>6. \A c \in Reconcilers : k \notin todo[c] \cup ({probed[c]} \ {None})
        BY <1>1 DEF WriterInv, SweepUndisturbed, InFlight, Active
    <2>7. SweepUndisturbed'
        BY <1>2, <2>5, <2>6, SweepShapes DEF WriterInv, SweepUndisturbed, byCorrelation
    <2>8. QED BY <2>5, <2>7 DEF WriterInv
<1>4. CASE UNCHANGED dbVars /\ pc'[r] = "answered"
    BY <1>2, <1>4, QuietStep DEF dbVars, Active
<1>5. CASE UNCHANGED dbVars /\ UNCHANGED <<pc, outcome>>
    <2>1. \A x \in Keys : InFlight(x)' = InFlight(x)
        BY <1>2, <1>5 DEF InFlight
    <2>2. QED BY <1>2, <1>5, <2>1, SweepShapes
          DEF WriterInv, ExclusiveWriter, EffectsAccounted, HonestFailure, SweepUndisturbed,
              Effective, byCorrelation, dbVars
<1>6. CASE OutcomeWritten(r)
    BY <1>3, <1>6, Shapes DEF OutcomeWritten, Answer, Goto
<1>7. CASE OutcomeWriteFails(r)
    <2>1. tries[r] > 1 => UNCHANGED dbVars /\ UNCHANGED <<pc, outcome>>
        BY <1>7 DEF OutcomeWriteFails, NoBlindRetry, TypeOK, HandlerTypeOK
    <2>2. ~ (tries[r] > 1) => pc'[r] = "answered" /\ (UNCHANGED dbVars \/ CompleteOutcome(r))
        BY <1>7, Shapes DEF OutcomeWriteFails, Answer, Goto
    <2>3. QED BY <1>3, <1>4, <1>5, <2>1, <2>2
<1>8. QED BY <1>6, <1>7

-----------------------------------------------------------------------------
\* The sweep: with one reconciler nobody settles a candidate under its hands,
\* so what it found out still holds when it writes it down.
LEMMA SweepStep ==
    ASSUME TypeOK, WriterInv, OneReconciler, NEW c \in Reconcilers,
           ReconcilerStep(c) \/ Restart(c), UNCHANGED handlerVars
    PROVE  WriterInv'
<1>1. \A d \in Reconcilers : d = c
    BY DEF OneReconciler
<1>2. /\ call' = call /\ pc' = pc /\ outcome' = outcome
      /\ \A x \in Keys : InFlight(x)' = InFlight(x) /\ byCorrelation(x)' = byCorrelation(x)
    BY DEF ReconcilerStep, Select, Escalate, Probe, ProbeFails, Resolve, ResolveFails, Restart,
           handlerVars, InFlight, byCorrelation
<1>3. /\ todo \in [Reconcilers -> SUBSET Keys]
      /\ probed \in [Reconcilers -> Keys \cup {None}]
      /\ found \in [Reconcilers -> {"unknown", "executed", "not_executed"}]
      /\ stale \in SUBSET Keys
    BY SweepShapes
<1>4. ASSUME UNCHANGED dbVars,
             \A k \in todo'[c] \cup ({probed'[c]} \ {None}) :
                 k \in Keys /\ status[k] = "pending" /\ ~ InFlight(k),
             probed'[c] \notin todo'[c],
             probed'[c] # None /\ found'[c] # "executed" => byCorrelation(probed'[c]) = {}
      PROVE  WriterInv'
    <2>1. ExclusiveWriter' /\ EffectsAccounted' /\ HonestFailure'
        BY <1>2, <1>4 DEF WriterInv, ExclusiveWriter, EffectsAccounted, HonestFailure, Effective,
                          dbVars
    <2>2. SweepUndisturbed'
        BY <1>1, <1>2, <1>3, <1>4 DEF WriterInv, SweepUndisturbed, dbVars
    <2>3. QED BY <2>1, <2>2 DEF WriterInv
<1>5. ASSUME NEW k \in Keys, NEW st \in {"done", "failed", "indeterminate"}, NEW body,
             status[k] = "pending", ~ InFlight(k), Complete(k, st, body),
             st = "failed" => byCorrelation(k) = {},
             todo'[c] \subseteq todo[c] \ {k}, probed'[c] = None
      PROVE  WriterInv'
    <2>1. status' = [status EXCEPT ![k] = st] /\ stale' = stale
        BY <1>5 DEF Complete
    <2>2. st = "failed" => \A s \in Requests : KeyOf[s] = k => ~ Effective(s)
        BY <1>5 DEF byCorrelation, InFlight, Effective
    <2>3. \A s \in Requests : pc'[s] \in Active =>
              pc'[s] = pc[s] /\ outcome'[s] = outcome[s] /\ KeyOf[s] # k
        BY <1>2, <1>5 DEF InFlight
    <2>4. /\ ExclusiveWriter' /\ EffectsAccounted' /\ HonestFailure'
          /\ \A x \in stale' : status'[x] = "pending" => ~ InFlight(x)'
          /\ \A x \in Keys \ {k} : status'[x] = status[x] /\ (InFlight(x)' => InFlight(x))
        BY <1>2, <1>5, <2>1, <2>2, <2>3, CompleteStep
    <2>5. SweepUndisturbed'
        BY <1>1, <1>2, <1>3, <1>5, <2>4, StoreAssumption DEF WriterInv, SweepUndisturbed
    <2>6. QED BY <2>4, <2>5 DEF WriterInv
<1>6. CASE Select(c)
    <2>1. probed'[c] = None /\ todo'[c] \subseteq StaleKeys
        BY <1>3, <1>6 DEF Select
    <2>2. QED BY <1>3, <1>4, <1>6, <2>1, StoreAssumption
          DEF Select, StaleKeys, WriterInv, SweepUndisturbed
<1>7. CASE Escalate(c)
    <2>1. PICK k \in todo[c] : Complete(k, "indeterminate", "none") /\ Dropped(c, k)
        BY <1>7 DEF Escalate
    <2>2. status[k] = "pending" /\ ~ InFlight(k)
        BY DEF WriterInv, SweepUndisturbed
    <2>3. todo'[c] \subseteq todo[c] \ {k} /\ probed'[c] = None
        BY <1>3, <1>7, <2>1 DEF Escalate, Dropped
    <2>4. QED BY <1>3, <1>5, <2>1, <2>2, <2>3
<1>8. CASE Probe(c)
    <2>1. PICK k \in todo[c] :
              /\ probed' = [probed EXCEPT ![c] = k]
              /\ found' = [found EXCEPT ![c] =
                              IF byCorrelation(k) = {} THEN "not_executed" ELSE "executed"]
              /\ Dropped(c, k)
        BY <1>8 DEF Probe
    <2>2. UNCHANGED dbVars
        BY <1>8 DEF Probe
    <2>3. probed'[c] = k /\ todo'[c] = todo[c] \ {k}
          /\ (found'[c] # "executed" => byCorrelation(k) = {})
        BY <1>3, <2>1 DEF Dropped
    <2>4. QED BY <1>3, <1>4, <2>2, <2>3 DEF WriterInv, SweepUndisturbed
<1>9. CASE ProbeFails(c)
    <2>1. UNCHANGED <<probed, found>> /\ UNCHANGED dbVars /\ todo'[c] \subseteq todo[c]
        BY <1>3, <1>9 DEF ProbeFails, Dropped
    <2>2. QED BY <1>3, <1>4, <2>1 DEF WriterInv, SweepUndisturbed
<1>10. CASE Resolve(c)
    <2>1. probed[c] \in Keys /\ status[probed[c]] = "pending" /\ ~ InFlight(probed[c])
        BY <1>3, <1>10 DEF Resolve, WriterInv, SweepUndisturbed
    <2>2. ResolvedStatus(found[c]) = "failed" => byCorrelation(probed[c]) = {}
        BY <1>10 DEF Resolve, ResolvedStatus, WriterInv, SweepUndisturbed
    <2>3. todo'[c] \subseteq todo[c] \ {probed[c]} /\ probed'[c] = None
        BY <1>3, <1>10 DEF Resolve, Settled, WriterInv, SweepUndisturbed
    <2>4. ResolvedStatus(found[c]) \in {"done", "failed", "indeterminate"}
        BY DEF ResolvedStatus
    <2>5. Complete(probed[c], ResolvedStatus(found[c]), ResolvedBody(found[c]))
        BY <1>10 DEF Resolve
    <2>6. QED BY <1>5, <2>1, <2>2, <2>3, <2>4, <2>5
<1>11. CASE ResolveFails(c) \/ Restart(c)
    <2>1. probed'[c] = None /\ todo'[c] \subseteq todo[c] /\ UNCHANGED dbVars
        BY <1>3, <1>11 DEF ResolveFails, Restart, Settled
    <2>2. QED BY <1>3, <1>4, <2>1, StoreAssumption DEF WriterInv, SweepUndisturbed
<1>12. QED BY <1>6, <1>7, <1>8, <1>9, <1>10, <1>11 DEF ReconcilerStep

\* Time and the downstream: a call that settles stays one call, and a key is
\* stale only when its writer is gone.
LEMMA EnvironmentStep ==
    ASSUME TypeOK, WriterInv, Environment
    PROVE  WriterInv'
<1> USE Shapes, SweepShapes
<1>1. ASSUME NEW r \in Requests, DownstreamStep(r), UNCHANGED <<dbVars, handlerVars, reconcilerVars>>
      PROVE  WriterInv'
    <2>1. /\ UNCHANGED <<status, stale, pc, outcome, todo, probed, found>>
          /\ \A s \in Requests \ {r} : call'[s] = call[s]
          /\ call[r] = "sent" /\ call'[r] \in {"executed", "declined"}
        BY <1>1 DEF DownstreamStep, ExecuteCall, DeclineCall, dbVars, handlerVars, reconcilerVars
    <2>2. \A s \in Requests : Effective(s)' => Effective(s)
        BY <2>1 DEF Effective
    <2>3. \A k \in Keys : /\ InFlight(k)' => InFlight(k)
                          /\ ~ InFlight(k) => byCorrelation(k)' = byCorrelation(k)
        BY <2>1 DEF InFlight, byCorrelation
    <2>4. ExclusiveWriter' /\ EffectsAccounted' /\ HonestFailure'
        BY <2>1, <2>2 DEF WriterInv, ExclusiveWriter, EffectsAccounted, HonestFailure
    <2>5. SweepUndisturbed'
        BY <2>1, <2>3 DEF WriterInv, SweepUndisturbed
    <2>6. QED BY <2>4, <2>5 DEF WriterInv
<1>2. ASSUME UNCHANGED <<status, call, pc, outcome, todo, probed, found>>,
             \A k \in stale' \ stale : k \in Keys /\ ~ InFlight(k)
      PROVE  WriterInv'
    <2>1. \A k \in Keys : InFlight(k)' = InFlight(k) /\ byCorrelation(k)' = byCorrelation(k)
        BY <1>2 DEF InFlight, byCorrelation
    <2>2. ExclusiveWriter' /\ EffectsAccounted' /\ HonestFailure'
        BY <1>2 DEF WriterInv, ExclusiveWriter, EffectsAccounted, HonestFailure, Effective
    <2>3. SweepUndisturbed'
        BY <1>2, <2>1 DEF WriterInv, SweepUndisturbed
    <2>4. QED BY <2>2, <2>3 DEF WriterInv
<1>3. QED
    BY <1>1, <1>2 DEF Environment, LeaveWindow, BecomeStale, StaleDue, rowVars, handlerVars,
                      reconcilerVars

\* Every step of the system keeps a claimed key with its one writer.
LEMMA WriterStep ==
    ASSUME OneReconciler, NoBlindRetry
    PROVE  TypeOK /\ ClaimInv /\ WriterInv /\ [Next]_vars => WriterInv'
<1> SUFFICES ASSUME TypeOK, ClaimInv, WriterInv, [Next]_vars PROVE WriterInv'
    OBVIOUS
<1>1. ASSUME NEW r \in Requests, HandlerStep(r) \/ ClaimError(r) \/ Crash(r),
             UNCHANGED reconcilerVars
      PROVE  WriterInv'
    <2>1. \A s \in Requests \ {r} : pc'[s] = pc[s] /\ outcome'[s] = outcome[s]
        BY <1>1, HandlerEffect
    <2>2. ASSUME pc'[r] \notin Active, UNCHANGED <<status, stale, call>>
          PROVE  WriterInv'
        BY <1>1, <2>1, <2>2, QuietStep DEF reconcilerVars
    <2> USE Shapes DEF Goto, Answer, Active
    <2>3. CASE Refuse(r) \/ Admit(r) \/ WaitResolved(r) \/ WaitExpired(r) \/ lockResource(r)
        BY <2>2, <2>3 DEF Refuse, Admit, WaitResolved, WaitExpired, BeginTransaction, lockResource,
                          dbVars
    <2>4. CASE LockTimeout(r) \/ ClaimMismatch(r) \/ ClaimError(r)
        BY <2>2, <2>4 DEF LockTimeout, ClaimMismatch, ClaimError, Rollback, rowVars
    <2>5. CASE ClaimExisting(r) \/ ClaimFresh(r) \/ ResolveSerialize(r)
        BY <2>2, <2>5 DEF ClaimExisting, ClaimFresh, ResolveSerialize, Rollback, rowVars, dbVars
    <2>6. CASE PollResolved(r) \/ PollExpired(r) \/ Crash(r)
        BY <2>2, <2>6 DEF PollResolved, PollExpired, Crash, Rollback, rowVars, dbVars
    <2>7. QED
        BY <1>1, <2>3, <2>4, <2>5, <2>6, CommitStep, CallStep, OutcomeStep DEF HandlerStep
<1>2. CASE UNCHANGED vars
    <2>1. UNCHANGED <<status, stale, call, pc, outcome, todo, probed, found>>
        BY <1>2 DEF vars, dbVars, handlerVars, reconcilerVars
    <2>2. QED BY <2>1 DEF WriterInv, ExclusiveWriter, EffectsAccounted, HonestFailure,
                          SweepUndisturbed, Effective, InFlight, byCorrelation
<1>3. QED BY <1>1, <1>2, SweepStep, EnvironmentStep DEF Next

\* With one reconciler and no blind repetition of an outcome write, a claimed
\* key has one writer and every effect downstream is accounted for.
THEOREM OneWriter ==
    ASSUME OneReconciler, NoBlindRetry
    PROVE  Spec => []WriterInv
<1>1. Init => WriterInv
    BY DEF Init, StoreInit, DownstreamInit, HandlerInit, ReconcilerInit, WriterInv, ExclusiveWriter,
           EffectsAccounted, HonestFailure, SweepUndisturbed, Effective, Active
<1>2. TypeOK /\ ClaimInv /\ WriterInv /\ [Next]_vars => WriterInv'
    BY WriterStep
<1>3. QED BY <1>1, <1>2, ClaimInvariant, PTL DEF Spec

\* A key is executed downstream at most once, over any number of deliveries,
\* retries, crashes, timeouts and sweeps.
THEOREM AtMostOnceCorrect ==
    ASSUME OneReconciler, NoBlindRetry
    PROVE  Spec => []AtMostOnce
<1>1. WriterInv => AtMostOnce
    BY DEF WriterInv, EffectsAccounted, Effective, AtMostOnce
<1>2. QED BY <1>1, OneWriter, PTL

\* A key that is failed or rejected was not executed and will not be by a call
\* already under way: a client told to retry can do so.
THEOREM FailedNeverExecutedCorrect ==
    ASSUME OneReconciler, NoBlindRetry
    PROVE  Spec => []FailedNeverExecuted
<1>1. WriterInv => FailedNeverExecuted
    BY DEF WriterInv, EffectsAccounted, Effective, FailedNeverExecuted
<1>2. QED BY <1>1, OneWriter, PTL

-----------------------------------------------------------------------------
\* A step makes a call, settles one, or leaves the calls alone; only in the last
\* case may it change a row.
LEMMA CallKinds ==
    ASSUME TypeOK, [Next]_vars
    PROVE  \/ call' = call
           \/ /\ UNCHANGED <<status, pc, outcome>>
              /\ \E r \in Requests :
                    \/ pc[r] = "calling" /\ call[r] = "idle" /\ call' = [call EXCEPT ![r] = "sent"]
                    \/ call[r] = "sent" /\ call' = [call EXCEPT ![r] = "executed"]
                    \/ call[r] = "sent" /\ call' = [call EXCEPT ![r] = "declined"]
<1>1. ASSUME NEW r \in Requests, HandlerStep(r) \/ ClaimError(r) \/ Crash(r), ~ Send(r)
      PROVE  call' = call
    BY <1>1 DEF HandlerStep, Refuse, Admit, lockResource, LockTimeout, ClaimMismatch, ClaimExisting,
        ClaimFresh, ResolveSerialize, ResolveReject, ResolveClaim, ClaimError, WaitResolved,
        WaitExpired, PollResolved, PollExpired, DialFailed, ResponseArrives, CallFails, CallReturns,
        OutcomeWritten, OutcomeWriteFails, Crash
<1>2. ASSUME NEW c \in Reconcilers, ReconcilerStep(c) \/ Restart(c)
      PROVE  call' = call
    BY <1>2 DEF ReconcilerStep, Select, Escalate, Probe, ProbeFails, Resolve, ResolveFails, Restart
<1>3. CASE Environment
    BY <1>3 DEF Environment, DownstreamStep, ExecuteCall, DeclineCall, dbVars, handlerVars
<1>4. CASE \E r \in Requests : Send(r)
    BY <1>4 DEF Send, dbVars, handlerVars
<1>5. CASE UNCHANGED vars
    BY <1>5 DEF vars
<1>6. QED BY <1>1, <1>2, <1>3, <1>4, <1>5 DEF Next

\* Who completes a row with done knows that no call of its key is on its way.
LEMMA DoneStep ==
    ASSUME TypeOK, ClaimInv, WriterInv, SettledQuiet, [Next]_vars, NEW k \in Keys,
           status[k] # "done", status'[k] = "done"
    PROVE  \A s \in Requests : KeyOf[s] = k => call[s] # "sent"
<1> USE Shapes, SweepShapes
<1>1. ASSUME NEW r \in Requests, ResolveReject(r) \/ ResolveClaim(r)
      PROVE  FALSE
    BY <1>1, ClaimCommits
<1>2. ASSUME NEW r \in Requests, HandlerStep(r) \/ ClaimError(r) \/ Crash(r)
      PROVE  \A s \in Requests : KeyOf[s] = k => call[s] # "sent"
    <2>1. pc[r] = "persisting" /\ Complete(KeyOf[r], outcome[r].status, outcome[r].body)
        BY <1>1, <1>2, HandlerRows DEF CompleteOutcome
    <2>2. k = KeyOf[r] /\ outcome[r].status = "done"
        BY <2>1 DEF Complete, dbVars
    <2>3. QED BY <2>1, <2>2 DEF SettledQuiet, WriterInv, ExclusiveWriter, Active, Effective
<1>3. ASSUME NEW c \in Reconcilers, ReconcilerStep(c) \/ Restart(c)
      PROVE  \A s \in Requests : KeyOf[s] = k => call[s] # "sent"
    <2>1. \/ UNCHANGED status
          \/ \E x \in todo[c] : Complete(x, "indeterminate", "none")
          \/ Resolve(c)
        BY <1>3 DEF ReconcilerStep, Select, Escalate, Probe, ProbeFails, ResolveFails, Restart, dbVars
    <2>2. Resolve(c) /\ probed[c] = k
        BY <2>1 DEF Resolve, Complete, dbVars
    <2>3. ~ InFlight(k)
        BY <2>2, StoreAssumption DEF WriterInv, SweepUndisturbed
    <2>4. QED BY <2>3 DEF InFlight
<1>4. CASE Environment \/ UNCHANGED vars
    BY <1>4 DEF Environment, LeaveWindow, BecomeStale, dbVars, rowVars, vars
<1>5. QED BY <1>2, <1>3, <1>4 DEF Next

\* No step puts a call of a done key on its way.
LEMMA SettledQuietStep ==
    TypeOK /\ ClaimInv /\ WriterInv /\ SettledQuiet /\ [Next]_vars => SettledQuiet'
<1> SUFFICES ASSUME TypeOK, ClaimInv, WriterInv, SettledQuiet, [Next]_vars PROVE SettledQuiet'
    OBVIOUS
<1> USE Shapes
<1>1. ASSUME NEW s \in Requests, call'[s] = "sent", call[s] # "sent"
      PROVE  UNCHANGED <<status, pc, outcome>> /\ pc[s] = "calling" /\ status[KeyOf[s]] = "pending"
    <2>1. UNCHANGED <<status, pc, outcome>> /\ pc[s] = "calling"
        BY <1>1, CallKinds
    <2>2. QED BY <2>1 DEF WriterInv, ExclusiveWriter, Active
<1>2. ASSUME NEW s \in Requests, status'[KeyOf[s]] = "done"
      PROVE  call'[s] # "sent"
    <2>1. KeyOf[s] \in Keys
        BY StoreAssumption
    <2>2. call[s] # "sent"
        <3>1. CASE status[KeyOf[s]] = "done"
            BY <3>1 DEF SettledQuiet
        <3>2. CASE status[KeyOf[s]] # "done"
            BY <1>2, <2>1, <3>2, DoneStep
        <3>3. QED BY <3>1, <3>2
    <2>3. QED BY <1>1, <1>2, <2>2
<1>3. ASSUME NEW s \in Requests, pc'[s] = "persisting", outcome'[s].status = "done"
      PROVE  call'[s] # "sent"
    <2>1. CASE pc[s] = "persisting" /\ outcome'[s] = outcome[s]
        BY <1>1, <1>3, <2>1 DEF SettledQuiet
    <2>2. CASE ~ (pc[s] = "persisting" /\ outcome'[s] = outcome[s])
        <3>1. HandlerStep(s) \/ ClaimError(s) \/ Crash(s)
            BY <1>3, <2>2, HandlerEffect, OutsideStep DEF Next, handlerVars
        <3>2. DialFailed(s) \/ ResponseArrives(s) \/ CallFails(s)
            <4> USE DEF Goto, Answer
            <4>1. CASE OutcomeWriteFails(s)
                BY <1>3, <2>2, <4>1 DEF OutcomeWriteFails
            <4>2. CASE Send(s)
                BY <1>3, <2>2, <4>2 DEF Send, handlerVars
            <4>3. QED
                BY <1>3, <3>1, <4>1, <4>2 DEF HandlerStep, Refuse, Admit, lockResource, LockTimeout,
                    ClaimMismatch, ClaimExisting, ClaimFresh, ResolveSerialize, ResolveReject,
                    ResolveClaim, ClaimError, WaitResolved, WaitExpired, BeginTransaction,
                    PollResolved, PollExpired, OutcomeWritten, Crash
        <3>3. QED BY <1>3, <3>2 DEF DialFailed, ResponseArrives, CallFails, CallReturns,
                                    LostResponseOutcome
    <2>3. QED BY <2>1, <2>2
<1>4. QED BY <1>2, <1>3 DEF SettledQuiet

\* A row that changes takes its key one step of the promise.
LEMMA RowRefines ==
    ASSUME TypeOK, WriterInv, WriterInv', NEW k \in Keys, NEW st, status' = [status EXCEPT ![k] = st],
           \/ status[k] \in {"absent", "failed"} /\ st \in {"pending", "rejected"}
           \/ status[k] = "pending" /\ st \in {"done", "failed", "indeterminate"},
           call' = call
    PROVE  Key!Step(k)
<1> DEFINE state == [x \in Keys |-> KeyState(x)]
           effects == [x \in Keys |-> byCorrelation(x)]
<1> USE Shapes
<1>1. status'[k] = st /\ \A x \in Keys \ {k} : status'[x] = status[x]
    OBVIOUS
<1>2. state' = [state EXCEPT ![k] = KeyState(k)'] /\ state'[k] = KeyState(k)'
    BY <1>1 DEF KeyState
<1>3. effects' = effects
    BY DEF byCorrelation
<1>4. status[k] \in {"absent", "failed"} \/ status'[k] = "failed" => effects[k] = {}
    BY DEF WriterInv, EffectsAccounted, Effective, byCorrelation
<1>5. CASE status[k] \in {"absent", "failed"} /\ st = "pending"
    <2>1. state[k] = "free" /\ KeyState(k)' = "owned"
        BY <1>1, <1>5 DEF KeyState
    <2>2. Key!Claim(k)
        BY <1>2, <1>3, <1>4, <1>5, <2>1 DEF Key!Claim, Key!Move
    <2>3. QED BY <2>2 DEF Key!Step
<1>6. CASE status[k] \in {"absent", "failed"} /\ st = "rejected"
    <2>1. state[k] = "free" /\ KeyState(k)' = "rejected"
        BY <1>1, <1>6 DEF KeyState
    <2>2. Key!Reject(k)
        BY <1>2, <1>3, <1>4, <1>6, <2>1 DEF Key!Reject, Key!Move
    <2>3. QED BY <2>2 DEF Key!Step
<1>7. CASE status[k] = "pending" /\ st = "failed"
    <2>1. state[k] = "owned" /\ KeyState(k)' = "free"
        BY <1>1, <1>7 DEF KeyState
    <2>2. Key!Release(k)
        BY <1>1, <1>2, <1>3, <1>4, <1>7, <2>1 DEF Key!Release, Key!Move
    <2>3. QED BY <2>2 DEF Key!Step
<1>8. CASE status[k] = "pending" /\ st \in {"done", "indeterminate"}
    <2>1. state[k] = "owned" /\ KeyState(k)' = st
        BY <1>1, <1>8 DEF KeyState
    <2>2. Key!Settle(k) \/ Key!GiveUp(k)
        BY <1>2, <1>3, <1>8, <2>1 DEF Key!Settle, Key!GiveUp, Key!Move
    <2>3. QED BY <2>2 DEF Key!Step
<1>9. QED BY <1>5, <1>6, <1>7, <1>8

\* The execution of a call is the one effect of a key that is owned or given up.
LEMMA EffectRefines ==
    ASSUME TypeOK, WriterInv, SettledQuiet, NEW r \in Requests, call[r] = "sent",
           call' = [call EXCEPT ![r] = "executed"], status' = status
    PROVE  Key!Step(KeyOf[r])
<1> DEFINE k == KeyOf[r]
           state == [x \in Keys |-> KeyState(x)]
           effects == [x \in Keys |-> byCorrelation(x)]
<1> USE Shapes
<1>1. k \in Keys
    BY StoreAssumption
<1>2. state' = state
    BY DEF KeyState
<1>3. status[k] \in {"pending", "indeterminate"}
    <2>1. status[k] \in Statuses
        BY <1>1 DEF TypeOK, StoreTypeOK
    <2>2. status[k] \notin {"absent", "failed", "rejected", "done"}
        BY DEF WriterInv, EffectsAccounted, Effective, SettledQuiet
    <2>3. QED BY <2>1, <2>2 DEF Statuses
<1>4. state[k] \in {"owned", "indeterminate"}
    BY <1>1, <1>3 DEF KeyState
<1>5. effects[k] = {} /\ byCorrelation(k)' = {r}
    BY <1>1 DEF WriterInv, EffectsAccounted, Effective, byCorrelation
<1>6. \A x \in Keys \ {k} : byCorrelation(x)' = byCorrelation(x)
    BY DEF byCorrelation
<1>7. effects' = [effects EXCEPT ![k] = {r}]
    BY <1>1, <1>5, <1>6
<1>8. Key!TakeEffect(k)
    BY <1>1, <1>2, <1>4, <1>5, <1>7 DEF Key!TakeEffect
<1>9. QED BY <1>8 DEF Key!Step

\* Every step of the write path is a step of the promise of one key, or none.
LEMMA KeyRefines ==
    ASSUME TypeOK, ClaimInv, WriterInv, WriterInv', SettledQuiet, [Next]_vars
    PROVE  [Key!Next]_(Key!vars)
<1> USE Shapes
<1>1. ASSUME status' = status, \A x \in Keys : byCorrelation(x)' = byCorrelation(x)
      PROVE  UNCHANGED Key!vars
    BY <1>1 DEF Key!vars, KeyState
<1>2. CASE call' = call
    <2>1. ASSUME NEW r \in Requests, ResolveReject(r) \/ ResolveClaim(r)
          PROVE  Key!Next
        <3>1. KeyOf[r] \in Keys
            BY StoreAssumption
        <3>2. PICK st \in {"pending", "rejected"} :
                  MayTake(r) /\ status' = [status EXCEPT ![KeyOf[r]] = st]
            BY <2>1, ClaimCommits
        <3>3. status[KeyOf[r]] \in {"absent", "failed"}
            BY <3>2 DEF MayTake
        <3>4. Key!Step(KeyOf[r])
            BY <1>2, <3>1, <3>2, <3>3, RowRefines
        <3>5. QED BY <3>1, <3>4 DEF Key!Next
    <2>2. ASSUME NEW k \in Keys, NEW st \in {"done", "failed", "indeterminate"}, NEW body,
                 Complete(k, st, body), status[k] = "pending"
          PROVE  Key!Next
        <3>1. status' = [status EXCEPT ![k] = st]
            BY <2>2 DEF Complete
        <3>2. Key!Step(k)
            BY <1>2, <2>2, <3>1, RowRefines
        <3>3. QED BY <3>2 DEF Key!Next
    <2>3. CASE status' = status
        <3>1. \A x \in Keys : byCorrelation(x)' = byCorrelation(x)
            BY <1>2 DEF byCorrelation
        <3>2. QED BY <1>1, <2>3, <3>1
    <2>4. \A k, st, body : Complete(k, st, body) /\ status[k] # "pending" => status' = status
        BY DEF Complete, dbVars
    <2>5. QED BY <2>1, <2>2, <2>3, <2>4, RowStep
<1>3. ASSUME status' = status, NEW r \in Requests,
             \/ call[r] = "idle" /\ call' = [call EXCEPT ![r] = "sent"]
             \/ call[r] = "sent" /\ call' = [call EXCEPT ![r] = "declined"]
      PROVE  UNCHANGED Key!vars
    <2>1. \A x \in Keys : byCorrelation(x)' = byCorrelation(x)
        BY <1>3 DEF byCorrelation
    <2>2. QED BY <1>1, <1>3, <2>1
<1>4. ASSUME status' = status, NEW r \in Requests, call[r] = "sent",
             call' = [call EXCEPT ![r] = "executed"]
      PROVE  Key!Next
    <2>1. KeyOf[r] \in Keys /\ Key!Step(KeyOf[r])
        BY <1>4, EffectRefines, StoreAssumption
    <2>2. QED BY <2>1 DEF Key!Next
<1>5. QED BY <1>2, <1>3, <1>4, CallKinds

\* The write path implements the promise of IdempotentKey, with one reconciler
\* and no blind repetition of an outcome write.
THEOREM ImplementsKeyCorrect ==
    ASSUME OneReconciler, NoBlindRetry
    PROVE  Spec => ImplementsKey
<1>1. Init => Key!Init
    BY DEF Init, StoreInit, DownstreamInit, Key!Init, KeyState, byCorrelation
<1>2. Init => SettledQuiet
    BY DEF Init, DownstreamInit, SettledQuiet
<1>3. TypeOK /\ ClaimInv /\ WriterInv /\ WriterInv' /\ SettledQuiet /\ [Next]_vars
          => [Key!Next]_(Key!vars)
    BY KeyRefines
<1>4. QED BY <1>1, <1>2, <1>3, SettledQuietStep, ClaimInvariant, OneWriter, PTL
          DEF Spec, ImplementsKey, Key!Spec
=============================================================================
