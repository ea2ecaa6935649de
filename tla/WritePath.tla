------------------------------ MODULE WritePath ------------------------------
(***************************************************************************)
(* The write path whole: handlers, the downstream and the reconciler over  *)
(* one database, and the passage of time between them.                     *)
(***************************************************************************)
EXTENDS WriteHandler, Reconciler

vars == <<dbVars, call, handlerVars, reconcilerVars>>

TypeOK ==
    StoreTypeOK /\ DownstreamTypeOK /\ HandlerTypeOK /\ ReconcilerTypeOK

Init ==
    StoreInit /\ DownstreamInit /\ HandlerInit /\ ReconcilerInit

\* A handler of key k is between its claim and its last outcome write.
InFlight(k) ==
    \E r \in Requests : KeyOf[r] = k /\ (pc[r] \in Active \/ call[r] = "sent")

\* A claim is stale only when its handler has finished or died and its call is
\* settled.  Config.Validate keeps reconcile.stale_after at three call budgets
\* or more; that the lock wait before the call and the outcome writes after it
\* fit into the rest is assumed here, Validate does not count them.
StaleDue(k) == status[k] = "pending" /\ ~ InFlight(k)

BecomeStale(k) ==
    /\ StaleDue(k) /\ k \notin stale
    /\ stale' = stale \cup {k}
    /\ UNCHANGED <<status, hash, attempt, result, intents, aged, conflicts>>

Environment ==
    \/ \E r \in Requests : DownstreamStep(r) /\ UNCHANGED <<dbVars, handlerVars, reconcilerVars>>
    \/ \E i \in Requests : LeaveWindow(i) /\ UNCHANGED <<call, handlerVars, reconcilerVars>>
    \/ \E k \in Keys : BecomeStale(k) /\ UNCHANGED <<call, handlerVars, reconcilerVars>>

Next ==
    \/ \E r \in Requests : (HandlerStep(r) \/ ClaimError(r) \/ Crash(r)) /\ UNCHANGED reconcilerVars
    \/ \E c \in Reconcilers : (ReconcilerStep(c) \/ Restart(c)) /\ UNCHANGED handlerVars
    \/ Environment

Spec == Init /\ [][Next]_vars

\* A request that has arrived keeps running until it ends or its process dies:
\* every wait in the handler has a deadline.  Calls settle and time passes.  A
\* reconciler ticks; a probe and an outcome write that are tried over and over
\* succeed at last, however often they fail or the reconciler restarts.
Fairness ==
    /\ \A r \in Requests :
          /\ WF_vars(pc[r] # "received" /\ HandlerStep(r) /\ UNCHANGED reconcilerVars)
          /\ WF_vars(DownstreamStep(r) /\ UNCHANGED <<dbVars, handlerVars, reconcilerVars>>)
    /\ \A k \in Keys : WF_vars(BecomeStale(k) /\ UNCHANGED <<call, handlerVars, reconcilerVars>>)
    /\ \A c \in Reconcilers :
          /\ WF_vars(Select(c) /\ UNCHANGED handlerVars)
          /\ SF_vars((Probe(c) \/ Escalate(c)) /\ UNCHANGED handlerVars)
          /\ SF_vars(Resolve(c) /\ UNCHANGED handlerVars)

FairSpec == Spec /\ Fairness

-----------------------------------------------------------------------------
(* What the write path promises.                                           *)

\* What a call comes to: the downstream did it or turned it down.
Settlements == {"executed", "declined"}

\* One execution per (agent_id, idempotency_key): no two requests for one key
\* are both executed downstream, whatever retries, crashes and sweeps happen.
AtMostOnce ==
    \A r, s \in Requests :
        KeyOf[r] = KeyOf[s] /\ call[r] = "executed" /\ call[s] = "executed" => r = s

\* A failed key may be claimed again because nothing reached the downstream:
\* while a key is failed (or rejected, which only a claim of a new or failed
\* key can make it) no call of it was executed and none is still on its way.
FailedNeverExecuted ==
    \A r \in Requests :
        status[KeyOf[r]] \in {"failed", "rejected"} => call[r] \notin {"sent", "executed"}

\* voided_at against status: a key that is pending, done or indeterminate has
\* exactly one live intent in the conflict window, any other key has none.
\* Complete and the claim keep the two tables together over every history.
LiveIntentPerKey ==
    \A k \in Keys :
        IF status[k] \in {"pending", "done", "indeterminate"}
        THEN \E i \in Requests : LiveIntents(k) = {i}
        ELSE LiveIntents(k) = {}

\* Enforcement: of two conflicting enforced writes that are both in the window,
\* writes of different agents are never both live, and writes of one agent are
\* never both pending.  This is what the lock before the window query buys.
ConflictsExcluded ==
    \A i, j \in Enforced :
        /\ i # j /\ Resource(i) = Resource(j)
        /\ intents[i] = "live" /\ intents[j] = "live"
        /\ i \notin aged /\ j \notin aged
        /\ ~ Compatible(Declared[BodyOf[i]], Declared[BodyOf[j]])
        => /\ Agent(i) = Agent(j)
           /\ ~ (status[KeyOf[i]] = "pending" /\ status[KeyOf[j]] = "pending")

\* A key executes only the body it was first claimed with: every call that
\* left a handler carries the request_hash stored on its key.
OnlyTheClaimedBody ==
    \A r \in Requests : call[r] # "idle" => hash[KeyOf[r]] = BodyOf[r]

\* "No claim was made and nothing was sent downstream" is true, for good, of the
\* request that got that 503, and of one refused or answered 422.  A 409 and a
\* 503 downstream_unreachable promise that this request did not take effect.
NotExecutedIsTrue ==
    \A r \in Requests :
        /\ answer[r] \in {"refused", "mismatch", "not_executed"}
               => intents[r] = "none" /\ call[r] = "idle"
        /\ answer[r] \in {"conflict", "unreachable"} => call[r] \notin {"sent", "executed"}

\* A success is never made up.  A 201 is for a call that the downstream settled;
\* a replay is of a call that it settled for the same key and the same body,
\* whichever of a handler, a sweep or an earlier claim brought the key to done.
SuccessIsTrue ==
    \A r \in Requests :
        /\ answer[r] = "created" => call[r] \in Settlements
        /\ answer[r] = "replayed" =>
              \E s \in Requests :
                  KeyOf[s] = KeyOf[r] /\ BodyOf[s] = BodyOf[r] /\ call[s] \in Settlements

\* No key stays pending for ever: whatever handler died or failed to write its
\* outcome, a sweep settles the key, so a client polling it gets an answer.
PendingSettles == \A k \in Keys : status[k] = "pending" ~> status[k] # "pending"

\* In the end every request that reached the claim is answered or its process
\* died: no cycle of locks and unfinished inserts holds one for ever.
\* (Requests are finitely many, and each is made once.)
EveryRequestEnds ==
    <>[](\A r \in Requests : pc[r] \in {"received", "answered", "crashed"})
=============================================================================
