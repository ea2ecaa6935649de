---------------------------- MODULE WritePathInv ----------------------------
(***************************************************************************)
(* The inductive invariants behind the promises of WritePath.  They say    *)
(* who may touch a key's row at each point of the protocol.                *)
(***************************************************************************)
EXTENDS WritePath

\* Program points before a request's claim commits.
Unclaimed == {"received", "waiting", "polling"} \cup InTransaction

\* A call that has had, or may still have, an effect downstream.
Effective(r) == call[r] \in {"sent", "executed"}

-----------------------------------------------------------------------------
(* The claim transaction.                                                  *)

\* From lockResource to the end of its transaction a request holds the
\* advisory lock of its resource.
LockHeld == \A r \in Requests : pc[r] \in {"locked", "resolving"} => lock[Resource(r)] = r

\* Before its claim commits a request has left no intent and no call.
NothingYet == \A r \in Requests : pc[r] \in Unclaimed => intents[r] = "none" /\ call[r] = "idle"

\* Between claimKey and the commit the row stays as claimKey found it, and no
\* second transaction is in that stretch for the same key.
RowHeld ==
    /\ \A r \in Requests : pc[r] = "resolving" => MayTake(r)
    /\ \A r, s \in Requests :
          KeyOf[r] = KeyOf[s] /\ pc[r] = "resolving" /\ pc[s] = "resolving" => r = s

\* The claim transaction is exclusive: until its commit nobody else changes the
\* row Claim found, and a request that has not committed has left no trace.
ClaimInv == LockHeld /\ NothingYet /\ RowHeld

-----------------------------------------------------------------------------
(* From the claim to the terminal status.                                  *)

\* A claimed key has one writer: while a request executes or records its
\* outcome the row is pending, nobody else does so for the key, and no other
\* request of the key has an effect downstream.
ExclusiveWriter ==
    \A r \in Requests : pc[r] \in Active =>
        /\ status[KeyOf[r]] = "pending"
        /\ \A s \in Requests \ {r} :
              KeyOf[s] = KeyOf[r] => pc[s] \notin Active /\ ~ Effective(s)

\* A key that a claim may take has no effective call, and no key has two.
EffectsAccounted ==
    /\ \A r \in Requests :
          status[KeyOf[r]] \in {"absent", "failed", "rejected"} => ~ Effective(r)
    /\ \A r, s \in Requests :
          KeyOf[r] = KeyOf[s] /\ Effective(r) /\ Effective(s) => r = s

\* execute calls a write failed only when nothing can have reached the downstream.
HonestFailure ==
    \A r \in Requests :
        pc[r] = "persisting" /\ outcome[r].status = "failed" => ~ Effective(r)

\* What a sweep holds is still pending with nobody working on it, and a probe
\* that found no execution is still right when it is written down.
SweepUndisturbed ==
    /\ \A k \in stale : status[k] = "pending" => ~ InFlight(k)
    /\ \A c \in Reconcilers : \A k \in todo[c] \cup ({probed[c]} \ {None}) :
          status[k] = "pending" /\ ~ InFlight(k)
    /\ \A c \in Reconcilers :
          /\ probed[c] \notin todo[c]
          /\ probed[c] # None /\ found[c] # "executed" => byCorrelation(probed[c]) = {}

\* From the commit of its claim to its terminal status a key belongs to one
\* actor, its handler and after it one sweep, though Complete checks neither.
WriterInv == ExclusiveWriter /\ EffectsAccounted /\ HonestFailure /\ SweepUndisturbed

\* A done key has no call on its way: who wrote done had read the response of
\* the one call, or found the call settled.
SettledQuiet ==
    /\ \A r \in Requests : status[KeyOf[r]] = "done" => call[r] # "sent"
    /\ \A r \in Requests :
          pc[r] = "persisting" /\ outcome[r].status = "done" => call[r] # "sent"

-----------------------------------------------------------------------------
(* What holds however many reconcilers run and whatever acknowledgements   *)
(* are lost.                                                               *)

\* A claim of a key in use never changes its request_hash: from the commit on
\* the row carries the body of the handler that executes it, and of every call.
BodyFixed ==
    \A r \in Requests :
        pc[r] \in Active \/ call[r] # "idle"
            => status[KeyOf[r]] # "absent" /\ hash[KeyOf[r]] = BodyOf[r]

\* A response is the handler's last act, and what it says of the call is known
\* to be so when it is written.
AnswersTrue ==
    /\ \A r \in Requests : answer[r] # "none" => pc[r] = "answered"
    /\ HonestFailure
    /\ NotExecutedIsTrue

\* A probe that found an execution is still right when it is written down.
ProbeBacked(c) ==
    probed[c] # None /\ found[c] = "executed" => byCorrelation(probed[c]) # {}

\* Whoever writes done, or holds it to write, has it from a call of the key that
\* is settled; and who waits for a key in use waits with its body.
SuccessBacked ==
    /\ \A r \in Requests :
          /\ pc[r] = "persisting" /\ outcome[r].status = "done" => call[r] \in Settlements
          /\ pc[r] = "polling" => status[KeyOf[r]] # "absent" /\ hash[KeyOf[r]] = BodyOf[r]
    /\ \A c \in Reconcilers : ProbeBacked(c)
    /\ \A k \in Keys : status[k] = "done" =>
          \E s \in Requests : KeyOf[s] = k /\ call[s] \in Settlements
    /\ SuccessIsTrue

\* A transaction's now() is never ahead of the clock, so an intent it takes for
\* out of the window is out of it.
WindowClock == \A j \in Requests : behind[j] \subseteq aged

\* While a claim resolves its conflicts, its window query is still complete: an
\* intent that conflicts with it and counts now was there when it looked.
WindowComplete ==
    \A j \in Requests : pc[j] = "resolving" =>
        \A i \in Requests \ {j} :
            /\ intents[i] = "live" /\ i \notin aged
            /\ Resource(i) = Resource(j)
            /\ ~ Compatible(Declared[BodyOf[j]], Declared[BodyOf[i]])
            => i \in window[j]

\* Conflict detection: rows and intents go together, the window is read whole
\* under the lock, and so enforcement excludes what it must.
ExclusionInv == LiveIntentPerKey /\ WindowClock /\ WindowComplete /\ ConflictsExcluded

-----------------------------------------------------------------------------
(* The conditions under which a key has one writer.  The code relies on    *)
(* both and enforces neither: Complete does not name the attempt it ends.  *)

\* One reconciler process, as compose.yaml deploys it.
OneReconciler == \A c, d \in Reconcilers : c = d

\* persistOutcome never repeats a write whose first commit may have landed.
NoBlindRetry == ~ LostAcks \/ OutcomeWriteAttempts = 1
=============================================================================
