--------------------------- MODULE IdempotentKey ----------------------------
(***************************************************************************)
(* What an idempotency key promises its agent, with nothing of how: no     *)
(* deliveries, locks, transactions, crashes or sweeps.  A key is free,     *)
(* owned by one attempt at a time, or closed for good; it takes effect     *)
(* downstream at most once, and only while an attempt owns it or its fate  *)
(* has been given up on.                                                   *)
(***************************************************************************)
CONSTANTS
    Keys,
    Calls       \* the calls downstream that may come to be

VARIABLES
    state,      \* state[k]: free, owned, done, indeterminate or rejected
    effects     \* effects[k]: the calls of k that were executed

vars == <<state, effects>>

Init ==
    /\ state = [k \in Keys |-> "free"]
    /\ effects = [k \in Keys |-> {}]

Move(k, from, to) ==
    /\ state[k] = from /\ state'[k] = to
    /\ state' = [state EXCEPT ![k] = to]
    /\ UNCHANGED effects

\* An attempt takes the key.  Nothing of the key has taken effect.
Claim(k) == Move(k, "free", "owned") /\ effects[k] = {}

\* The attempt fails: nothing has taken effect, and the key is free again.
Release(k) == Move(k, "owned", "free") /\ effects[k] = {}

\* The outcome is recorded.
Settle(k) == Move(k, "owned", "done")

\* Nobody can tell whether the attempt took effect.
GiveUp(k) == Move(k, "owned", "indeterminate")

\* The key is refused before anything of it has taken effect.
Reject(k) == Move(k, "free", "rejected") /\ effects[k] = {}

\* The one effect.  A call may arrive after its attempt was given up on.
TakeEffect(k) ==
    /\ state[k] \in {"owned", "indeterminate"}
    /\ effects[k] = {} /\ effects'[k] # {}
    /\ \E c \in Calls : effects' = [effects EXCEPT ![k] = {c}]
    /\ UNCHANGED state

Step(k) ==
    Claim(k) \/ Release(k) \/ Settle(k) \/ GiveUp(k) \/ Reject(k) \/ TakeEffect(k)

Next == \E k \in Keys : Step(k)

Spec == Init /\ [][Next]_vars
=============================================================================
