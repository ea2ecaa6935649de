------------------------- MODULE WritePathRefinement -------------------------
(***************************************************************************)
(* The write path as an implementation of IdempotentKey.  A key is free    *)
(* while it has no row or its last attempt failed; its effects are the     *)
(* downstream's own ledger of it, not what the database says of it.        *)
(***************************************************************************)
EXTENDS WritePath

KeyState(k) ==
    CASE status[k] \in {"absent", "failed"} -> "free"
      [] status[k] = "pending" -> "owned"
      [] OTHER -> status[k]

Key == INSTANCE IdempotentKey WITH
           Calls <- Requests,
           state <- [k \in Keys |-> KeyState(k)],
           effects <- [k \in Keys |-> byCorrelation(k)]

\* Every step of handlers, reconcilers, downstream and time is a step that the
\* key's promise allows, or none: done, indeterminate and rejected are for good,
\* a key is free again only if nothing of it happened, a rejected key never
\* happens, and a call that arrives late finds its key given up on.
ImplementsKey == Key!Spec
=============================================================================
