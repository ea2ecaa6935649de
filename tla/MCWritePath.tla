---------------------------- MODULE MCWritePath ----------------------------
(* Small instances of WritePath. *)
EXTENDS WritePathInv, WritePathRefinement, TLC

CONSTANTS r1, r2, r3, r4, k1, k2, k3, c1, c2

MCSegments == {"a", "b"}

\* Three writers of one resource: two bodies that replace it, one that mutates it.
MCBodies == {"replace", "rewrite", "mutate"}
MCDeclared == [b \in MCBodies |-> [class |-> IF b = "mutate" THEN "mutate" ELSE "replace",
                                   scope |-> {}]]

\* Deliveries of one key: two with one body, the third with another, which
\* also names another resource and so takes another lock.
RetryRequests == {r1, r2, r3}
RetryKeyOf == [r \in Requests |-> k1]
RetryBodyOf == [r \in Requests |-> "replace"]
RetryBodyOf2 == [r \in Requests |-> IF r = r3 THEN "rewrite" ELSE "replace"]
RetryAgentOf == [k \in {k1} |-> "agent"]
RetryResourceOf == [b \in MCBodies |-> b]
RetrySymmetry == Permutations(RetryRequests)

\* Writers of one resource: r1 and its retry r4, r2 of the same agent, and r3
\* of another agent.  Every two of the three bodies conflict.
KeyAt == [r \in {r1, r2, r3, r4} |-> CASE r = r2 -> k2 [] r = r3 -> k3 [] OTHER -> k1]
ConflictKeys == {KeyAt[r] : r \in Requests}
ConflictKeyOf == [r \in Requests |-> KeyAt[r]]
ConflictBodyOf == [r \in Requests |-> CASE r \in {r1, r4} -> "replace"
                                        [] r = r2 -> "rewrite"
                                        [] OTHER -> "mutate"]
ConflictAgentOf == [k \in ConflictKeys |-> IF k = k3 THEN "other" ELSE "agent"]
ConflictResourceOf == [b \in MCBodies |-> "resource"]

\* The state without what no guard reads and MCReclaim's properties do not
\* mention: answers, results, attempt counts and conflicts rows.
ReclaimView ==
    <<status, hash, stale, intents, aged, call, pc, lock, behind, window, blocking, outcome, tries,
      reconcilerVars>>
=============================================================================
