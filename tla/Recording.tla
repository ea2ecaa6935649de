----------------------------- MODULE Recording ------------------------------
(***************************************************************************)
(* resolveConflicts over the window as the query returns it, most recent   *)
(* first: which pairs are recorded, and which one a 409 names.  A          *)
(* candidate is known here by whose intent it is.                          *)
(***************************************************************************)
EXTENDS Naturals, Sequences

CONSTANT MaxRecorded    \* maxRecordedConflicts

ASSUME RecordingAssumption == MaxRecorded \in Nat \ {0}

\* A candidate: whose it is, and the status of its key.
Candidates == [agent : {"own", "other"}, pending : BOOLEAN]

\* The cap cuts the recent end off.
RecordedOldest(candidates) ==
    {i \in 1 .. Len(candidates) : Len(candidates) - i < MaxRecorded}

\* The positions of the candidates that get a conflicts row.
Recorded(candidates) == {i \in 1 .. Len(candidates) : i <= MaxRecorded}

Others(candidates) == {i \in 1 .. Len(candidates) : candidates[i].agent = "other"}

FirstOf(S) == CHOOSE i \in S : \A j \in S : i <= j

\* The verdict, and for a rejection the candidate of conflicting_intent_id and
\* the pair of conflict_id.
Resolved(candidates, enforce) ==
    IF candidates = <<>>
    THEN [verdict |-> "claimed", rows |-> {}]
    ELSE IF ~ enforce
    THEN [verdict |-> "observed", rows |-> Recorded(candidates)]
    ELSE IF Others(candidates) # {}
    THEN [verdict |-> "rejected", rows |-> Recorded(candidates),
          intent |-> FirstOf(Others(candidates)), conflict |-> FirstOf(Recorded(candidates))]
    ELSE IF \E i \in 1 .. Len(candidates) : candidates[i].pending
    THEN [verdict |-> "serialize", rows |-> {}]
    ELSE [verdict |-> "claimed", rows |-> Recorded(candidates)]
=============================================================================
