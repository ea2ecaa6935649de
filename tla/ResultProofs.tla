---------------------------- MODULE ResultProofs ----------------------------
(***************************************************************************)
(* A done row keeps its own result, for any keys, any number of claims and *)
(* reconcilers, and whatever acknowledgements are lost.                    *)
(***************************************************************************)
EXTENDS ResultStore, TLAPS

\* Whoever is at work is at work for the last claim.
LastClaimOnly(k) == \A w \in Writers : writer[k][w] \in Flying => w[1] = claims[k]

\* While the row waits for its outcome, an object that was placed stays.
ObjectIsPlaced(k) ==
    status[k] = "pending" =>
        \A w \in Writers : writer[k][w] = "ref" => ObjectIsOf(k, claims[k])

\* A done row has the result of the last claim, and the object it names is of it.
ResultKept(k) ==
    status[k] = "done" =>
        /\ recorded[k] = claims[k]
        /\ stored[k] = "ref" => ObjectIsOf(k, claims[k])

\* A sweep deletes the object of a key without a row, or of a raced one; the
\* rest holds of every key whose last claim overtook nobody.
KeyInv(k) ==
    /\ k \in refs => status[k] = "absent" \/ k \in raced
    /\ k \notin overtaken => LastClaimOnly(k) /\ ObjectIsPlaced(k) /\ ResultKept(k)

ResultInv == \A k \in Keys : KeyInv(k)

\* One writer at a time, and none once the row is settled.
LoneWriter(k) ==
    k \notin overtaken =>
        /\ \A v, w \in Writers : writer[k][v] \in Flying /\ writer[k][w] \in Flying => v = w
        /\ status[k] \in {"failed", "done", "indeterminate"} => ~ InFlight(k)

-----------------------------------------------------------------------------
\* The actions of a writer at work, but for the outcome write.
Working(k, w) ==
    Call(k, w) \/ PlaceInline(k, w) \/ PlaceObject(k, w) \/ FallBack(k, w) \/ Die(k, w)

\* The facts about one step of each kind that the invariant rests on.
Worked(k, w) ==
    /\ UNCHANGED <<status, stored, recorded, claims, old, refs, raced, overtaken>>
    /\ writer[k][w] \in Flying
    /\ \E to \in WriterStates : /\ writer' = [writer EXCEPT ![k][w] = to]
                                /\ to = "ref" => objects' = [objects EXCEPT ![k] = w[1]]
    /\ objects' = objects \/ objects' = [objects EXCEPT ![k] = w[1]]

\* What a writer at work does: it moves on, for its own key and nobody else's,
\* and when it comes to have a reference the object is its own.
LEMMA WorkingEffect ==
    ASSUME NEW k \in Keys, NEW w \in Writers, Working(k, w)
    PROVE  Worked(k, w)
<1> USE DEF Worked, Step, Flying, WriterStates, rowVars, otherVars
<1>1. CASE Call(k, w)
    BY <1>1 DEF Call
<1>2. CASE PlaceInline(k, w)
    BY <1>2 DEF PlaceInline
<1>3. CASE PlaceObject(k, w)
    BY <1>3 DEF PlaceObject
<1>4. CASE FallBack(k, w)
    BY <1>4 DEF FallBack
<1>5. CASE Die(k, w)
    BY <1>5 DEF Die
<1>6. QED BY <1>1, <1>2, <1>3, <1>4, <1>5 DEF Working

Written(k, w) ==
    /\ UNCHANGED <<objects, claims, old, refs, raced, overtaken>>
    /\ writer[k][w] \in {"inline", "ref", "failed", "indeterminate"}
    /\ \E to \in {"none", writer[k][w]} : writer' = [writer EXCEPT ![k][w] = to]
    /\ \/ status[k] # "pending" /\ UNCHANGED <<status, stored, recorded>>
       \/ /\ status[k] = "pending" /\ writer[k][w] \in {"inline", "ref"}
          /\ status' = [status EXCEPT ![k] = "done"]
          /\ stored' = [stored EXCEPT ![k] = writer[k][w]]
          /\ recorded' = [recorded EXCEPT ![k] = w[1]]
       \/ /\ status[k] = "pending" /\ writer[k][w] \in {"failed", "indeterminate"}
          /\ status' = [status EXCEPT ![k] = writer[k][w]]
          /\ UNCHANGED <<stored, recorded>>

\* What an outcome write does to the row of its key, acknowledged or not.
LEMMA OutcomeEffect ==
    ASSUME NEW k \in Keys, NEW w \in Writers,
           Complete(k, w) \/ CompleteUnacknowledged(k, w)
    PROVE  Written(k, w)
<1>1. /\ UNCHANGED <<objects, claims, old, refs, raced, overtaken>>
      /\ writer[k][w] \in {"inline", "ref", "failed", "indeterminate"}
      /\ Commit(k, w)
    BY DEF Complete, CompleteUnacknowledged, Step, otherVars
<1>2. \E to \in {"none", writer[k][w]} : writer' = [writer EXCEPT ![k][w] = to]
    BY DEF Complete, CompleteUnacknowledged, Step
<1>3. QED BY <1>1, <1>2 DEF Written, Commit, rowVars

Claimed(k) ==
    /\ UNCHANGED <<objects, refs>>
    /\ claims[k] + 1 \in Claims
    /\ claims' = [claims EXCEPT ![k] = @ + 1]
    /\ writer' = [writer EXCEPT ![k][<<claims[k] + 1, Handler>>] = "calling"]
    /\ status' = [status EXCEPT ![k] = "pending"]
    /\ stored' = [stored EXCEPT ![k] = "none"]
    /\ recorded' = [recorded EXCEPT ![k] = 0]
    /\ overtaken' = IF InFlight(k) THEN overtaken \cup {k} ELSE overtaken \ {k}
    /\ old' \subseteq old
    /\ \/ raced' = IF k \in refs THEN raced \cup {k} ELSE raced \ {k}
       \/ raced' = raced /\ status[k] = "failed"

\* What a claim does: the row is new, its handler sets out, and the key counts
\* as overtaken when somebody was at work.
LEMMA ClaimEffect ==
    ASSUME TypeOK, NEW k \in Keys, Claim(k) \/ Reclaim(k)
    PROVE  Claimed(k)
<1>1. NewWriter(k) /\ overtaken' = Overtaking(k) /\ UNCHANGED <<objects, refs>> /\ old' \subseteq old
    BY DEF Claim, Reclaim
<1>2. claims[k] + 1 \in Claims
    BY <1>1, ResultStoreAssumption DEF NewWriter, TypeOK, Claims
<1>3. \/ raced' = IF k \in refs THEN raced \cup {k} ELSE raced \ {k}
      \/ raced' = raced /\ status[k] = "failed"
    BY DEF Claim, Reclaim
<1>4. QED BY <1>1, <1>2, <1>3 DEF Claimed, NewWriter, Overtaking

\* Every step keeps the types.
LEMMA ResultTypeStep == TypeOK /\ [Next]_vars => TypeOK'
<1> SUFFICES ASSUME TypeOK, [Next]_vars PROVE TypeOK'
    OBVIOUS
<1>0. /\ \A g \in Claims : g \in 0 .. MaxClaims
      /\ 0 \in 0 .. MaxClaims
    BY ResultStoreAssumption DEF Claims
<1>1. ASSUME NEW k \in Keys, Claim(k) \/ Reclaim(k)
      PROVE  TypeOK'
    <2> Claimed(k)
        BY <1>1, ClaimEffect
    <2>1. claims[k] + 1 \in 0 .. MaxClaims
        BY <1>0 DEF Claimed
    <2>2. "calling" \in WriterStates
        BY DEF WriterStates, Flying
    <2>3. writer' \in [Keys -> [Writers -> WriterStates]]
        BY <2>2 DEF TypeOK, Claimed
    <2>4. QED BY <1>0, <2>1, <2>3 DEF TypeOK, Claimed
<1>2. ASSUME NEW k \in Keys, Age(k) \/ DeleteObject(k)
      PROVE  TypeOK'
    BY <1>0, <1>2 DEF Age, DeleteObject, TypeOK, rowVars
<1>3. ASSUME NEW k \in Keys, NEW c \in Reconcilers, Reconcile(k, c)
      PROVE  TypeOK'
    <2>1. "calling" \in WriterStates
        BY DEF WriterStates, Flying
    <2>2. QED BY <1>3, <2>1 DEF Reconcile, TypeOK, rowVars, otherVars
<1>4. ASSUME NEW k \in Keys, NEW w \in Writers, Working(k, w)
      PROVE  TypeOK'
    <2> Worked(k, w)
        BY <1>4, WorkingEffect
    <2>1. w[1] \in 0 .. MaxClaims
        BY <1>0 DEF Writers
    <2>2. writer' \in [Keys -> [Writers -> WriterStates]]
        <3>1. PICK to \in WriterStates : writer' = [writer EXCEPT ![k][w] = to]
            BY DEF Worked
        <3>2. QED BY <3>1 DEF TypeOK
    <2>3. objects' \in [Keys -> 0 .. MaxClaims]
        BY <2>1 DEF TypeOK, Worked
    <2>4. QED BY <2>2, <2>3 DEF TypeOK, Worked
<1>5. ASSUME NEW k \in Keys, NEW w \in Writers, Complete(k, w) \/ CompleteUnacknowledged(k, w)
      PROVE  TypeOK'
    <2> Written(k, w)
        BY <1>5, OutcomeEffect
    <2>1. w[1] \in 0 .. MaxClaims
        BY <1>0 DEF Writers
    <2>2. writer' \in [Keys -> [Writers -> WriterStates]]
        <3>1. PICK to \in {"none", writer[k][w]} : writer' = [writer EXCEPT ![k][w] = to]
            BY DEF Written
        <3>2. to \in WriterStates
            BY DEF TypeOK, WriterStates
        <3>3. QED BY <3>1, <3>2 DEF TypeOK
    <2>3. /\ status' \in [Keys -> {"absent", "pending", "failed", "done", "indeterminate"}]
          /\ stored' \in [Keys -> {"none", "inline", "ref"}]
          /\ recorded' \in [Keys -> 0 .. MaxClaims]
        BY <2>1 DEF TypeOK, Written
    <2>4. QED BY <2>2, <2>3 DEF TypeOK, Written
<1>6. CASE ExpireBatch
    BY <1>0, <1>6 DEF ExpireBatch, TypeOK
<1>7. CASE DeleteFails \/ UNCHANGED vars
    BY <1>7 DEF DeleteFails, vars, TypeOK, rowVars
<1>8. QED BY <1>1, <1>2, <1>3, <1>4, <1>5, <1>6, <1>7 DEF Next, Working

-----------------------------------------------------------------------------
\* A key that a step does not touch keeps its invariant.
LEMMA Untouched ==
    ASSUME NEW k \in Keys, KeyInv(k), status'[k] = status[k], claims'[k] = claims[k],
           stored'[k] = stored[k], recorded'[k] = recorded[k], objects'[k] = objects[k],
           writer'[k] = writer[k], k \in refs' => k \in refs,
           k \in raced' <=> k \in raced, k \in overtaken' <=> k \in overtaken
    PROVE  KeyInv(k)'
BY DEF KeyInv, LastClaimOnly, ObjectIsPlaced, ResultKept, ObjectIsOf

\* A claim that overtakes nobody puts the only writer to work.
LEMMA ClaimStep ==
    ASSUME TypeOK, ResultInv, NEW k \in Keys, Claim(k) \/ Reclaim(k)
    PROVE  ResultInv'
<1> Claimed(k)
    BY ClaimEffect
<1> USE DEF TypeOK
<1>1. ASSUME NEW x \in Keys, x # k
      PROVE  KeyInv(x)'
    <2>1. /\ status'[x] = status[x] /\ claims'[x] = claims[x] /\ stored'[x] = stored[x]
          /\ recorded'[x] = recorded[x] /\ objects'[x] = objects[x] /\ writer'[x] = writer[x]
          /\ x \in refs' => x \in refs
          /\ x \in raced' <=> x \in raced
          /\ x \in overtaken' <=> x \in overtaken
        BY <1>1 DEF Claimed
    <2>2. QED BY <2>1, Untouched DEF ResultInv
<1>2. k \in refs' => k \in raced'
    BY DEF Claimed, ResultInv, KeyInv
<1>3. status'[k] = "pending" /\ claims'[k] = claims[k] + 1
    BY DEF Claimed
<1>4. ASSUME k \notin overtaken'
      PROVE  \A w \in Writers :
                 writer'[k][w] \in Flying => w[1] = claims'[k] /\ writer'[k][w] # "ref"
    <2>1. ~ InFlight(k)
        BY <1>4 DEF Claimed
    <2>2. QED BY <1>3, <2>1 DEF Claimed, InFlight
<1>5. KeyInv(k)'
    <2>1. "ref" \in Flying
        BY DEF Flying
    <2>2. ASSUME k \notin overtaken'
          PROVE  LastClaimOnly(k)' /\ ObjectIsPlaced(k)' /\ ResultKept(k)'
        BY <1>3, <1>4, <2>1, <2>2 DEF LastClaimOnly, ObjectIsPlaced, ResultKept
    <2>3. QED BY <1>2, <2>2 DEF KeyInv
<1>6. QED BY <1>1, <1>5 DEF ResultInv

\* A writer at work, or a sweep that takes a stale key, is at work for the last
\* claim: what it puts in the object is what the row has or is to have.
LEMMA WorkingStep ==
    ASSUME TypeOK, ResultInv, NEW k \in Keys, NEW w \in Writers, Working(k, w)
    PROVE  ResultInv'
<1> Worked(k, w)
    BY WorkingEffect
<1> USE DEF TypeOK
<1>1. UNCHANGED <<status, stored, recorded, claims, refs, raced, overtaken>>
    BY DEF Worked
<1>2. PICK to \in WriterStates : /\ writer' = [writer EXCEPT ![k][w] = to]
                                 /\ to = "ref" => objects' = [objects EXCEPT ![k] = w[1]]
    BY DEF Worked
<1>3. objects' = objects \/ objects' = [objects EXCEPT ![k] = w[1]]
    BY DEF Worked
<1>4. ASSUME NEW x \in Keys, x # k
      PROVE  KeyInv(x)'
    BY <1>1, <1>2, <1>3, <1>4, Untouched DEF ResultInv
<1>5. KeyInv(k)'
    <2>1. KeyInv(k)
        BY DEF ResultInv
    <2>2. CASE k \in overtaken
        BY <1>1, <2>1, <2>2 DEF KeyInv
    <2>3. CASE k \notin overtaken
        <3>1. LastClaimOnly(k) /\ ObjectIsPlaced(k) /\ ResultKept(k)
            BY <2>1, <2>3 DEF KeyInv
        <3>2. w[1] = claims[k]
            BY <3>1 DEF Worked, LastClaimOnly
        <3>3. ObjectIsOf(k, claims[k]) => ObjectIsOf(k, claims[k])'
            BY <1>1, <1>3, <3>2 DEF ObjectIsOf
        <3>4. \A v \in Writers \ {w} : writer'[k][v] = writer[k][v]
            BY <1>2
        <3>5. writer'[k][w] = to
            BY <1>2
        <3>6. LastClaimOnly(k)'
            BY <1>1, <3>1, <3>2, <3>4 DEF LastClaimOnly
        <3>7. ObjectIsPlaced(k)'
            <4>1. to = "ref" => ObjectIsOf(k, claims[k])'
                BY <1>1, <1>2, <3>2 DEF ObjectIsOf
            <4>2. QED BY <1>1, <3>1, <3>3, <3>4, <3>5, <4>1 DEF ObjectIsPlaced
        <3>8. ResultKept(k)'
            BY <1>1, <3>1, <3>3 DEF ResultKept
        <3>9. QED BY <1>1, <2>1, <3>6, <3>7, <3>8 DEF KeyInv
    <2>4. QED BY <2>2, <2>3
<1>6. QED BY <1>4, <1>5 DEF ResultInv

\* A sweep that takes a stale key works for its last claim.
LEMMA ReconcileStep ==
    ASSUME TypeOK, ResultInv, NEW k \in Keys, NEW c \in Reconcilers, Reconcile(k, c)
    PROVE  ResultInv'
<1> USE DEF TypeOK
<1>1. /\ UNCHANGED <<status, stored, recorded, objects, claims, refs, raced, overtaken>>
      /\ writer' = [writer EXCEPT ![k][<<claims[k], c>>] = "calling"]
    BY DEF Reconcile, rowVars, otherVars
<1>2. ASSUME NEW x \in Keys, x # k
      PROVE  KeyInv(x)'
    BY <1>1, <1>2, Untouched DEF ResultInv
<1>3. KeyInv(k)'
    <2>1. \A w \in Writers : writer'[k][w] = writer[k][w]
                             \/ (writer'[k][w] = "calling" /\ w = <<claims[k], c>>)
        BY <1>1
    <2>2. KeyInv(k)
        BY DEF ResultInv
    <2>3. LastClaimOnly(k) => LastClaimOnly(k)'
        BY <1>1, <2>1 DEF LastClaimOnly
    <2>4. ObjectIsPlaced(k) => ObjectIsPlaced(k)'
        BY <1>1, <2>1 DEF ObjectIsPlaced, ObjectIsOf
    <2>5. ResultKept(k) => ResultKept(k)'
        BY <1>1 DEF ResultKept, ObjectIsOf
    <2>6. QED BY <1>1, <2>2, <2>3, <2>4, <2>5 DEF KeyInv
<1>4. QED BY <1>2, <1>3 DEF ResultInv

\* An outcome is written for the last claim, and its object is the one placed.
LEMMA OutcomeStep ==
    ASSUME TypeOK, ResultInv, NEW k \in Keys, NEW w \in Writers,
           Complete(k, w) \/ CompleteUnacknowledged(k, w)
    PROVE  ResultInv'
<1> Written(k, w)
    BY OutcomeEffect
<1> USE DEF TypeOK
<1>1. UNCHANGED <<objects, claims, refs, raced, overtaken>>
    BY DEF Written
<1>2. PICK to \in {"none", writer[k][w]} : writer' = [writer EXCEPT ![k][w] = to]
    BY DEF Written
<1>3. ASSUME NEW x \in Keys, x # k
      PROVE  KeyInv(x)'
    <2>1. status'[x] = status[x] /\ stored'[x] = stored[x] /\ recorded'[x] = recorded[x]
        BY <1>3 DEF Written
    <2>2. QED BY <1>1, <1>2, <1>3, <2>1, Untouched DEF ResultInv
<1>4. KeyInv(k)'
    <2>1. KeyInv(k)
        BY DEF ResultInv
    <2>2. k \in refs' => status'[k] = "absent" \/ k \in raced'
        BY <1>1, <2>1 DEF Written, KeyInv
    <2>3. ASSUME k \notin overtaken
          PROVE  LastClaimOnly(k)' /\ ObjectIsPlaced(k)' /\ ResultKept(k)'
        <3>1. LastClaimOnly(k) /\ ObjectIsPlaced(k) /\ ResultKept(k)
            BY <2>1, <2>3 DEF KeyInv
        <3>2. w[1] = claims[k]
            <4>1. writer[k][w] \in Flying
                BY DEF Written, Flying
            <4>2. QED BY <3>1, <4>1 DEF LastClaimOnly
        <3>3. \A v \in Writers : writer'[k][v] = writer[k][v] \/ writer'[k][v] = "none"
            BY <1>2
        <3>4. LastClaimOnly(k)'
            BY <1>1, <3>1, <3>3 DEF LastClaimOnly, Flying
        <3>5. status'[k] = "pending" => status[k] = "pending"
            BY DEF Written
        <3>6. ObjectIsPlaced(k)'
            BY <1>1, <3>1, <3>3, <3>5 DEF ObjectIsPlaced, ObjectIsOf
        <3>7. ResultKept(k)'
            <4>1. CASE status[k] = "done"
                <5>1. UNCHANGED <<status, stored, recorded>>
                    BY <4>1 DEF Written
                <5>2. QED BY <1>1, <3>1, <5>1 DEF ResultKept, ObjectIsOf
            <4>2. CASE status[k] # "done" /\ status'[k] = "done"
                <5>1. /\ status[k] = "pending" /\ recorded'[k] = w[1]
                      /\ stored'[k] = writer[k][w]
                    BY <4>2 DEF Written
                <5>2. QED BY <1>1, <3>1, <3>2, <5>1 DEF ResultKept, ObjectIsPlaced, ObjectIsOf
            <4>3. CASE status'[k] # "done"
                BY <4>3 DEF ResultKept
            <4>4. QED BY <4>1, <4>2, <4>3
        <3>8. QED BY <3>4, <3>6, <3>7
    <2>4. QED BY <1>1, <2>2, <2>3 DEF KeyInv
<1>5. QED BY <1>3, <1>4 DEF ResultInv

\* Expiry takes the row first and only then its object.
LEMMA ExpiryStep ==
    ASSUME TypeOK, ResultInv,
           ExpireBatch \/ DeleteFails \/ (\E k \in Keys : Age(k) \/ DeleteObject(k)) \/ UNCHANGED vars
    PROVE  ResultInv'
<1> SUFFICES ASSUME NEW x \in Keys PROVE KeyInv(x)'
    BY DEF ResultInv
<1>1. KeyInv(x)
    BY DEF ResultInv
<1>2. CASE DeleteFails \/ (\E k \in Keys : Age(k)) \/ UNCHANGED vars
    <2>1. UNCHANGED <<status, claims, stored, recorded, objects, writer, raced, overtaken>>
        BY <1>2 DEF DeleteFails, Age, vars, rowVars
    <2>2. refs' \subseteq refs
        BY <1>2 DEF DeleteFails, Age, vars
    <2>3. QED BY <1>1, <2>1, <2>2, Untouched
<1>3. ASSUME NEW k \in Keys, DeleteObject(k)
      PROVE  KeyInv(x)'
    <2>1. /\ UNCHANGED <<status, claims, stored, recorded, writer, raced, overtaken>>
          /\ k \in refs /\ refs' = refs \ {k}
          /\ objects' = [objects EXCEPT ![k] = 0]
        BY <1>3 DEF DeleteObject, rowVars
    <2>2. CASE x # k
        BY <1>1, <2>1, <2>2, Untouched DEF TypeOK
    <2>3. CASE x = k
        <3>1. objects'[k] = 0 /\ (status[k] = "absent" \/ k \in raced)
            BY <1>1, <2>1, <2>3 DEF KeyInv, TypeOK
        <3>2. QED BY <1>1, <2>1, <2>3, <3>1
                  DEF KeyInv, LastClaimOnly, ObjectIsPlaced, ResultKept, ObjectIsOf
    <2>4. QED BY <2>2, <2>3
<1>4. CASE ExpireBatch
    <2>1. PICK batch \in SUBSET {k \in old : status[k] # "absent"} :
              /\ status' = [k \in Keys |-> IF k \in batch THEN "absent" ELSE status[k]]
              /\ stored' = [k \in Keys |-> IF k \in batch THEN "none" ELSE stored[k]]
              /\ recorded' = [k \in Keys |-> IF k \in batch THEN 0 ELSE recorded[k]]
              /\ refs' = refs \cup {k \in batch : stored[k] = "ref"}
        BY <1>4 DEF ExpireBatch
    <2>2. UNCHANGED <<claims, objects, writer, raced, overtaken>>
        BY <1>4 DEF ExpireBatch
    <2>3. CASE x \notin batch
        BY <1>1, <2>1, <2>2, <2>3, Untouched
    <2>4. CASE x \in batch
        BY <1>1, <2>1, <2>2, <2>4 DEF KeyInv, LastClaimOnly, ObjectIsPlaced, ResultKept
    <2>5. QED BY <2>3, <2>4
<1>5. QED BY <1>2, <1>3, <1>4

\* The types and the invariant of the keys, for any constants.
LEMMA ResultInvariant == Spec => [](TypeOK /\ ResultInv)
<1>1. Init => TypeOK /\ ResultInv
    <2> SUFFICES ASSUME Init PROVE TypeOK /\ ResultInv
        OBVIOUS
    <2>1. TypeOK
        BY ResultStoreAssumption DEF Init, TypeOK, WriterStates
    <2>2. "none" \notin Flying
        BY DEF Flying
    <2>3. ResultInv
        BY <2>2 DEF Init, ResultInv, KeyInv, LastClaimOnly, ObjectIsPlaced, ResultKept
    <2>4. QED BY <2>1, <2>3
<1>2. TypeOK /\ ResultInv /\ [Next]_vars => ResultInv'
    BY ClaimStep, WorkingStep, ReconcileStep, OutcomeStep, ExpiryStep DEF Next, Working
<1>3. QED BY <1>1, <1>2, ResultTypeStep, PTL DEF Spec

\* A done row keeps the result of its own claim, inline or in an object that
\* holds it, over every history of claims, uploads, crashes, repeated writes and sweeps; a race
\* with the deletion of the last object may lose it, but puts no other in its
\* place.  Excepted are claims that overtook a writer of an earlier one.
THEOREM PromiseKeptCorrect == Spec => []PromiseKept
<1>1. ResultInv => PromiseKept
    BY DEF ResultInv, KeyInv, ResultKept, PromiseKept
<1>2. QED BY <1>1, ResultInvariant, PTL

-----------------------------------------------------------------------------
\* With one reconciler and no blind repetition, whoever sets out finds nobody
\* at work, and whoever writes an outcome is through.
LEMMA LoneWriterStep ==
    ASSUME OneReconciler, NoBlindRetry, TypeOK, [Next]_vars,
           NEW k \in Keys, LoneWriter(k)
    PROVE  LoneWriter(k)'
<1>1. ASSUME NEW x \in Keys, Claim(x) \/ Reclaim(x)
      PROVE  LoneWriter(k)'
    <2> Claimed(x)
        BY <1>1, ClaimEffect
    <2> USE DEF TypeOK
    <2>1. CASE x # k
        <3>1. /\ status'[k] = status[k] /\ writer'[k] = writer[k]
              /\ k \in overtaken' <=> k \in overtaken
            BY <1>1, <2>1 DEF Claimed
        <3>2. QED BY <3>1 DEF LoneWriter, InFlight
    <2>2. CASE x = k
        <3>1. ASSUME k \notin overtaken'
              PROVE  ~ InFlight(k)
            BY <1>1, <2>2, <3>1 DEF Claimed
        <3>2. ASSUME k \notin overtaken', NEW w \in Writers, writer'[k][w] \in Flying
              PROVE  w = <<claims[k] + 1, Handler>>
            BY <1>1, <2>2, <3>1, <3>2 DEF Claimed, InFlight
        <3>3. status'[k] = "pending"
            BY <1>1, <2>2 DEF Claimed
        <3>4. QED BY <3>2, <3>3 DEF LoneWriter
    <2>3. QED BY <2>1, <2>2
<1>2. ASSUME NEW x \in Keys, NEW c \in Reconcilers, Reconcile(x, c)
      PROVE  LoneWriter(k)'
    <2> USE DEF TypeOK
    <2>1. /\ UNCHANGED <<status, overtaken>>
          /\ writer' = [writer EXCEPT ![x][<<claims[x], c>>] = "calling"]
        BY <1>2 DEF Reconcile, rowVars, otherVars
    <2>2. CASE x # k
        BY <2>1, <2>2 DEF LoneWriter, InFlight
    <2>3. CASE x = k
        <3>1. \A w \in Writers : writer[k][w] \notin Flying
            <4>1. ASSUME NEW w \in Writers
                  PROVE  w = <<w[1], w[2]>> /\ w[1] \in Claims /\ (w[2] = Handler \/ w[2] = c)
                BY DEF Writers, OneReconciler
            <4>2. \A g \in Claims : /\ writer[k][<<g, Handler>>] \notin Flying
                                    /\ writer[k][<<g, c>>] \notin Flying
                BY <1>2, <2>3 DEF Reconcile, Stale
            <4>3. QED BY <4>1, <4>2
        <3>2. \A w \in Writers : writer'[k][w] \in Flying => w = <<claims[k], c>>
            BY <2>1, <2>3, <3>1
        <3>3. status'[k] = "pending"
            BY <1>2, <2>1, <2>3 DEF Reconcile
        <3>4. QED BY <3>2, <3>3 DEF LoneWriter
    <2>4. QED BY <2>2, <2>3
<1>3. ASSUME NEW x \in Keys, NEW w \in Writers, Working(x, w)
      PROVE  LoneWriter(k)'
    <2> Worked(x, w)
        BY <1>3, WorkingEffect
    <2> USE DEF TypeOK
    <2>1. UNCHANGED <<status, overtaken>> /\ writer[x][w] \in Flying
        BY <1>3 DEF Worked
    <2>2. PICK to \in WriterStates : writer' = [writer EXCEPT ![x][w] = to]
        BY <1>3 DEF Worked
    <2>3. \A v \in Writers : writer'[k][v] \in Flying => writer[k][v] \in Flying
        BY <2>1, <2>2
    <2>4. QED BY <2>1, <2>3 DEF LoneWriter, InFlight
<1>4. ASSUME NEW x \in Keys, NEW w \in Writers, Complete(x, w) \/ CompleteUnacknowledged(x, w)
      PROVE  LoneWriter(k)'
    <2> Written(x, w)
        BY <1>4, OutcomeEffect
    <2> USE DEF TypeOK
    <2>1. Complete(x, w)
        BY <1>4, ResultStoreAssumption DEF CompleteUnacknowledged, NoBlindRetry
    <2>2. writer[x][w] \in Flying /\ writer' = [writer EXCEPT ![x][w] = "none"]
        BY <2>1 DEF Complete, Step, Flying
    <2>3. UNCHANGED overtaken /\ (x # k => status'[k] = status[k])
        BY <1>4 DEF Written
    <2>4. \A v \in Writers : writer'[k][v] \in Flying =>
              writer[k][v] \in Flying /\ (x = k => v # w)
        BY <2>2 DEF Flying
    <2>5. x = k /\ k \notin overtaken => ~ InFlight(k)'
        BY <2>2, <2>4 DEF LoneWriter, InFlight
    <2>6. QED BY <2>3, <2>4, <2>5 DEF LoneWriter, InFlight
<1>5. CASE ExpireBatch
    BY <1>5 DEF ExpireBatch, LoneWriter, InFlight
<1>6. CASE DeleteFails \/ (\E x \in Keys : Age(x) \/ DeleteObject(x)) \/ UNCHANGED vars
    BY <1>6 DEF DeleteFails, Age, DeleteObject, vars, rowVars, LoneWriter, InFlight
<1>7. QED BY <1>1, <1>2, <1>3, <1>4, <1>5, <1>6 DEF Next, Working

\* With one reconciler, and no repetition of an outcome write that may have
\* landed, a failed key has no writer left: a re-claim overtakes nobody, so
\* only the expiry of a row in use leads to the keys PromiseKept excepts.
THEOREM FailedHasNoWriterCorrect ==
    ASSUME OneReconciler, NoBlindRetry
    PROVE  Spec => []FailedHasNoWriter
<1> DEFINE Lone == \A k \in Keys : LoneWriter(k)
<1>1. Init => Lone
    <2>1. "none" \notin Flying
        BY DEF Flying
    <2>2. QED BY <2>1 DEF Init, LoneWriter
<1>2. TypeOK /\ Lone /\ [Next]_vars => Lone'
    BY LoneWriterStep
<1>3. Lone => FailedHasNoWriter
    BY DEF LoneWriter, FailedHasNoWriter
<1> HIDE DEF Lone
<1>4. QED BY <1>1, <1>2, <1>3, ResultInvariant, PTL DEF Spec
=============================================================================
