-------------------------- MODULE AlgorithmProofs ---------------------------
(***************************************************************************)
(* What the algorithms of the write path compute, for inputs of any size.  *)
(***************************************************************************)
EXTENDS Algorithms, FiniteSetTheorems, SequenceTheorems, TLAPS

\* A set of naturals that is not empty has a least element.
LEMMA LeastElement ==
    ASSUME NEW T, T \subseteq Nat, T # {}
    PROVE  \E x \in T : \A y \in T : x <= y
<1>1. PICK x \in T : \A y \in T : ~ (<<y, x>> \in OpToRel(<, Nat))
    BY NatLessThanWellFounded, WFMin
<1>2. \A y \in T : ~ (y < x)
    BY <1>1 DEF OpToRel
<1>3. QED BY <1>2

-----------------------------------------------------------------------------
\* The matrix does not ask who came first.
THEOREM MatrixSymmetricCorrect == Spec => []MatrixSymmetric
<1>1. \A x, y : overlaps(x, y) <=> overlaps(y, x)
    BY DEF overlaps
<1>2. \A x, y : ScopesDisjoint(x, y) <=> ScopesDisjoint(y, x)
    BY <1>1 DEF ScopesDisjoint
<1>3. \A x, y : Compatible(x, y) <=> Compatible(y, x)
    BY <1>2 DEF Compatible
<1>4. MatrixSymmetric
    BY <1>3 DEF MatrixSymmetric
<1>5. QED BY <1>4, PTL

\* A path of a selector is a sequence of at least one and at most MaxDepth
\* segments.
LEMMA PathShape ==
    ASSUME NEW p \in PathsTo(MaxDepth)
    PROVE  p \in Seq(Segments) /\ Len(p) \in 1 .. MaxDepth /\ p \in [1 .. Len(p) -> Segments]
<1>1. PICK m \in 1 .. MaxDepth : p \in [1 .. m -> Segments]
    BY DEF PathsTo
<1>2. m \in Nat
    BY AlgorithmsAssumption DEF AlgorithmsAssumption
<1>3. p \in Seq(Segments) /\ Len(p) = m
    BY <1>1, <1>2
<1>4. QED BY <1>1, <1>3

\* What it is for a path to lead to a field, segment by segment.
LEMMA LeadsTo ==
    ASSUME NEW p \in PathsTo(MaxDepth), NEW f \in Fields
    PROVE  SubSeq(f, 1, Len(p)) = p <=> \A i \in 1 .. Len(p) : f[i] = p[i]
<1>1. Len(p) \in 1 .. MaxDepth /\ p = [i \in 1 .. Len(p) |-> p[i]] /\ MaxDepth \in Nat
    BY PathShape, AlgorithmsAssumption DEF AlgorithmsAssumption
<1>2. SubSeq(f, 1, Len(p)) = [i \in 1 .. Len(p) |-> f[i]]
    BY <1>1 DEF Fields
<1>3. QED BY <1>1, <1>2

\* Two paths overlap when they agree as far as both go.
LEMMA OverlapMeaning ==
    ASSUME NEW p \in PathsTo(MaxDepth), NEW q \in PathsTo(MaxDepth)
    PROVE  overlaps(p, q) <=> \A i \in 1 .. Len(p) : i <= Len(q) => p[i] = q[i]
<1>1. /\ Len(p) \in Nat /\ p = [i \in 1 .. Len(p) |-> p[i]] /\ p \in Seq(Segments)
      /\ Len(q) \in Nat /\ q = [i \in 1 .. Len(q) |-> q[i]] /\ q \in Seq(Segments)
    BY PathShape
<1>2. CASE Len(p) = Len(q)
    <2>1. overlaps(p, q) <=> p = q
        BY <1>1, <1>2 DEF overlaps, HasPrefixDot
    <2>2. QED BY <1>1, <1>2, <2>1
<1>3. CASE Len(p) < Len(q)
    <2>1. SubSeq(q, 1, Len(p)) = [i \in 1 .. Len(p) |-> q[i]]
        BY <1>1, <1>3
    <2>2. overlaps(p, q) <=> SubSeq(q, 1, Len(p)) = p
        BY <1>1, <1>3 DEF overlaps, HasPrefixDot
    <2>3. QED BY <1>1, <1>3, <2>1, <2>2
<1>4. CASE Len(q) < Len(p)
    <2>1. SubSeq(p, 1, Len(q)) = [i \in 1 .. Len(q) |-> p[i]]
        BY <1>1, <1>4
    <2>2. overlaps(p, q) <=> SubSeq(p, 1, Len(q)) = q
        BY <1>1, <1>4 DEF overlaps, HasPrefixDot
    <2>3. QED BY <1>1, <1>4, <2>1, <2>2
<1>5. \A m, n \in Nat : m = n \/ m < n \/ n < m
    OBVIOUS
<1>6. QED BY <1>1, <1>2, <1>3, <1>4, <1>5, Zenon

\* Every path leads to a field, and to one that an overlapping path leads to.
LEMMA CommonField ==
    ASSUME NEW p \in PathsTo(MaxDepth), NEW q \in PathsTo(MaxDepth), overlaps(p, q)
    PROVE  \E f \in Fields : SubSeq(f, 1, Len(p)) = p /\ SubSeq(f, 1, Len(q)) = q
<1>1. /\ Len(p) \in 1 .. MaxDepth /\ p \in [1 .. Len(p) -> Segments]
      /\ Len(q) \in 1 .. MaxDepth /\ q \in [1 .. Len(q) -> Segments]
    BY PathShape
<1>2. PICK s \in Segments : TRUE
    BY AlgorithmsAssumption DEF AlgorithmsAssumption
<1>3. DEFINE f == [i \in 1 .. (MaxDepth + 1) |->
                      IF i <= Len(p) THEN p[i] ELSE IF i <= Len(q) THEN q[i] ELSE s]
<1>4. f \in Fields
    BY <1>1, <1>2, AlgorithmsAssumption DEF Fields, AlgorithmsAssumption
<1>5. \A i \in 1 .. Len(p) : f[i] = p[i]
    BY <1>1, AlgorithmsAssumption DEF AlgorithmsAssumption
<1>6. \A i \in 1 .. Len(q) : f[i] = q[i]
    BY <1>1, OverlapMeaning, AlgorithmsAssumption DEF AlgorithmsAssumption
<1>7. HIDE DEF f
<1>8. QED BY <1>4, <1>5, <1>6, LeadsTo

\* ScopesDisjoint is disjointness of the fields that two selectors stand for.
LEMMA ScopesDisjointMeaning ==
    ASSUME NEW a \in SUBSET PathsTo(MaxDepth), NEW b \in SUBSET PathsTo(MaxDepth)
    PROVE  ScopesDisjoint(a, b) <=> Written(a) \cap Written(b) = {}
<1>1. CASE a = {} /\ b = {}
    <2>1. Fields # {}
        <3>1. PICK s \in Segments : TRUE
            BY AlgorithmsAssumption DEF AlgorithmsAssumption
        <3>2. [i \in 1 .. (MaxDepth + 1) |-> s] \in Fields
            BY DEF Fields
        <3>3. QED BY <3>2
    <2>2. QED BY <1>1, <2>1 DEF ScopesDisjoint, Written
<1>2. \A p \in a \cup b : \E f \in Fields : SubSeq(f, 1, Len(p)) = p
    BY CommonField DEF overlaps
<1>3. CASE a = {} /\ b # {}
    BY <1>2, <1>3 DEF ScopesDisjoint, Written
<1>4. CASE a # {} /\ b = {}
    BY <1>2, <1>4 DEF ScopesDisjoint, Written
<1>5. CASE a # {} /\ b # {}
    <2>1. ASSUME NEW p \in a, NEW q \in b, overlaps(p, q)
          PROVE  Written(a) \cap Written(b) # {}
        BY <2>1, CommonField DEF Written
    <2>2. ASSUME NEW f \in Written(a) \cap Written(b)
          PROVE  \E p \in a, q \in b : overlaps(p, q)
        <3>1. PICK p \in a, q \in b :
                  SubSeq(f, 1, Len(p)) = p /\ SubSeq(f, 1, Len(q)) = q /\ f \in Fields
            BY <1>5 DEF Written
        <3>2. /\ \A i \in 1 .. Len(p) : f[i] = p[i]
              /\ \A i \in 1 .. Len(q) : f[i] = q[i]
            BY <3>1, LeadsTo
        <3>3. Len(p) \in Nat /\ Len(q) \in Nat
            BY PathShape
        <3>4. overlaps(p, q)
            BY <3>2, <3>3, OverlapMeaning
        <3>5. QED BY <3>4
    <2>3. QED BY <1>5, <2>1, <2>2 DEF ScopesDisjoint
<1>6. QED BY <1>1, <1>3, <1>4, <1>5

\* Nothing but two declared operations is ever compared.
PairInv == pair = <<>> \/ pair \in DeclaredOps \X DeclaredOps

\* A comparison is of two declarations.
LEMMA PairInvariant == Spec => []PairInv
<1>1. Init => PairInv
    BY DEF Init, PairInv
<1>2. PairInv /\ [Next]_vars => PairInv'
    BY DEF PairInv, Next, vars, Compare, IntentFound, BodiesSent, LatencyStep, SweepStep
<1>3. QED BY <1>1, <1>2, PTL DEF Spec

\* Two mutates are let through together exactly when there is no field that both
\* may write, for selectors of any number of paths of any depth.
THEOREM DisjointMeansNoCommonFieldCorrect == Spec => []DisjointMeansNoCommonField
<1>1. ASSUME PairInv PROVE DisjointMeansNoCommonField
    <2>1. SUFFICES ASSUME pair # <<>>, pair[1].class = "mutate", pair[2].class = "mutate"
                   PROVE  Compatible(pair[1], pair[2])
                              <=> Written(pair[1].scope) \cap Written(pair[2].scope) = {}
        BY DEF DisjointMeansNoCommonField
    <2>2. pair[1] \in DeclaredOps /\ pair[2] \in DeclaredOps
        BY <1>1, <2>1 DEF PairInv
    <2>3. \A op \in DeclaredOps : op.scope \in SUBSET PathsTo(MaxDepth)
        BY DEF DeclaredOps, Scopes
    <2>4. Compatible(pair[1], pair[2]) <=> ScopesDisjoint(pair[1].scope, pair[2].scope)
        BY <2>1 DEF Compatible
    <2>5. QED BY <2>2, <2>3, <2>4, ScopesDisjointMeaning
<1>2. QED BY <1>1, PairInvariant, PTL

-----------------------------------------------------------------------------
\* FirstOf is the least element of a set of positions.
LEMMA FirstIsLeast ==
    ASSUME NEW S, S \subseteq Nat, S # {}
    PROVE  FirstOf(S) \in S /\ \A j \in S : FirstOf(S) <= j
BY LeastElement DEF FirstOf

\* The window is a sequence of intents with their agents and statuses.
LEMMA CandidatesInvariant == Spec => [](candidates \in Seq(Candidates))
<1>1. Init => candidates \in Seq(Candidates)
    BY DEF Init
<1>2. candidates \in Seq(Candidates) /\ [Next]_vars => (candidates \in Seq(Candidates))'
    BY DEF Next, vars, Compare, IntentFound, BodiesSent, LatencyStep, SweepStep
<1>3. QED BY <1>1, <1>2, PTL DEF Spec

\* A 409 can be explained from the conflicts table, for windows of any length and
\* any cap on the pairs recorded.
THEOREM RejectionExplainedCorrect == Spec => []RejectionExplained
<1>1. ASSUME candidates \in Seq(Candidates) PROVE RejectionExplained
    <2> DEFINE others == Others(candidates)
               rows == Recorded(candidates)
               v == Resolved(candidates, TRUE)
    <2>1. SUFFICES ASSUME v.verdict = "rejected"
                   PROVE  /\ candidates[v.intent].agent = "other" /\ v.conflict \in v.rows
                          /\ Cardinality(OwnNewer) < MaxRecorded => v.intent \in v.rows
                          /\ candidates[1].agent = "other" => v.intent = v.conflict
        BY DEF RejectionExplained
    <2>2. /\ candidates # <<>> /\ others # {}
          /\ v.rows = rows /\ v.intent = FirstOf(others) /\ v.conflict = FirstOf(rows)
        BY <2>1 DEF Resolved
    <2>3. Len(candidates) \in Nat \ {0} /\ MaxRecorded \in Nat \ {0}
        BY <1>1, <2>2, RecordingAssumption DEF RecordingAssumption
    <2>4. others \subseteq 1 .. Len(candidates) /\ rows \subseteq 1 .. Len(candidates) /\ 1 \in rows
        BY <2>3 DEF Others, Recorded
    <2>5. FirstOf(others) \in others /\ \A j \in others : FirstOf(others) <= j
        BY <2>2, <2>4, FirstIsLeast
    <2>6. FirstOf(rows) \in rows /\ \A j \in rows : FirstOf(rows) <= j
        BY <2>4, FirstIsLeast
    <2>7. FirstOf(rows) = 1
        BY <2>4, <2>6
    <2>8. candidates[v.intent].agent = "other" /\ v.conflict \in v.rows
        BY <2>2, <2>5, <2>6 DEF Others
    <2>9. ASSUME Cardinality(OwnNewer) < MaxRecorded PROVE v.intent \in v.rows
        <3> DEFINE first == FirstOf(others)
        <3>1. first \in 1 .. Len(candidates) /\ candidates[first].agent = "other"
            BY <2>4, <2>5 DEF Others
        <3>2. \A j \in 1 .. Len(candidates) : j < first => candidates[j].agent = "own"
            <4>1. \A j \in 1 .. Len(candidates) : candidates[j] \in Candidates
                BY <1>1
            <4>2. QED BY <2>3, <2>5, <3>1, <4>1 DEF Others, Candidates
        <3>3. OwnNewer = 1 .. (first - 1)
            <4> HIDE DEF first
            <4>1. ASSUME NEW i \in OwnNewer PROVE i < first
                BY <2>3, <3>1 DEF OwnNewer
            <4>2. ASSUME NEW i \in 1 .. (first - 1) PROVE i \in OwnNewer
                BY <2>3, <3>1, <3>2 DEF OwnNewer
            <4>3. QED BY <2>3, <3>1, <4>1, <4>2 DEF OwnNewer
        <3>4. Cardinality(OwnNewer) = first - 1
            <4> HIDE DEF first
            <4>1. first - 1 \in Int /\ first \in Nat \ {0}
                BY <2>3, <3>1
            <4>2. QED BY <3>3, <4>1, FS_Interval
        <3>5. first \in rows
            <4> HIDE DEF first
            <4>1. QED BY <2>3, <2>9, <3>1, <3>4 DEF Recorded
        <3>6. QED BY <2>2, <3>5
    <2>10. ASSUME candidates[1].agent = "other" PROVE v.intent = v.conflict
        <3>1. 1 \in others
            BY <2>3, <2>10 DEF Others
        <3>2. FirstOf(others) = 1
            <4> HIDE DEF others
            <4>1. FirstOf(others) \in 1 .. Len(candidates) /\ FirstOf(others) <= 1
                BY <2>4, <2>5, <3>1, Zenon
            <4>2. QED BY <2>3, <4>1
        <3>3. QED BY <2>2, <2>7, <3>2
    <2>11. QED BY <2>8, <2>9, <2>10
<1>2. QED BY <1>1, CandidatesInvariant, PTL

-----------------------------------------------------------------------------
\* The queue is finite and its claims are numbered in order; the first keys have
\* the lowest numbers; and of them there are no more left to settle than there
\* were keys, less the sweeps made since.
SweepInv ==
    /\ queue \subseteq Nat \ {0} /\ IsFiniteSet(queue)
    /\ newest \in Nat /\ sweeps \in Nat
    /\ backlog.keys \in Nat /\ backlog.batch \in Nat /\ IsFiniteSet(backlog.broken)
    /\ backlog.keys <= newest
    /\ Cardinality(backlog.broken) < backlog.batch =>
           Waiting = {} \/ Cardinality(Waiting) + sweeps <= backlog.keys

\* A sweep settles the oldest key that can be settled, if there is one: the
\* broken ones do not fill the batch.
LEMMA SweepReachesOldest ==
    ASSUME SweepInv, Cardinality(backlog.broken) < backlog.batch, Waiting # {}
    PROVE  \E w \in Waiting : w \in staleKeys(queue, backlog.batch)
<1>1. Waiting \subseteq Nat
    BY DEF SweepInv, Waiting
<1>2. PICK w \in Waiting : \A x \in Waiting : w <= x
    BY <1>1, LeastElement
<1>3. DEFINE older == {j \in queue : j < w}
<1>4. w \in queue /\ w \in 1 .. backlog.keys
    BY DEF Waiting
<1>5. older \subseteq backlog.broken
    <2>1. ASSUME NEW x \in older, x \notin backlog.broken PROVE FALSE
        <3>1. x \in 1 .. backlog.keys
            BY <1>4 DEF SweepInv
        <3>2. x \in Waiting
            BY <2>1, <3>1 DEF Waiting
        <3>3. x \in Nat /\ w \in Nat /\ w <= x /\ x < w
            BY <1>1, <1>2, <3>2
        <3>4. QED BY <3>3
    <2>2. QED BY <2>1
<1>6. /\ Cardinality(older) \in Nat /\ Cardinality(backlog.broken) \in Nat
      /\ Cardinality(older) <= Cardinality(backlog.broken)
    <2>1. IsFiniteSet(backlog.broken)
        BY DEF SweepInv
    <2>2. IsFiniteSet(older) /\ Cardinality(older) <= Cardinality(backlog.broken)
        BY <1>5, <2>1, FS_Subset
    <2>3. QED BY <2>1, <2>2, FS_CardinalityType
<1>7. Cardinality(older) < backlog.batch
    BY <1>6 DEF SweepInv
<1>8. QED BY <1>4, <1>7 DEF staleKeys

\* Every sweep settles a key that was stale at first, while any is left.
LEMMA SweepStepInv ==
    ASSUME SweepInv, [Next]_vars
    PROVE  SweepInv'
<1> USE DEF sweepVars
<1>1. CASE UNCHANGED sweepVars
    BY <1>1 DEF SweepInv, Waiting
<1>2. IsFiniteSet(Waiting) /\ Cardinality(Waiting) \in Nat
    <2>1. IsFiniteSet(Waiting)
        BY FS_Subset DEF SweepInv, Waiting
    <2>2. QED BY <2>1, FS_CardinalityType
<1>3. ASSUME UNCHANGED backlog, Waiting' \subseteq Waiting, sweeps' = sweeps
      PROVE  (Cardinality(backlog.broken) < backlog.batch =>
                 Waiting = {} \/ Cardinality(Waiting) + sweeps <= backlog.keys)'
    <2>1. Cardinality(Waiting') \in Nat /\ Cardinality(Waiting') <= Cardinality(Waiting)
        BY <1>2, <1>3, FS_Subset, FS_CardinalityType
    <2>2. QED BY <1>2, <1>3, <2>1 DEF SweepInv
<1>4. ASSUME NEW keys \in 1 .. MaxKeys, NEW batch \in 1 .. MaxKeys,
             NEW broken \in SUBSET (1 .. MaxClaims), BacklogFound(keys, batch, broken)
      PROVE  SweepInv'
    <2>1. keys \in Nat /\ batch \in Nat
        BY AlgorithmsAssumption DEF AlgorithmsAssumption
    <2>2. IsFiniteSet(1 .. keys) /\ Cardinality(1 .. keys) = keys
        BY <2>1, FS_Interval
    <2>3. IsFiniteSet(broken)
        <3>1. IsFiniteSet(1 .. MaxClaims)
            BY FS_Interval, AlgorithmsAssumption DEF AlgorithmsAssumption
        <3>2. QED BY <3>1, FS_Subset
    <2>4. /\ backlog'.keys = keys /\ backlog'.batch = batch /\ backlog'.broken = broken
          /\ queue' = 1 .. keys /\ newest' = keys /\ sweeps' = 0
        BY <1>4 DEF BacklogFound, SweepInit
    <2>5. Waiting' \subseteq 1 .. keys
        BY <2>4 DEF Waiting
    <2>6. Cardinality(Waiting') \in Nat /\ Cardinality(Waiting') <= keys
        BY <2>2, <2>5, FS_Subset, FS_CardinalityType
    <2>7. QED BY <2>1, <2>2, <2>3, <2>4, <2>6 DEF SweepInv
<1>5. ASSUME SweepOnce PROVE SweepInv'
    <2>1. UNCHANGED <<newest, backlog>> /\ sweeps' = sweeps + 1 /\ queue' \subseteq queue
        BY <1>5 DEF SweepOnce
    <2>2. IsFiniteSet(queue')
        BY <2>1, FS_Subset DEF SweepInv
    <2>3. ASSUME Cardinality(backlog.broken) < backlog.batch, Waiting' # {}
          PROVE  Cardinality(Waiting') + sweeps' <= backlog.keys
        <3>1. Waiting' = Waiting \ staleKeys(queue, backlog.batch)
            BY <1>5, <2>1 DEF SweepOnce, Waiting
        <3>2. Waiting # {}
            BY <2>3, <3>1
        <3>3. PICK w \in Waiting : w \in staleKeys(queue, backlog.batch)
            BY <2>3, <3>2, SweepReachesOldest
        <3>4. Waiting' \subseteq Waiting /\ Waiting' # Waiting
            BY <3>1, <3>3
        <3>5. /\ Cardinality(Waiting') \in Nat
              /\ Cardinality(Waiting') <= Cardinality(Waiting)
              /\ Cardinality(Waiting') # Cardinality(Waiting)
            BY <1>2, <3>4, FS_Subset, FS_CardinalityType
        <3>6. QED BY <1>2, <2>1, <2>3, <3>2, <3>5 DEF SweepInv
    <2>4. QED BY <2>1, <2>2, <2>3 DEF SweepInv
<1>6. ASSUME GoStale PROVE SweepInv'
    <2>1. /\ UNCHANGED <<backlog, sweeps>> /\ newest' = newest + 1
          /\ queue' = queue \cup {newest + 1}
        BY <1>6 DEF GoStale
    <2>2. IsFiniteSet(queue')
        BY <2>1, FS_AddElement DEF SweepInv
    <2>3. Waiting' \subseteq Waiting
        BY <2>1 DEF SweepInv, Waiting
    <2>4. QED BY <1>3, <2>1, <2>2, <2>3 DEF SweepInv
<1>7. ASSUME NEW k \in queue, SettleOne(k) PROVE SweepInv'
    <2>1. UNCHANGED <<newest, backlog, sweeps>> /\ queue' \subseteq queue
        BY <1>7 DEF SettleOne
    <2>2. IsFiniteSet(queue')
        BY <2>1, FS_Subset DEF SweepInv
    <2>3. Waiting' \subseteq Waiting
        BY <2>1 DEF Waiting
    <2>4. QED BY <1>3, <2>1, <2>2, <2>3 DEF SweepInv
<1>8. QED BY <1>1, <1>4, <1>5, <1>6, <1>7
          DEF Next, vars, Compare, IntentFound, BodiesSent, LatencyStep, SweepStep

\* Keys whose probes fail do not hold up the others unless they fill a batch: for
\* any number of keys and any batch, as many sweeps as there are keys settle all
\* that can be settled, whatever goes stale or is settled meanwhile.
THEOREM BacklogDrainsCorrect == Spec => []BacklogDrains
<1>1. Init => SweepInv
    <2>1. SUFFICES ASSUME Init PROVE SweepInv
        OBVIOUS
    <2>2. IsFiniteSet({})
        BY FS_EmptySet
    <2>3. QED BY <2>1, <2>2 DEF Init, SweepInit, SweepInv, NoBacklog, Waiting
<1>2. SweepInv => BacklogDrains
    <2>1. SUFFICES ASSUME SweepInv, Cardinality(backlog.broken) < backlog.batch,
                          sweeps >= backlog.keys, Waiting # {}
                   PROVE  FALSE
        BY DEF BacklogDrains
    <2>2. IsFiniteSet(Waiting)
        BY <2>1, FS_Subset DEF SweepInv, Waiting
    <2>3. Cardinality(Waiting) \in Nat \ {0}
        BY <2>1, <2>2, FS_CardinalityType, FS_EmptySet
    <2>4. QED BY <2>1, <2>3 DEF SweepInv
<1>3. QED BY <1>1, <1>2, SweepStepInv, PTL DEF Spec

-----------------------------------------------------------------------------
\* The ring t is as long as the calls c that counted, up to the window, and read
\* from next on it has the last of them in their order.
RingOf(t, c) ==
    /\ c \in Seq(Durations)
    /\ t \in [samples : Seq(Durations), next : 0 .. Window - 1]
    /\ Len(t.samples) = IF Len(c) > Window THEN Window ELSE Len(c)
    /\ Len(t.samples) < Window => t.next = 0
    /\ \A i \in 1 .. Len(t.samples) : t.samples[Slot(t, i)] = c[Len(c) - Len(t.samples) + i]

RingInv == RingOf(tracker, counted)

\* The next slot wraps at the window.
LEMMA NextSlot ==
    ASSUME NEW w \in Nat \ {0}, NEW x \in 0 .. w - 1
    PROVE  (x + 1) % w = IF x + 1 = w THEN 0 ELSE x + 1
<1>1. CASE x + 1 = w
    BY <1>1
<1>2. CASE x + 1 # w
    BY <1>2
<1>3. QED BY <1>1, <1>2

\* A call that counts becomes the newest sample, in the place of the oldest once
\* the ring is full.
LEMMA ObserveStep ==
    ASSUME NEW t, NEW c, RingOf(t, c), NEW took \in Durations
    PROVE  RingOf(Observe(t, took), Append(c, took))
<1> DEFINE s == t.samples
           nx == t.next
           n == Len(s)
           m == Len(c)
           u == Observe(t, took)
           d == Append(c, took)
<1>1. /\ c \in Seq(Durations) /\ s \in Seq(Durations) /\ nx \in 0 .. Window - 1
      /\ n \in Nat /\ m \in Nat /\ Window \in Nat \ {0}
      /\ t = [samples |-> s, next |-> nx]
    BY LatencyAssumption DEF RingOf, LatencyAssumption
<1>2. /\ n = IF m > Window THEN Window ELSE m
      /\ n < Window => nx = 0
      /\ \A i \in 1 .. n : s[IF nx + i <= n THEN nx + i ELSE nx + i - n] = c[m - n + i]
    <2>1. \A i \in 1 .. n : s[Slot(t, i)] = c[m - n + i]
        BY DEF RingOf
    <2>2. \A i \in 1 .. n : Slot(t, i) = IF nx + i <= n THEN nx + i ELSE nx + i - n
        BY <1>1 DEF Slot
    <2>3. QED BY <2>1, <2>2 DEF RingOf
<1>3. /\ d \in Seq(Durations) /\ Len(d) = m + 1 /\ d[m + 1] = took
      /\ \A i \in 1 .. m : d[i] = c[i]
    BY <1>1
<1>4. CASE n < Window
    <2>1. t = [samples |-> s, next |-> 0] /\ nx = 0 /\ m = n
        BY <1>1, <1>2, <1>4
    <2>2. u = [samples |-> Append(s, took), next |-> 0]
        BY <1>4, <2>1 DEF Observe
    <2>3. /\ u.samples = Append(s, took) /\ u.next = 0
          /\ Len(u.samples) = n + 1 /\ u.samples \in Seq(Durations)
        BY <1>1, <2>2
    <2>4. \A i \in 1 .. n : s[i] = c[i]
        <3>1. TAKE i \in 1 .. n
        <3>2. nx + i <= n /\ nx + i = i /\ m - n + i = i
            BY <1>1, <2>1
        <3>3. QED BY <1>2, <3>2
    <2>5. \A i \in 1 .. n + 1 : u.samples[i] = d[i]
        BY <1>1, <1>3, <2>1, <2>3, <2>4
    <2>6. \A i \in 1 .. n + 1 : Slot(u, i) = i
        BY <1>1, <2>3 DEF Slot
    <2>7. \A i \in 1 .. Len(u.samples) : u.samples[Slot(u, i)] = d[Len(d) - Len(u.samples) + i]
        <3>1. TAKE i \in 1 .. Len(u.samples)
        <3>2. i \in 1 .. n + 1 /\ Len(d) - Len(u.samples) + i = i
            BY <1>1, <1>3, <2>1, <2>3
        <3>3. QED BY <2>5, <2>6, <3>2
    <2>8. u \in [samples : Seq(Durations), next : 0 .. Window - 1]
        BY <1>1, <2>2, <2>3
    <2>9. /\ Len(u.samples) = IF Len(d) > Window THEN Window ELSE Len(d)
          /\ Len(u.samples) < Window => u.next = 0
        BY <1>1, <1>3, <1>4, <2>1, <2>3
    <2> HIDE DEF s, nx, n, m, u, d
    <2>10. RingOf(u, d)
        BY <1>3, <2>7, <2>8, <2>9 DEF RingOf
    <2>11. QED BY <2>10 DEF u, d
<1>5. CASE n = Window
    <2>1. nx + 1 \in 1 .. n /\ m >= Window /\ ~ (n < Window)
        BY <1>1, <1>2, <1>5
    <2>2. u = [samples |-> [s EXCEPT ![nx + 1] = took], next |-> IF nx + 1 = Window THEN 0 ELSE nx + 1]
        BY <1>1, <2>1, NextSlot DEF Observe
    <2>3. /\ u.samples = [s EXCEPT ![nx + 1] = took]
          /\ u.next = IF nx + 1 = Window THEN 0 ELSE nx + 1
        BY <2>2
    <2>4. /\ u.samples \in Seq(Durations) /\ Len(u.samples) = n
          /\ \A j \in 1 .. n : u.samples[j] = IF j = nx + 1 THEN took ELSE s[j]
        BY <1>1, <2>1, <2>3, ExceptSeq
    <2>5. u.next \in 0 .. Window - 1
        BY <1>1, <2>3
    <2>6. u \in [samples : Seq(Durations), next : 0 .. Window - 1]
        BY <2>2, <2>3, <2>4, <2>5
    <2>7. /\ Len(u.samples) = IF Len(d) > Window THEN Window ELSE Len(d)
          /\ Len(u.samples) < Window => u.next = 0
        BY <1>1, <1>3, <1>5, <2>1, <2>4
    <2>8. ASSUME NEW i \in 1 .. Len(u.samples)
          PROVE  u.samples[Slot(u, i)] = d[Len(d) - Len(u.samples) + i]
        <3> HIDE DEF s, nx, n, m, u, d
        <3>1. i \in 1 .. n /\ Len(d) - Len(u.samples) + i = m - n + i + 1
            BY <1>1, <1>3, <2>4, <2>8
        <3>2. CASE i = n
            <4>1. Slot(u, i) = nx + 1
                BY <1>1, <1>5, <2>3, <2>4, <3>2 DEF Slot
            <4>2. u.samples[nx + 1] = took
                BY <2>1, <2>4
            <4>3. m - n + i + 1 = m + 1
                BY <1>1, <3>2
            <4>4. QED BY <1>3, <3>1, <4>1, <4>2, <4>3
        <3>3. CASE i < n
            <4> DEFINE slot == IF nx + (i + 1) <= n THEN nx + (i + 1) ELSE nx + (i + 1) - n
            <4>1. i + 1 \in 1 .. n /\ m - n + i + 1 \in 1 .. m /\ m - n + (i + 1) = m - n + i + 1
                BY <1>1, <1>5, <2>1, <3>1, <3>3
            <4>2. slot \in 1 .. n /\ slot # nx + 1
                BY <1>1, <1>5, <3>1, <3>3
            <4>3. Slot(u, i) = slot
                <5>1. Slot(u, i) = IF u.next + i <= n THEN u.next + i ELSE u.next + i - n
                    BY <1>1, <2>4, <2>5, <3>1 DEF Slot
                <5>2. CASE nx + 1 = Window
                    <6>1. u.next + i = i /\ i <= n /\ slot = i
                        BY <1>1, <1>5, <2>3, <3>1, <3>3, <5>2
                    <6>2. QED BY <5>1, <6>1
                <5>3. CASE nx + 1 # Window
                    <6>1. u.next + i = nx + (i + 1)
                        BY <1>1, <2>3, <3>1, <5>3
                    <6>2. CASE nx + (i + 1) <= n
                        BY <5>1, <6>1, <6>2
                    <6>3. CASE ~ (nx + (i + 1) <= n)
                        <7>1. slot = u.next + i - n
                            <8>1. slot = nx + (i + 1) - n
                                BY <6>3
                            <8> HIDE DEF slot
                            <8>2. u.next \in Int /\ nx \in Int /\ i \in Int /\ n \in Int
                                BY <1>1, <2>5, <3>1
                            <8>3. u.next + i - n = nx + (i + 1) - n
                                BY <6>1, <8>2
                            <8>4. QED BY <8>1, <8>3
                        <7>2. ~ (u.next + i <= n)
                            BY <6>1, <6>3
                        <7>3. QED BY <5>1, <7>1, <7>2
                    <6>4. QED BY <6>2, <6>3
                <5>4. QED BY <5>2, <5>3
            <4>4. s[slot] = c[m - n + i + 1]
                BY <1>2, <4>1
            <4>5. u.samples[slot] = s[slot]
                BY <2>4, <4>2
            <4>6. d[m - n + i + 1] = c[m - n + i + 1]
                BY <1>3, <4>1
            <4> HIDE DEF slot
            <4>7. QED BY <3>1, <4>3, <4>4, <4>5, <4>6, Zenon
        <3>4. i = n \/ i < n
            BY <1>1, <3>1
        <3>5. QED BY <3>2, <3>3, <3>4
    <2> HIDE DEF s, nx, n, m, u, d
    <2>9. RingOf(u, d)
        BY <1>3, <2>6, <2>7, <2>8 DEF RingOf
    <2>10. QED BY <2>9 DEF u, d
<1>6. n < Window \/ n = Window
    BY <1>1, <1>2
<1>7. QED BY <1>4, <1>5, <1>6

\* The ring follows the calls.
LEMMA RingInvariant == Spec => []RingInv
<1>1. Init => RingInv
    BY LatencyAssumption DEF Init, LatencyInit, NewTracker, RingInv, RingOf, LatencyAssumption
<1>2. RingInv /\ [Next]_vars => RingInv'
    <2>1. SUFFICES ASSUME RingInv, [Next]_vars PROVE RingInv'
        OBVIOUS
    <2>2. CASE UNCHANGED latencyVars
        BY <2>1, <2>2 DEF RingInv, latencyVars
    <2>3. ASSUME NEW c \in Calls, CallMade(c) PROVE RingInv'
        <3>1. CASE c.failed
            BY <2>2, <2>3, <3>1 DEF CallMade, Measure, latencyVars
        <3>2. CASE ~ c.failed
            BY <2>1, <2>3, <3>2, ObserveStep DEF RingInv, CallMade, Measure, Calls
        <3>3. QED BY <3>1, <3>2
    <2>4. QED BY <2>1, <2>2, <2>3
              DEF Next, vars, Compare, IntentFound, BodiesSent, LatencyStep, SweepStep, latencyVars
<1>3. QED BY <1>1, <1>2, PTL DEF Spec

\* What Recent is, call by call.
LEMMA RecentShape ==
    ASSUME RingInv
    PROVE  /\ Recent \in Seq(Durations) /\ Len(Recent) = Len(tracker.samples)
           /\ \A i \in 1 .. Len(Recent) : Recent[i] = counted[Len(counted) - Len(tracker.samples) + i]
<1> DEFINE m == Len(counted)
           n == Len(tracker.samples)
<1>1. /\ m \in Nat /\ n \in Nat /\ Window \in Nat \ {0} /\ counted \in Seq(Durations)
      /\ n = IF m > Window THEN Window ELSE m
    BY LatencyAssumption DEF RingInv, RingOf, LatencyAssumption
<1>2. Recent = SubSeq(counted, m - n + 1, m)
    <2>1. (IF m > Window THEN m - Window + 1 ELSE 1) = m - n + 1
        BY <1>1
    <2>2. QED BY <2>1, Zenon DEF Recent
<1>3. \A i \in (m - n + 1) .. m : counted[i] \in Durations
    BY <1>1
<1>4. /\ SubSeq(counted, m - n + 1, m) \in Seq(Durations)
      /\ Len(SubSeq(counted, m - n + 1, m)) = n
      /\ \A i \in 1 .. n : SubSeq(counted, m - n + 1, m)[i] = counted[m - n + i]
    <2> HIDE DEF m, n
    <2>1. m - n + 1 \in Int /\ m \in Int
        BY <1>1
    <2>2. /\ SubSeq(counted, m - n + 1, m) \in Seq(Durations)
          /\ Len(SubSeq(counted, m - n + 1, m)) = IF m - n + 1 <= m THEN m - (m - n + 1) + 1 ELSE 0
          /\ \A i \in 1 .. m - (m - n + 1) + 1 :
                 SubSeq(counted, m - n + 1, m)[i] = counted[m - n + 1 + i - 1]
        BY <1>3, <2>1, SubSeqProperties
    <2>3. m - (m - n + 1) + 1 = n /\ \A i \in 1 .. n : m - n + 1 + i - 1 = m - n + i
        BY <1>1
    <2>4. QED BY <1>1, <2>2, <2>3
<1>5. QED BY <1>2, <1>4

\* The ring has the most recent calls that were not refused, for a window of any
\* size and any number of calls.
THEOREM RingIsRecentCorrect == Spec => []RingIsRecent
<1>1. RingInv => RingIsRecent
    BY RecentShape DEF RingInv, RingOf, RingIsRecent
<1>2. QED BY <1>1, RingInvariant, PTL

-----------------------------------------------------------------------------
\* A sequence of naturals has an upper bound.
LEMMA SamplesBounded ==
    ASSUME NEW s \in Seq(Nat)
    PROVE  \E b \in Nat : \A i \in 1 .. Len(s) : s[i] <= b
<1> DEFINE Bound(k) == \E b \in Nat : \A i \in 1 .. k : s[i] <= b
           Unbounded == {k \in 0 .. Len(s) : ~ Bound(k)}
<1>1. Len(s) \in Nat /\ \A i \in 1 .. Len(s) : s[i] \in Nat
    OBVIOUS
<1>2. SUFFICES ASSUME Unbounded # {} PROVE FALSE
    <2>1. Len(s) \in 0 .. Len(s)
        BY <1>1
    <2>2. Unbounded = {} => Bound(Len(s))
        <3> HIDE DEF Bound
        <3>1. QED BY <2>1
    <2>3. QED BY <2>2
<1>3. PICK k \in Unbounded : \A j \in Unbounded : k <= j
    <2>1. Unbounded \subseteq Nat
        BY <1>1
    <2> HIDE DEF Unbounded
    <2>2. QED BY <1>2, <2>1, LeastElement
<1>4. k # 0
    <2>1. Bound(0)
        <3>1. \A i \in 1 .. 0 : s[i] <= 0
            OBVIOUS
        <3>2. QED BY <3>1
    <2>2. QED BY <2>1
<1>5. k - 1 \in 0 .. Len(s) /\ k \in 1 .. Len(s) /\ ~ (k <= k - 1)
    BY <1>1, <1>4
<1>6. Bound(k - 1)
    BY <1>3, <1>5
<1>7. PICK b \in Nat : \A i \in 1 .. k - 1 : s[i] <= b
    BY <1>6
<1>8. PICK c \in Nat : b <= c /\ s[k] <= c
    <2>1. s[k] \in Nat
        BY <1>1, <1>5
    <2>2. \A x \in Nat : b <= b + x /\ x <= b + x /\ b + x \in Nat
        OBVIOUS
    <2>3. QED BY <2>1, <2>2
<1>9. \A i \in 1 .. k : s[i] <= c
    <2>1. TAKE i \in 1 .. k
    <2>2. i = k \/ i \in 1 .. k - 1
        BY <1>5
    <2>3. s[i] \in Nat
        BY <1>1, <1>5
    <2>4. CASE i = k
        BY <1>8, <2>4
    <2>5. CASE i \in 1 .. k - 1
        <3>1. s[i] <= b
            BY <1>7, <2>5
        <3>2. \A x, y, z \in Nat : x <= y /\ y <= z => x <= z
            OBVIOUS
        <3>3. QED BY <1>8, <2>3, <3>1, <3>2, Zenon
    <2>6. QED BY <2>2, <2>4, <2>5
<1>10. QED BY <1>9

\* Durations are natural numbers.
LEMMA DurationsAreNumbers ==
    ASSUME NEW s \in Seq(Durations)
    PROVE  s \in Seq(Nat)
<1>1. Durations \subseteq Nat
    BY LatencyAssumption DEF LatencyAssumption
<1>2. s \in [1 .. Len(s) -> Durations] /\ Len(s) \in Nat
    OBVIOUS
<1>3. s \in [1 .. Len(s) -> Nat]
    BY <1>1, <1>2
<1>4. QED BY <1>2, <1>3, SeqDef

\* How many samples are above and below a duration.
LEMMA CountSamples ==
    ASSUME NEW s \in Seq(Nat), NEW d
    PROVE  /\ Above(s, d) \subseteq 1 .. Len(s) /\ IsFiniteSet(Above(s, d))
           /\ Cardinality(Above(s, d)) \in Nat
           /\ Below(s, d) \subseteq 1 .. Len(s) /\ IsFiniteSet(Below(s, d))
           /\ Cardinality(Below(s, d)) \in Nat
           /\ IsFiniteSet(1 .. Len(s)) /\ Cardinality(1 .. Len(s)) = Len(s)
<1>1. Len(s) \in Nat /\ DOMAIN s = 1 .. Len(s)
    OBVIOUS
<1>2. IsFiniteSet(1 .. Len(s)) /\ Cardinality(1 .. Len(s)) = Len(s)
    <2>1. 1 \in Int /\ Len(s) \in Int
        BY <1>1
    <2>2. /\ IsFiniteSet(1 .. Len(s))
          /\ Cardinality(1 .. Len(s)) = IF 1 > Len(s) THEN 0 ELSE Len(s) - 1 + 1
        BY <2>1, FS_Interval, Zenon
    <2>3. (IF 1 > Len(s) THEN 0 ELSE Len(s) - 1 + 1) = Len(s)
        BY <1>1
    <2>4. QED BY <2>2, <2>3
<1>3. Above(s, d) \in SUBSET (1 .. Len(s)) /\ Below(s, d) \in SUBSET (1 .. Len(s))
    BY <1>1 DEF Above, Below
<1>4. IsFiniteSet(Above(s, d)) /\ IsFiniteSet(Below(s, d))
    BY <1>2, <1>3, FS_Subset
<1>5. QED BY <1>2, <1>3, <1>4, FS_CardinalityType

\* Some sample is where the sort would put it: the least natural with fewer than
\* n - at samples above it.
LEMMA SortedAtExists ==
    ASSUME NEW s \in Seq(Nat), NEW at \in 0 .. Len(s) - 1
    PROVE  /\ SortedAt(s, at) \in Range(s)
           /\ Cardinality(Below(s, SortedAt(s, at))) <= at
           /\ Cardinality(Above(s, SortedAt(s, at))) < Len(s) - at
<1> DEFINE n == Len(s)
           Few == {v \in Nat : Cardinality(Above(s, v)) < n - at}
<1>1. n \in Nat /\ DOMAIN s = 1 .. n /\ at \in Nat /\ at < n /\ \A i \in 1 .. n : s[i] \in Nat
    OBVIOUS
<1>2. Few # {}
    <2>1. PICK b \in Nat : \A i \in 1 .. n : s[i] <= b
        BY SamplesBounded
    <2>2. Above(s, b) = {}
        BY <1>1, <2>1 DEF Above
    <2>3. Cardinality(Above(s, b)) = 0
        BY <2>2, FS_EmptySet
    <2>4. QED BY <1>1, <2>3
<1>3. PICK v \in Few : \A w \in Few : v <= w
    <2>1. Few \subseteq Nat
        OBVIOUS
    <2> HIDE DEF Few
    <2>2. QED BY <1>2, <2>1, LeastElement
<1>4. v \in Nat /\ Cardinality(Above(s, v)) < n - at
    BY <1>3
<1>5. v \in Range(s) /\ Cardinality(Below(s, v)) <= at
    <2>1. CASE v = 0
        <3>1. Below(s, v) = {}
            BY <1>1, <2>1 DEF Below
        <3>2. Cardinality(Below(s, v)) <= at
            BY <1>1, <3>1, FS_EmptySet
        <3>3. Above(s, v) # 1 .. n
            BY <1>1, <1>4, CountSamples
        <3>4. PICK i \in 1 .. n : i \notin Above(s, v)
            BY <3>3, CountSamples
        <3>5. s[i] = v
            BY <1>1, <2>1, <3>4 DEF Above
        <3>6. QED BY <1>1, <3>2, <3>5 DEF Range
    <2>2. CASE v # 0
        <3>1. v - 1 \in Nat /\ ~ (v <= v - 1)
            BY <1>4, <2>2
        <3>2. ~ (Cardinality(Above(s, v - 1)) < n - at)
            BY <1>3, <3>1
        <3>3. Cardinality(Above(s, v - 1)) >= n - at
            BY <1>1, <3>2, CountSamples
        <3>4. (1 .. n) \ Below(s, v) = Above(s, v - 1)
            BY <1>1, <1>4 DEF Above, Below
        <3>5. (1 .. n) \cap Below(s, v) = Below(s, v)
            BY CountSamples
        <3>6. Cardinality(Above(s, v - 1)) = n - Cardinality(Below(s, v))
            <4>1. IsFiniteSet(1 .. n) /\ IsFiniteSet(Below(s, v)) /\ Cardinality(1 .. n) = n
                BY CountSamples
            <4>2. Cardinality((1 .. n) \ Below(s, v)) =
                      Cardinality(1 .. n) - Cardinality((1 .. n) \cap Below(s, v))
                BY <4>1, FS_Difference, Zenon
            <4>3. QED BY <3>4, <3>5, <4>1, <4>2, Zenon
        <3>7. Cardinality(Below(s, v)) <= at
            BY <1>1, <3>3, <3>6, CountSamples
        <3>8. Above(s, v) # Above(s, v - 1)
            BY <1>4, <3>2
        <3>9. Above(s, v) \subseteq Above(s, v - 1)
            BY <1>1, <1>4 DEF Above
        <3>10. PICK i \in Above(s, v - 1) : i \notin Above(s, v)
            BY <3>8, <3>9
        <3>11. i \in 1 .. n /\ s[i] = v
            BY <1>1, <1>4, <3>10 DEF Above
        <3>12. QED BY <1>1, <3>7, <3>11 DEF Range
    <2>3. QED BY <2>1, <2>2
<1>6. \E d \in Range(s) : Cardinality(Below(s, d)) <= at /\ Cardinality(Above(s, d)) < Len(s) - at
    BY <1>4, <1>5
<1>7. QED BY <1>6 DEF SortedAt

\* The slots of two samples differ, and a slot is in the ring.
LEMMA SlotInjective ==
    ASSUME RingInv
    PROVE  /\ \A i \in 1 .. Len(tracker.samples) : Slot(tracker, i) \in 1 .. Len(tracker.samples)
           /\ \A i, j \in 1 .. Len(tracker.samples) :
                  Slot(tracker, i) = Slot(tracker, j) => i = j
<1> DEFINE n == Len(tracker.samples)
           nx == tracker.next
<1>1. n \in Nat /\ nx \in Nat /\ (n > 0 => nx < n)
    BY LatencyAssumption DEF RingInv, RingOf, LatencyAssumption
<1>2. \A i \in 1 .. n : Slot(tracker, i) = IF nx + i <= n THEN nx + i ELSE nx + i - n
    BY <1>1 DEF Slot
<1> HIDE DEF n, nx
<1>3. \A i \in 1 .. n : Slot(tracker, i) \in 1 .. n
    BY <1>1, <1>2
<1>4. ASSUME NEW i \in 1 .. n, NEW j \in 1 .. n, Slot(tracker, i) = Slot(tracker, j) PROVE i = j
    BY <1>1, <1>2, <1>4
<1>5. QED BY <1>3, <1>4 DEF n

\* As many recent calls are above, and below, a duration as samples of the ring.
LEMMA RecentCounts ==
    ASSUME RingInv, NEW d
    PROVE  /\ Cardinality(Above(Recent, d)) <= Cardinality(Above(tracker.samples, d))
           /\ Cardinality(Below(Recent, d)) <= Cardinality(Below(tracker.samples, d))
<1> DEFINE s == tracker.samples
           n == Len(s)
           f == [i \in Above(Recent, d) |-> Slot(tracker, i)]
           g == [i \in Below(Recent, d) |-> Slot(tracker, i)]
<1>1. /\ s \in Seq(Nat) /\ DOMAIN s = 1 .. n /\ DOMAIN Recent = 1 .. n
      /\ \A i \in 1 .. n : Recent[i] = s[Slot(tracker, i)]
    <2>1. s \in Seq(Nat) /\ \A i \in 1 .. n : s[Slot(tracker, i)] = counted[Len(counted) - n + i]
        BY DurationsAreNumbers DEF RingInv, RingOf
    <2>2. /\ Recent \in Seq(Durations) /\ Len(Recent) = n
          /\ \A i \in 1 .. n : Recent[i] = counted[Len(counted) - n + i]
        BY RecentShape
    <2> HIDE DEF n
    <2>3. DOMAIN s = 1 .. n /\ DOMAIN Recent = 1 .. n
        BY <2>1, <2>2 DEF n
    <2>4. QED BY <2>1, <2>2, <2>3
<1>2. \A i \in 1 .. n : Slot(tracker, i) \in 1 .. n
    BY SlotInjective
<1>3. \A i, j \in 1 .. n : Slot(tracker, i) = Slot(tracker, j) => i = j
    BY SlotInjective
<1> HIDE DEF s, n
<1>4. f \in Injection(Above(Recent, d), Above(s, d))
    BY <1>1, <1>2, <1>3 DEF Injection, IsInjective, Above
<1>5. g \in Injection(Below(Recent, d), Below(s, d))
    BY <1>1, <1>2, <1>3 DEF Injection, IsInjective, Below
<1>6. IsFiniteSet(Above(s, d)) /\ IsFiniteSet(Below(s, d))
    BY <1>1, CountSamples
<1> HIDE DEF f, g
<1>7. QED BY <1>4, <1>5, <1>6, FS_Injection DEF s

\* The index of the p95 is one of the ring's, and cut to an integer.
LEMMA IndexInRing ==
    ASSUME NEW n \in Nat, n > 0
    PROVE  LET idx == PercentileIndex(n) IN
           idx \in 0 .. n - 1 /\ 100 * idx <= 95 * (n - 1) /\ 95 * (n - 1) < 100 * idx + 100
<1>1. PICK k \in Nat : k = (n - 1) * 95
    OBVIOUS
<1>2. k \div 100 \in Nat /\ 100 * (k \div 100) <= k /\ k < 100 * (k \div 100) + 100
    OBVIOUS
<1>3. QED BY <1>1, <1>2 DEF PercentileIndex

\* The advice is the clamped p95 of the recent calls, for a window, a floor and a
\* ceiling of any size: the index never leaves the ring, and what is there has
\* the right share of the calls on either side.
THEOREM AdviceIsP95Correct == Spec => []AdviceIsP95
<1>1. RingInv => AdviceIsP95
    <2> SUFFICES ASSUME RingInv PROVE AdviceIsP95
        OBVIOUS
    <2> DEFINE s == tracker.samples
               n == Len(s)
               advice == RetryAfter(tracker)
               longer == Cardinality(Above(Recent, advice))
               shorter == Cardinality(Below(Recent, advice))
               idx == PercentileIndex(n)
               d == SortedAt(s, idx)
    <2>1. /\ s \in Seq(Nat) /\ n \in Nat /\ Len(Recent) = n
          /\ Recent \in Seq(Nat)
        BY RecentShape, DurationsAreNumbers DEF RingInv, RingOf
    <2>2. Floor \in Nat /\ Ceiling \in Nat /\ Floor <= Ceiling /\ Default \in Floor .. Ceiling
        BY LatencyAssumption DEF LatencyAssumption
    <2>3. longer \in Nat /\ shorter \in Nat
        BY <2>1, CountSamples
    <2>4. CASE n = 0
        <3>1. s = <<>>
            BY <2>1, <2>4
        <3>2. advice = Default
            BY <3>1 DEF RetryAfter
        <3>3. QED BY <2>1, <2>2, <2>4, <3>2 DEF AdviceIsP95
    <2>5. CASE n > 0
        <3>1. idx \in 0 .. n - 1 /\ 100 * idx <= 95 * (n - 1) /\ 95 * (n - 1) < 100 * idx + 100
            BY <2>1, <2>5, IndexInRing
        <3>2. /\ d \in Range(s)
              /\ Cardinality(Below(s, d)) <= idx
              /\ Cardinality(Above(s, d)) < n - idx
            BY <2>1, <3>1, SortedAtExists
        <3>3. d \in Nat
            BY <2>1, <3>2 DEF Range
        <3>4. s # <<>>
            BY <2>1, <2>5
        <3>5. advice = IF d < Floor THEN Floor ELSE IF d > Ceiling THEN Ceiling ELSE d
            BY <3>4 DEF RetryAfter, clamp
        <3> HIDE DEF n, s, advice, longer, shorter, idx, d
        <3>6. advice \in Floor .. Ceiling
            BY <2>2, <3>3, <3>5
        <3>7. ASSUME advice < Ceiling PROVE 20 * (longer - 1) <= n - 1
            <4>1. d <= advice
                BY <2>2, <3>3, <3>5, <3>7
            <4>2. Above(s, advice) \in SUBSET Above(s, d)
                BY <2>1, <2>2, <3>3, <3>6, <4>1 DEF Above
            <4>3. Cardinality(Above(s, advice)) <= Cardinality(Above(s, d))
                BY <2>1, <4>2, CountSamples, FS_Subset
            <4>4. longer <= Cardinality(Above(s, advice))
                BY RecentCounts DEF longer, s
            <4>5. longer < n - idx
                BY <2>1, <2>3, <3>1, <3>2, <4>3, <4>4, CountSamples
            <4>6. QED BY <2>1, <2>3, <3>1, <4>5
        <3>8. ASSUME advice > Floor PROVE 20 * shorter <= 19 * (n - 1)
            <4>1. advice <= d
                BY <2>2, <3>3, <3>5, <3>8
            <4>2. Below(s, advice) \in SUBSET Below(s, d)
                BY <2>1, <2>2, <3>3, <3>6, <4>1 DEF Below
            <4>3. Cardinality(Below(s, advice)) <= Cardinality(Below(s, d))
                BY <2>1, <4>2, CountSamples, FS_Subset
            <4>4. shorter <= Cardinality(Below(s, advice))
                BY RecentCounts DEF shorter, s
            <4>5. shorter <= idx
                BY <2>1, <2>3, <3>1, <3>2, <4>3, <4>4, CountSamples
            <4>6. QED BY <2>1, <2>3, <3>1, <4>5
        <3>9. QED BY <2>1, <3>6, <3>7, <3>8 DEF AdviceIsP95, n, advice, longer, shorter
    <2>6. QED BY <2>1, <2>4, <2>5
<1>2. QED BY <1>1, RingInvariant, PTL

-----------------------------------------------------------------------------
\* Doubles are naturals, and zero is one of them.
LEMMA DoublesAreNumbers == Doubles \subseteq Nat /\ 0 \in Doubles
<1>1. Carry \in Nat \ {0} /\ Units \subseteq Nat /\ 1 \in Units
    BY CanonicalAssumption DEF CanonicalAssumption
<1>2. \A m, u \in Nat : m * u \in Nat
    OBVIOUS
<1>3. 0 \in 0 .. Carry - 1 /\ 0 = 0 * 1 /\ 0 .. Carry - 1 \subseteq Nat
    BY <1>1
<1>4. 0 \in Doubles
    BY <1>1, <1>3 DEF Doubles
<1>5. Doubles \subseteq Nat
    BY <1>1, <1>2, <1>3 DEF Doubles
<1>6. QED BY <1>4, <1>5

\* Rounding finds a double, and no double is nearer.
LEMMA NearestIsClosest ==
    ASSUME NEW v \in Nat
    PROVE  Nearest(v) \in Doubles /\ \A e \in Doubles : Distance(Nearest(v), v) <= Distance(e, v)
<1> DEFINE Distances == {Distance(d, v) : d \in Doubles}
<1>1. \A d \in Doubles : Distance(d, v) \in Nat
    BY DoublesAreNumbers DEF Distance
<1>2. Distances \subseteq Nat /\ Distances # {}
    BY <1>1, DoublesAreNumbers
<1>3. PICK x \in Distances : \A y \in Distances : x <= y
    <2> HIDE DEF Distances
    <2>1. QED BY <1>2, LeastElement
<1>4. PICK d \in Doubles : x = Distance(d, v)
    OBVIOUS
<1>5. d \in Closest(v)
    BY <1>3, <1>4 DEF Closest
<1>6. \E c \in Closest(v) : (\E e \in Closest(v) : IsEven(e, v)) => IsEven(c, v)
    BY <1>5, Zenon
<1>7. Nearest(v) \in Closest(v)
    BY <1>6, Zenon DEF Nearest
<1>8. QED BY <1>7 DEF Closest

\* A double is not rounded.
LEMMA NearestExact ==
    ASSUME NEW v \in Doubles
    PROVE  Nearest(v) = v
<1>1. v \in Nat
    BY DoublesAreNumbers
<1>2. Nearest(v) \in Nat /\ Distance(Nearest(v), v) <= Distance(v, v)
    BY <1>1, NearestIsClosest, DoublesAreNumbers
<1>3. QED BY <1>1, <1>2 DEF Distance

\* Every integer below two to the precision is a double.
LEMMA IntegersAreDoubles ==
    ASSUME NEW v \in Nat, v % 2 = 0, v <= 2 * maxSafeInteger
    PROVE  v \in Doubles
<1>1. Carry \in Nat \ {0} /\ 2 \in Units
    BY CanonicalAssumption DEF CanonicalAssumption
<1>2. PICK m \in Nat : v = m * 2
    <2>1. v \div 2 \in Nat /\ v = (v \div 2) * 2
        OBVIOUS
    <2>2. QED BY <2>1
<1>3. m \in 0 .. Carry - 1
    BY <1>1, <1>2 DEF maxSafeInteger
<1>4. \E x \in 0 .. Carry - 1, u \in Units : v = x * u
    BY <1>1, <1>2, <1>3, Zenon
<1>5. QED BY <1>4 DEF Doubles

\* Two to the precision is a double, so that what is as large is not rounded
\* below it.
LEMMA LargeStaysLarge ==
    ASSUME NEW v \in Nat, v >= 2 * Carry
    PROVE  Nearest(v) >= 2 * Carry
<1>1. Carry \in Nat \ {0} /\ Carry % 2 = 0 /\ 4 \in Units
    BY CanonicalAssumption DEF CanonicalAssumption
<1>2. PICK k \in Nat : Carry = k * 2
    <2>1. Carry \div 2 \in Nat /\ Carry = (Carry \div 2) * 2
        BY <1>1
    <2>2. QED BY <2>1
<1>3. k \in 0 .. Carry - 1 /\ 2 * Carry = k * 4
    BY <1>1, <1>2
<1>4. 2 * Carry \in Doubles
    <2>1. \E x \in 0 .. Carry - 1, u \in Units : 2 * Carry = x * u
        BY <1>1, <1>3, Zenon
    <2>2. QED BY <2>1 DEF Doubles
<1>5. Nearest(v) \in Nat /\ Distance(Nearest(v), v) <= Distance(2 * Carry, v)
    BY <1>4, NearestIsClosest, DoublesAreNumbers
<1>6. QED BY <1>1, <1>5 DEF Distance

\* An integer that checkNumber accepts is kept as it is.
LEMMA AcceptedIsExact ==
    ASSUME NEW n \in Numbers, n.integer, checkNumber(n)
    PROVE  Double(n.value) = n.value
<1> DEFINE v == n.value
           a == Abs(v)
<1>1. Carry \in Nat \ {0}
    BY CanonicalAssumption DEF CanonicalAssumption
<1>2. v \in Int /\ v % 2 = 0
    BY DEF Numbers
<1>3. Abs(Double(v)) <= 2 * maxSafeInteger
    BY DEF checkNumber
<1> HIDE DEF v
<1>4. a \in Nat /\ a % 2 = 0 /\ a = IF v < 0 THEN - v ELSE v
    BY <1>2 DEF Abs
<1> HIDE DEF a
<1>5. Nearest(a) \in Nat
    BY <1>4, NearestIsClosest, DoublesAreNumbers
<1>6. Double(v) = IF v < 0 THEN - Nearest(a) ELSE Nearest(a)
    BY <1>4 DEF Double
<1>7. Abs(Double(v)) = Nearest(a)
    BY <1>2, <1>5, <1>6 DEF Abs
<1>8. a <= 2 * maxSafeInteger
    <2>1. SUFFICES ASSUME ~ (a <= 2 * maxSafeInteger) PROVE FALSE
        OBVIOUS
    <2>2. a >= 2 * Carry
        BY <1>1, <1>4, <2>1 DEF maxSafeInteger
    <2>3. Nearest(a) >= 2 * Carry
        BY <1>4, <2>2, LargeStaysLarge
    <2>4. QED BY <1>1, <1>3, <1>5, <1>7, <2>3 DEF maxSafeInteger
<1>9. Nearest(a) = a
    BY <1>4, <1>8, IntegersAreDoubles, NearestExact
<1>10. Double(v) = v
    BY <1>2, <1>4, <1>6, <1>9
<1>11. QED BY <1>10 DEF v

\* The canonical form of an accepted payload of integers is what it says.
LEMMA IntegersKeepMeaning ==
    ASSUME NEW p \in Seq(Members), validateNumbers(p), OnlyIntegers(p)
    PROVE  Canonicalize(p) = Meaning(p)
<1>1. ASSUME NEW m \in Range(p)
      PROVE  [i \in DOMAIN m.numbers |-> Double(m.numbers[i].value)] =
             [i \in DOMAIN m.numbers |-> m.numbers[i].value]
    <2>1. m.numbers \in Seq(Numbers)
        <3>1. m \in Members
            BY DEF Range
        <3>2. QED BY <3>1 DEF Members
    <2>2. ASSUME NEW i \in DOMAIN m.numbers
          PROVE  Double(m.numbers[i].value) = m.numbers[i].value
        <3>1. m.numbers[i] \in Numbers /\ m.numbers[i] \in Range(m.numbers)
            BY <2>1 DEF Range
        <3>2. m.numbers[i].integer /\ checkNumber(m.numbers[i])
            BY <3>1 DEF validateNumbers, OnlyIntegers
        <3>3. QED BY <3>1, <3>2, AcceptedIsExact
    <2>3. QED BY <2>2
<1>2. QED BY <1>1, Zenon DEF Canonicalize, Meaning

\* The canonical form is a function of what a payload says.
LEMMA CanonicalOfMeaning ==
    ASSUME NEW p, NEW q, Meaning(p) = Meaning(q)
    PROVE  Canonicalize(p) \subseteq Canonicalize(q)
<1> DEFINE Says(m) == <<m.name, [i \in DOMAIN m.numbers |-> m.numbers[i].value]>>
           Form(m) == <<m.name, [i \in DOMAIN m.numbers |-> Double(m.numbers[i].value)]>>
<1>1. ASSUME NEW m \in Range(p) PROVE \E k \in Range(q) : Form(k) = Form(m)
    <2>1. Says(m) \in Meaning(q)
        BY DEF Meaning
    <2>2. PICK k \in Range(q) : Says(k) = Says(m)
        BY <2>1 DEF Meaning
    <2>3. /\ k.name = m.name
          /\ [i \in DOMAIN k.numbers |-> k.numbers[i].value] =
             [i \in DOMAIN m.numbers |-> m.numbers[i].value]
        BY <2>2
    <2>4. DOMAIN k.numbers = DOMAIN m.numbers
        BY <2>3
    <2>5. \A i \in DOMAIN m.numbers : k.numbers[i].value = m.numbers[i].value
        BY <2>3, <2>4
    <2>6. QED BY <2>3, <2>4, <2>5
<1>2. QED BY <1>1 DEF Canonicalize

BodiesInv == bodies # <<>> => bodies \in Payloads \X Payloads

\* The bodies compared are payloads.
LEMMA BodiesInvariant == Spec => []BodiesInv
<1>1. Init => BodiesInv
    BY DEF Init, BodiesInv
<1>2. BodiesInv /\ [Next]_vars => BodiesInv'
    BY DEF BodiesInv, Next, vars, Compare, IntentFound, BodiesSent, LatencyStep, SweepStep
<1>3. QED BY <1>1, <1>2, PTL DEF Spec

\* One hash for one meaning, for payloads of any size and numbers of any
\* magnitude and precision: an accepted integer is never rounded, because the
\* bound is looked at after rounding and two to the precision is a double.
THEOREM HashIsMeaningCorrect == Spec => []HashIsMeaning
<1>1. BodiesInv => HashIsMeaning
    <2>1. SUFFICES ASSUME bodies \in Payloads \X Payloads,
                          Hash(bodies[1]) # Rejected, Hash(bodies[2]) # Rejected
                   PROVE  /\ Meaning(bodies[1]) = Meaning(bodies[2]) => Hash(bodies[1]) = Hash(bodies[2])
                          /\ OnlyIntegers(bodies[1]) /\ OnlyIntegers(bodies[2])
                             /\ Hash(bodies[1]) = Hash(bodies[2]) => Meaning(bodies[1]) = Meaning(bodies[2])
        BY DEF BodiesInv, HashIsMeaning
    <2>2. bodies[1] \in Seq(Members) /\ bodies[2] \in Seq(Members)
        BY <2>1, AlgorithmsAssumption DEF AlgorithmsAssumption
    <2>3. /\ validateNumbers(bodies[1]) /\ Hash(bodies[1]) = Canonicalize(bodies[1])
          /\ validateNumbers(bodies[2]) /\ Hash(bodies[2]) = Canonicalize(bodies[2])
        BY <2>1 DEF Hash
    <2>4. Meaning(bodies[1]) = Meaning(bodies[2]) => Hash(bodies[1]) = Hash(bodies[2])
        <3>1. SUFFICES ASSUME Meaning(bodies[1]) = Meaning(bodies[2])
                       PROVE  Canonicalize(bodies[1]) = Canonicalize(bodies[2])
            BY <2>3
        <3>2. /\ Canonicalize(bodies[1]) \subseteq Canonicalize(bodies[2])
              /\ Canonicalize(bodies[2]) \subseteq Canonicalize(bodies[1])
            BY <3>1, CanonicalOfMeaning, Zenon
        <3>3. QED BY <3>2
    <2>5. OnlyIntegers(bodies[1]) => Hash(bodies[1]) = Meaning(bodies[1])
        BY <2>2, <2>3, IntegersKeepMeaning
    <2>6. OnlyIntegers(bodies[2]) => Hash(bodies[2]) = Meaning(bodies[2])
        BY <2>2, <2>3, IntegersKeepMeaning
    <2>7. QED BY <2>4, <2>5, <2>6
<1>2. QED BY <1>1, BodiesInvariant, PTL
=============================================================================
