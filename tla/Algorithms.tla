----------------------------- MODULE Algorithms -----------------------------
(***************************************************************************)
(* The parts of the write path that compute: the conflict matrix, the      *)
(* recording of conflicts, the latency ring and its advice, the order of   *)
(* sweeps and the request hash, each against what it is to compute.  They  *)
(* share nothing; a behaviour exercises one of them.                       *)
(***************************************************************************)
EXTENDS Conflict, Latency, Recording, Sweep, Canonical

CONSTANTS
    MaxDepth,   \* longest path in a selector
    MaxPaths,   \* most paths in a selector
    MaxCalls,   \* longest history of calls
    MaxWindow,  \* most candidates in a conflict window
    MaxKeys,    \* most stale keys at first, and most sweeps
    MaxClaims,  \* most claims that go stale
    Payloads    \* the payloads that are sent

ASSUME AlgorithmsAssumption ==
    /\ Segments # {} /\ MaxDepth \in Nat
    /\ MaxKeys \in Nat /\ MaxClaims \in Nat
    /\ Payloads \subseteq Seq(Members)

PathsTo(n) == UNION {[1..m -> Segments] : m \in 1..n}

Scopes == {s \in SUBSET PathsTo(MaxDepth) : Cardinality(s) \in 1..MaxPaths}

DeclaredOps == [class : Classes, scope : {{}}] \cup [class : {"mutate"}, scope : Scopes]

VARIABLES
    pair,       \* two operations to compare
    candidates, \* a conflict window
    bodies      \* two payloads to compare

vars == <<pair, candidates, bodies, latencyVars, sweepVars>>

Init == pair = <<>> /\ candidates = <<>> /\ bodies = <<>> /\ LatencyInit /\ SweepInit

Compare ==
    /\ Init
    /\ pair' \in DeclaredOps \X DeclaredOps
    /\ UNCHANGED <<candidates, bodies, latencyVars, sweepVars>>

IntentFound ==
    /\ Len(candidates) < MaxWindow
    /\ pair = <<>> /\ bodies = <<>> /\ LatencyInit /\ SweepInit
    /\ \E c \in Candidates : candidates' = Append(candidates, c)
    /\ UNCHANGED <<pair, bodies, latencyVars, sweepVars>>

BodiesSent ==
    /\ Init
    /\ bodies' \in Payloads \X Payloads
    /\ UNCHANGED <<pair, candidates, latencyVars, sweepVars>>

LatencyStep ==
    /\ pair = <<>> /\ candidates = <<>> /\ bodies = <<>> /\ SweepInit
    /\ Len(counted) < MaxCalls
    /\ \E c \in Calls : CallMade(c)
    /\ UNCHANGED <<pair, candidates, bodies, sweepVars>>

SweepStep ==
    /\ pair = <<>> /\ candidates = <<>> /\ bodies = <<>> /\ LatencyInit
    /\ \/ \E keys \in 1 .. MaxKeys, batch \in 1 .. MaxKeys :
              \E broken \in SUBSET (1 .. MaxClaims) : BacklogFound(keys, batch, broken)
       \/ sweeps < MaxKeys /\ SweepOnce
       \/ newest < MaxClaims /\ GoStale
       \/ \E k \in queue : SettleOne(k)
    /\ UNCHANGED <<pair, candidates, bodies, latencyVars>>

Next == Compare \/ IntentFound \/ BodiesSent \/ LatencyStep \/ SweepStep

Spec == Init /\ [][Next]_vars

-----------------------------------------------------------------------------
\* Reference meaning of a selector: the fields it may write, named by full
\* paths one segment longer than any selector.  No selector: every field.
Fields == [1..(MaxDepth + 1) -> Segments]
Written(scope) ==
    {f \in Fields : scope = {} \/ \E p \in scope : SubSeq(f, 1, Len(p)) = p}

\* Whether two writes conflict does not depend on which was claimed first:
\* the window query compares a new intent with an old one, never the reverse.
MatrixSymmetric ==
    pair # <<>> => (Compatible(pair[1], pair[2]) <=> Compatible(pair[2], pair[1]))

\* Two mutates may run together exactly when no field is written by both:
\* ScopesDisjoint against the set of fields each selector stands for.
DisjointMeansNoCommonField ==
    pair # <<>> /\ pair[1].class = "mutate" /\ pair[2].class = "mutate" =>
        (Compatible(pair[1], pair[2])
            <=> Written(pair[1].scope) \cap Written(pair[2].scope) = {})

-----------------------------------------------------------------------------
\* Reference meaning of the ring: the last Window calls that counted.
Recent ==
    SubSeq(counted, IF Len(counted) > Window THEN Len(counted) - Window + 1 ELSE 1, Len(counted))

\* The slot of the i-th oldest sample: the ring is read from next on.
Slot(t, i) ==
    LET at == t.next + i
    IN  IF at <= Len(t.samples) THEN at ELSE at - Len(t.samples)

\* The ring always has the most recent calls that were not refused, oldest first
\* from next, however often it has gone round.
RingIsRecent ==
    /\ Len(tracker.samples) = Len(Recent)
    /\ \A i \in 1 .. Len(Recent) : tracker.samples[Slot(tracker, i)] = Recent[i]

\* Retry-After is the p95 of recent latency, clamped.  Unless it is the ceiling,
\* no more than one in twenty of the recent calls, and one, took longer; unless
\* it is the floor, no more than nineteen in twenty took less.  The index is cut
\* to an integer, and refused connections do not count.
AdviceIsP95 ==
    LET advice == RetryAfter(tracker)
        n == Len(Recent)
        longer == Cardinality(Above(Recent, advice))
        shorter == Cardinality(Below(Recent, advice))
    IN  /\ advice \in Floor .. Ceiling
        /\ n > 0 /\ advice < Ceiling => 20 * (longer - 1) <= n - 1
        /\ n > 0 /\ advice > Floor => 20 * shorter <= 19 * (n - 1)

-----------------------------------------------------------------------------
OwnNewer == {i \in 1 .. Len(candidates) : \A j \in 1 .. i : candidates[j].agent = "own"}

\* A 409 can be explained from the conflicts table: the intent it names is of
\* another agent, and its pair is recorded, unless as many newer intents of the
\* writer's own agent as the cap allows came first.
RejectionExplained ==
    LET v == Resolved(candidates, TRUE) IN
    v.verdict = "rejected" =>
        /\ candidates[v.intent].agent = "other" /\ v.conflict \in v.rows
        /\ Cardinality(OwnNewer) < MaxRecorded => v.intent \in v.rows
        /\ candidates[1].agent = "other" => v.intent = v.conflict

-----------------------------------------------------------------------------
\* Of the keys that were stale at first, those that a sweep can settle.
Waiting == (queue \cap (1 .. backlog.keys)) \ backlog.broken

\* Keys whose probes always fail do not hold up the others as long as they do
\* not fill a batch: as many sweeps as there are keys settle every other key
\* that was stale at first, though more go stale all the time.
BacklogDrains ==
    Cardinality(backlog.broken) < backlog.batch /\ sweeps >= backlog.keys => Waiting = {}

-----------------------------------------------------------------------------
\* What a payload says, however it is written.
Meaning(payload) ==
    {<<m.name, [i \in DOMAIN m.numbers |-> m.numbers[i].value]>> : m \in Range(payload)}

OnlyIntegers(payload) == \A m \in Range(payload) : \A n \in Range(m.numbers) : n.integer

\* A retry that writes its request another way is recognised: 4200, 4200.0 and
\* 4.2e3, or members in another order, have one hash.  And a key that is used
\* for another request is caught: no two accepted payloads of integers that say
\* different things have the same hash, up to the last integer accepted.
HashIsMeaning ==
    bodies # <<>> =>
        LET a == bodies[1]
            b == bodies[2]
        IN  Hash(a) # Rejected /\ Hash(b) # Rejected =>
                /\ Meaning(a) = Meaning(b) => Hash(a) = Hash(b)
                /\ OnlyIntegers(a) /\ OnlyIntegers(b) /\ Hash(a) = Hash(b) => Meaning(a) = Meaning(b)
=============================================================================
