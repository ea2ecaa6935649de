------------------------------ MODULE Latency -------------------------------
(***************************************************************************)
(* internal/latency: the samples of one resource type, and the Retry-After *)
(* advice made from them.  A tracker is a value [samples, next]; next is   *)
(* zero-based as in the code.  Its mutex makes every call one step.        *)
(***************************************************************************)
EXTENDS Naturals, Sequences, FiniteSets, Functions

CONSTANTS
    Window,                     \* window
    Floor, Ceiling, Default,    \* durations, in any unit
    Durations                   \* how long a call may take

ASSUME LatencyAssumption ==
    /\ Window \in Nat \ {0}
    /\ Floor \in Nat /\ Ceiling \in Nat /\ Floor <= Ceiling
    /\ Default \in Floor .. Ceiling
    /\ Durations \subseteq Nat

VARIABLES
    tracker,    \* the Tracker of the resource type
    counted     \* history: how long each call took that was not refused

latencyVars == <<tracker, counted>>

Calls == [took : Durations, failed : BOOLEAN]

NewTracker == [samples |-> <<>>, next |-> 0]

LatencyInit == tracker = NewTracker /\ counted = <<>>

\* The slot after the newest one, counted from the append that filled the ring.
ObserveOffByOne(t, took) ==
    IF Len(t.samples) < Window
    THEN [samples |-> Append(t.samples, took), next |-> Len(t.samples)]
    ELSE [samples |-> [t.samples EXCEPT ![t.next + 1] = took],
          next |-> (t.next + 1) % Window]

Observe(t, took) ==
    IF Len(t.samples) < Window
    THEN [t EXCEPT !.samples = Append(@, took)]
    ELSE [samples |-> [t.samples EXCEPT ![t.next + 1] = took],
          next |-> (t.next + 1) % Window]

\* Every call feeds the advice, a refused connection too.
MeasureAll(t, call) == Observe(t, call.took)

\* execute observes a call unless it failed without taking effect.
Measure(t, call) == IF call.failed THEN t ELSE Observe(t, call.took)

CallMade(c) ==
    /\ tracker' = Measure(tracker, c)
    /\ counted' = IF c.failed THEN counted ELSE Append(counted, c.took)

-----------------------------------------------------------------------------
clamp(d) == IF d < Floor THEN Floor ELSE IF d > Ceiling THEN Ceiling ELSE d

\* int(float64(n-1) * 0.95) is exact for n up to 256.
PercentileIndex(n) == ((n - 1) * 95) \div 100

Below(held, d) == {i \in DOMAIN held : held[i] < d}
Above(held, d) == {i \in DOMAIN held : held[i] > d}

\* held[at] once held is sorted: at samples or fewer are below it, and too few
\* are above it for another one to be there.
SortedAt(held, at) ==
    CHOOSE d \in Range(held) :
        Cardinality(Below(held, d)) <= at /\ Cardinality(Above(held, d)) < Len(held) - at

RetryAfter(t) ==
    IF t.samples = <<>>
    THEN Default
    ELSE clamp(SortedAt(t.samples, PercentileIndex(Len(t.samples))))
=============================================================================
