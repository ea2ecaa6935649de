----------------------------- MODULE Canonical ------------------------------
(***************************************************************************)
(* internal/canonical: which payloads are accepted, and which of them have *)
(* the same request_hash.  A payload is the text of an object: its members *)
(* in the order they are written, each a name and an array of numbers.  A  *)
(* number is a value, in halves, and whether it is written as an integer   *)
(* (4200) or not (4200.0, 4.2e3).                                          *)
(***************************************************************************)
EXTENDS Integers, Sequences, Functions

CONSTANTS
    Carry,      \* 2^53: the first significand that a double has no room for
    Units,      \* the powers of two, in halves, that significands are scaled by
    MaxDouble,  \* the largest finite double, in halves
    Names       \* the names of members

ASSUME CanonicalAssumption ==
    /\ Carry \in Nat \ {0} /\ Carry % 2 = 0
    /\ Units \subseteq Nat /\ {1, 2, 4} \subseteq Units
    /\ MaxDouble \in Nat

Numbers == {n \in [value : Int, integer : BOOLEAN] : n.integer => n.value % 2 = 0}
Members == [name : Names, numbers : Seq(Numbers)]

maxSafeInteger == Carry - 1

-----------------------------------------------------------------------------
Doubles == {m * u : m \in 0 .. Carry - 1, u \in Units}

Distance(v, w) == IF v < w THEN w - v ELSE v - w

Closest(v) == {d \in Doubles : \A e \in Doubles : Distance(d, v) <= Distance(e, v)}

\* Of two doubles around v at one distance, the one with an even significand.
IsEven(d, v) == d = v \/ d % (4 * Distance(d, v)) = 0

\* The nearest double, ties to even.
Nearest(v) ==
    LET closest == Closest(v)
    IN  CHOOSE d \in closest : (\E e \in closest : IsEven(e, v)) => IsEven(d, v)

Abs(v) == IF v < 0 THEN - v ELSE v

Double(v) == IF v < 0 THEN - Nearest(- v) ELSE Nearest(v)

\* Two to the power of the precision is exact as well.
checkNumberWide(n) ==
    /\ Abs(Double(n.value)) <= MaxDouble
    /\ n.integer => Abs(Double(n.value)) <= 2 * (maxSafeInteger + 1)

\* The value is looked at after it has been rounded.
checkNumber(n) ==
    /\ Abs(Double(n.value)) <= MaxDouble
    /\ n.integer => Abs(Double(n.value)) <= 2 * maxSafeInteger

\* walk: every number of every member.
validateNumbers(payload) ==
    \A m \in Range(payload) : \A n \in Range(m.numbers) : checkNumber(n)

\* The canonical form has members in the order of their names, arrays in their
\* own order, and numbers as doubles.  SHA-256 is taken to be injective.
Canonicalize(payload) ==
    {<<m.name, [i \in DOMAIN m.numbers |-> Double(m.numbers[i].value)]>> : m \in Range(payload)}

Rejected == {<<>>}

Hash(payload) == IF validateNumbers(payload) THEN Canonicalize(payload) ELSE Rejected
=============================================================================
