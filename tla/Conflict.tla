------------------------------ MODULE Conflict ------------------------------
(***************************************************************************)
(* The compatibility matrix of internal/conflict: which two declared       *)
(* operations on one resource may be in flight together.  A field path     *)
(* "a.b.c" is the sequence of its segments <<"a", "b", "c">>; the code's   *)
(* list of paths is a set, since only membership is ever asked.            *)
(***************************************************************************)
EXTENDS Naturals, Sequences

CONSTANT Segments   \* the field names a scope path is made of

Classes == {"create", "replace", "mutate", "append", "delete"}

\* What document.validate admits as a path: no empty segment, at least one.
Paths == Seq(Segments) \ {<<>>}

\* A declared operation; only a mutate may carry a selector.
Operations == {op \in [class : Classes, scope : SUBSET Paths] :
                  op.scope # {} => op.class = "mutate"}

-----------------------------------------------------------------------------
\* strings.HasPrefix(a, b + "."): b is a proper ancestor of a.
HasPrefixDot(a, b) == Len(b) < Len(a) /\ SubSeq(a, 1, Len(b)) = b

\* The prefix test made in one direction only.
OverlapsOneWay(a, b) == a = b \/ HasPrefixDot(a, b)

overlaps(a, b) == a = b \/ HasPrefixDot(a, b) \/ HasPrefixDot(b, a)

\* An undeclared scope taken for one that touches nothing.
ScopesDisjointEmptyIsNothing(a, b) == \A left \in a, right \in b : ~ overlaps(left, right)

ScopesDisjoint(a, b) ==
    /\ a # {} /\ b # {}
    /\ \A left \in a, right \in b : ~ overlaps(left, right)

Compatible(a, b) ==
    \/ a.class = "append" /\ b.class \in {"append", "mutate"}
    \/ a.class = "mutate" /\ b.class = "append"
    \/ a.class = "mutate" /\ b.class = "mutate" /\ ScopesDisjoint(a.scope, b.scope)
=============================================================================
