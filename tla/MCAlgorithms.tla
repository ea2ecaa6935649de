---------------------------- MODULE MCAlgorithms ----------------------------
(* A small instance of Algorithms. *)
EXTENDS Algorithms

\* Around the first integer that has no double of its own, and one too large.
MCNumbers ==
    {n \in [value : {-16, 13, 14, 16, 17, 18, 30}, integer : BOOLEAN] :
        n.integer => n.value % 2 = 0}

\* Objects of two numbers, in two members or in an array.
MCPayloads ==
    {<<[name |-> x, numbers |-> <<m>>], [name |-> y, numbers |-> <<n>>]>> :
        <<x, y>> \in {<<"x", "y">>, <<"y", "x">>}, m \in MCNumbers, n \in MCNumbers}
    \cup {<<[name |-> "x", numbers |-> <<m, n>>]>> : m \in MCNumbers, n \in MCNumbers}
=============================================================================
