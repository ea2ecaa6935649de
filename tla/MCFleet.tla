------------------------------ MODULE MCFleet -------------------------------
EXTENDS Fleet
CONSTANTS s1, s2, c1
MCCarried == [p \in {s1, s2} |-> IF p = s1 THEN 1 ELSE 2]
=============================================================================
