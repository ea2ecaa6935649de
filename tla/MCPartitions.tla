---------------------------- MODULE MCPartitions ----------------------------
EXTENDS Partitions, TLC

CONSTANTS w1, w2, m1, m2

\* Rows are alike, and so are maintainers.
PartitionsSymmetry == Permutations({w1, w2}) \cup Permutations({m1, m2})
=============================================================================
