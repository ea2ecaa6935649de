--------------------------- MODULE MCResultStore ----------------------------
(* A small instance of ResultStore. *)
EXTENDS ResultStore, TLC

ReconcilerSymmetry == Permutations(Reconcilers)
=============================================================================
