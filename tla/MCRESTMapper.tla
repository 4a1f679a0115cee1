---------------------------- MODULE MCRESTMapper ----------------------------
(***************************************************************************)
(* One group of two versions and two kinds, and two callers.               *)
(***************************************************************************)
EXTENDS RESTMapper, TLC

CONSTANTS g, k1, k2, w1, w2

Symmetry == Permutations(Worker)
=============================================================================
