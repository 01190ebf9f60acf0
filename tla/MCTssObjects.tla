---------------------------- MODULE MCTssObjects ----------------------------
(* TssObjects on one transient handle, one persistent handle and one context. *)
EXTENDS TssObjects, TLC

Symmetry == Permutations(Objects)
=============================================================================
