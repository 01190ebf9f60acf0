------------------------------ MODULE MCTssNv ------------------------------
(* TssNv on one NV index that can be defined in two ways: indexes do not interact. *)
EXTENDS TssNv, TLC

Symmetry == Permutations(Definitions)
=============================================================================
