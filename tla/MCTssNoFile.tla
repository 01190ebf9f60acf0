---------------------------- MODULE MCTssNoFile ----------------------------
(* TssNoFile with two slots in each array and three objects that compete for them. *)
EXTENDS TssNoFile, TLC

Symmetry == Permutations(SessionHandles) \union Permutations(ObjectHandles) \union Permutations(Data)
=============================================================================
