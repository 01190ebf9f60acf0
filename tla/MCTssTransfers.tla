----------------------------- MODULE MCTssTransfers -----------------------------
(*****************************************************************************)
(* Instance of TssTransfers: an index of 9 bytes (the two numbers of -id     *)
(* are 8), chunks of 2 and of 8 bytes, offsets up to the largest a word of 4 *)
(* bits holds and data longer than it.  A chunk size that was never assigned *)
(* may be none, within the limit of the TSS, more than it, or more than a    *)
(* word.                                                                     *)
(*****************************************************************************)
EXTENDS TssTransfers

MCOffsets == {0, 1, 6, 15}
MCLengths == {0, 1, 3, 4, 8, 9, 10, 17}
MCUninitialized == {0, 1, 5, 8, 9, 15, 16, 19, 33}
=================================================================================
