---------------------------- MODULE MCRecurrentMem ----------------------------
(* Instances of RecurrentMem for TLC. *)
EXTENDS RecurrentMem, TLC

Symmetric == Permutations(Token)
=============================================================================
