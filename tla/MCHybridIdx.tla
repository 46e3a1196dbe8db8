----------------------------- MODULE MCHybridIdx -----------------------------
(* Instances of HybridIdx for TLC. *)
EXTENDS HybridIdx, TLC

\* everything, a tail, a prefix, the middle, one position, nothing
RmRanges == {<<-1, -1>>, <<1, -1>>, <<0, 1>>, <<1, 2>>, <<1, 1>>}
NoJump == {0}
SmallJumps == {0, 1}

Symmetric == Permutations(Token)
=============================================================================
