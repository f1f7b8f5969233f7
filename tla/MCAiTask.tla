------------------------------ MODULE MCAiTask ------------------------------
(* AiTask for TLC: which cancel request is which does not matter *)
EXTENDS AiTask, TLC

Symmetry == Permutations(Cancellers)
=============================================================================
