----------------------------- MODULE MCFlowCache -----------------------------
(* Instances of FlowCache small enough for TLC. *)
EXTENDS FlowCache, TLC

Symmetry == Permutations(Workers) \cup Permutations(Ids)
=============================================================================
