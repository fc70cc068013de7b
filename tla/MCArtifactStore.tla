--------------------------- MODULE MCArtifactStore ---------------------------
(* Instances of ArtifactStore small enough for TLC. *)
EXTENDS ArtifactStore, TLC

Symmetry == Permutations(Runners) \cup Permutations(Payloads)
=============================================================================
