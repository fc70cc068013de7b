----------------------------- MODULE MCBakeoffRun -----------------------------
(* Instances of BakeoffRun small enough for TLC. *)
EXTENDS BakeoffRun, TLC

OneCell == <<"c1">>
TwoCells == <<"c1", "c2">>

OutputDir == << >>

IdleThenLive == [c \in Cells |-> IF c = "c1" THEN "idle" ELSE "live_flame"]
NotCuda == [c \in Cells |-> "none"]

Symmetry == Permutations(Payloads)
=============================================================================
