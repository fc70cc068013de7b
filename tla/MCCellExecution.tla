--------------------------- MODULE MCCellExecution ---------------------------
(* Instances of CellExecution small enough for TLC. *)
EXTENDS CellExecution

TwoStages == <<"session_create", "steady">>

(* Every kind of shot in process, a chain of the synthetic corpus and a       *)
(* production shot without truth on CUDA.                                     *)
EveryKind ==
  {[provider |-> "cpu", shot |-> shot] : shot \in Shots}
    \cup {[provider |-> "cuda",
           shot |-> [partition |-> "synthetic", truth |-> "analytic", chained |-> TRUE]],
          [provider |-> "cuda",
           shot |-> [partition |-> "production", truth |-> "none", chained |-> FALSE]]}
=============================================================================
