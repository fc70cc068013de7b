----------------------------- MODULE ExportGates -----------------------------
(***************************************************************************)
(* What each model exporter checks before it publishes an ONNX graph.      *)
(*                                                                         *)
(* A defect is one thing that can be wrong with an invocation: the         *)
(* checkout, the checkpoint, the graph, the provider, the numbers.  A gate *)
(* is a set of pairs, of a defect it catches and the blame it reports: the *)
(* stage for RAFT and NeuFlow, the typed blocker code for WAFT.  "untyped" *)
(* is an exception that the exporter's recorder of failures does not       *)
(* catch.  A script is the sequence of an exporter's gates.                *)
(***************************************************************************)
EXTENDS Naturals, Sequences, FiniteSets

Blame(caught, blame) == caught \X {blame}

-----------------------------------------------------------------------------
(* export_raft.py *)

RaftProvenance == Blame({"no_git", "dirty", "revision", "checkpoint", "config"}, "provenance")
RaftPlatform   == Blame({"device"}, "unknown")
RaftModel      == Blame({"dependency", "weights"}, "model_load")
RaftGraph      == Blame({"shape", "tracer", "opset", "domain"}, "onnx_export")
RaftValidation == Blame({"session"}, "untyped") \cup
                  Blame({"provider", "fallback", "names", "nan_graph", "nan_model",
                         "parity", "direction"}, "operator_validation")

RaftScript == << RaftProvenance, RaftPlatform, RaftModel, RaftGraph, RaftValidation >>

-----------------------------------------------------------------------------
(* export_waft.py *)

WaftProvenance == Blame({"no_git"}, "missing_pinned_input") \cup
                  Blame({"dirty"}, "upstream_worktree_dirty") \cup
                  Blame({"revision"}, "upstream_revision_mismatch") \cup
                  Blame({"checkpoint"}, "checkpoint_identity_mismatch")
WaftDevice     == Blame({"device"}, "pinned_config_invalid")
WaftConfig     == Blame({"config"}, "pinned_config_invalid")
WaftModel      == Blame({"dependency"}, "missing_export_dependency") \cup
                  Blame({"weights"}, "strict_checkpoint_load_failure")
WaftExport     == Blame({"shape"}, "pinned_config_invalid") \cup
                  Blame({"tracer"}, "onnx_export_failure")
WaftOperators  == Blame({"opset", "domain"}, "unsupported_operator_or_domain")
WaftValidation == Blame({"session"}, "onnx_runtime_validation_failure") \cup
                  Blame({"fallback"}, "missing_export_dependency") \cup
                  Blame({"names"}, "onnx_export_failure") \cup
                  Blame({"nan_graph", "nan_model", "parity"}, "pytorch_onnx_parity_failure") \cup
                  Blame({"direction"}, "direction_or_identity_failure")

WaftScript == << WaftProvenance, WaftDevice, WaftConfig, WaftModel,
                 WaftExport, WaftOperators, WaftValidation >>

\* The codes that the checker of WAFT manifests knows.
WaftCheckerCodes ==
  { "missing_pinned_input", "upstream_revision_mismatch", "upstream_worktree_dirty",
    "checkpoint_identity_mismatch", "pinned_config_invalid", "platform_identity_mismatch",
    "missing_export_dependency", "strict_checkpoint_load_failure", "onnx_export_failure",
    "unsupported_operator_or_domain", "pytorch_onnx_parity_failure",
    "direction_or_identity_failure", "artifact_publication_failure" }

-----------------------------------------------------------------------------
(* export_neuflow_v2.py: a NaN of the PyTorch reference passes, since no     *)
(* comparison with NaN is true.                                              *)

NeuflowProvenance == Blame({"no_git", "dirty", "revision", "checkpoint"}, "provenance")
NeuflowModel      == Blame({"dependency", "weights", "shape"}, "model_load")
NeuflowGraph      == Blame({"tracer", "domain"}, "onnx_export")
\* Bug variant: a provider that ONNX Runtime replaced is not looked for.
NeuflowValidation_TrustsProvider ==
  Blame({"provider", "session", "names", "nan_graph", "parity", "direction"},
        "runtime_validation")
NeuflowValidation == Blame({"provider", "fallback", "session", "names", "nan_graph",
                            "parity", "direction"}, "runtime_validation")

NeuflowScript == << NeuflowProvenance, NeuflowModel, NeuflowGraph, NeuflowValidation >>

-----------------------------------------------------------------------------
(* export_searaft.py: local edits of the checkout and NaN pass.              *)

SearaftProvenance == Blame({"no_git", "revision", "checkpoint"}, "untyped")
SearaftModel      == Blame({"dependency", "weights"}, "untyped")
SearaftGraph      == Blame({"shape", "tracer", "domain"}, "untyped")
SearaftValidation == Blame({"session", "names", "parity", "direction"}, "untyped")

SearaftScript == << SearaftProvenance, SearaftModel, SearaftGraph, SearaftValidation >>

-----------------------------------------------------------------------------
Script == [raft |-> RaftScript, waft |-> WaftScript,
           neuflow |-> NeuflowScript, searaft |-> SearaftScript]

\* What the gates say of an invocation: "ok", or the blame of the first gate
\* that catches its defect.
Verdict(family, defect) ==
  LET Caught(n) == {found \in Script[family][n] : found[1] = defect}
      failing   == {n \in 1..Len(Script[family]) : Caught(n) # {}}
  IN  IF failing = {} THEN "ok"
      ELSE LET first == CHOOSE n \in failing : \A k \in failing : n <= k
           IN  (CHOOSE found \in Caught(first) : TRUE)[2]

\* What can be wrong with an invocation and still be recorded: the label given
\* with --platform, the local edits that SEA-RAFT does not look for, and a RAFT that was
\* qualified on the CPU of the CUDA platform.
Tolerated(family) == CASE family = "waft"    -> {"none"}
                       [] family = "searaft" -> {"none", "dirty", "platform"}
                       [] family = "raft"    -> {"none", "platform", "cpu_only"}
                       [] OTHER              -> {"none", "platform"}

\* What can go wrong at all in an invocation of each exporter.
Possible(family) ==
  { "none", "no_git", "dirty", "revision", "checkpoint", "dependency", "weights", "shape",
    "tracer", "domain", "session", "names", "nan_graph", "nan_model", "parity",
    "direction", "rename", "platform" } \cup
  CASE family = "raft"    -> {"config", "device", "opset", "provider", "fallback", "cpu_only"}
    [] family = "waft"    -> {"config", "device", "opset", "fallback"}
    [] family = "neuflow" -> {"provider", "fallback"}
    [] OTHER              -> {}
=============================================================================
