---------------------------- MODULE CellExecution ----------------------------
(***************************************************************************)
(* The executor of the bake-off driver, one cell after another             *)
(* (tools/bakeoff/run.py: _run_cell, build_executor, _commit_cell_bundle), *)
(* and what judges its rows afterwards: the coordinator, the report        *)
(* validator and the publication of the evidence.  A CUDA cell is measured *)
(* by CudaMeasure's child; any other runs the same inference in process.   *)
(*                                                                         *)
(* A metric is there or not: its number matters only against a gate.       *)
(* Plans are those build_matrix accepts, so the checks of _run_cell before *)
(* the inference (artifact, shot, provider, chain length) pass.  The host  *)
(* load is BakeoffRun's, previews and the steps of a commit are            *)
(* ArtifactStore's and BakeoffRun's.                                       *)
(***************************************************************************)
EXTENDS CudaMeasure

CONSTANTS
  Cells,       \* the kinds of cell a plan is made of
  MaxCells,    \* bound on the cells of a plan
  MemoryLimit  \* peak_incremental_device_memory_gib_max

(* A shot of the corpus schema; the synthetic ones have analytic truth. *)
Shots ==
  {shot \in [partition : {"synthetic", "production"},
             truth : {"analytic", "landmarks", "none"}, chained : BOOLEAN] :
     shot.partition = "synthetic" => shot.truth = "analytic"}

ASSUME CellAssumption ==
  /\ Cells \subseteq [provider : {"cuda", "cpu"}, shot : Shots] /\ Cells # {}
  /\ MaxCells \in Nat /\ MemoryLimit \in Nat

(* The evaluator polls the creation of a session and its steady runs. *)
ASSUME WindowsAssumption == {"session_create", "steady"} \subseteq {Windows[n] : n \in DOMAIN Windows}

VARIABLES
  setup,     \* the run's profile is final; NVML is sampled
  step,      \* where the executor is
  cell,      \* the cell it is at
  done,      \* cells committed
  measured,  \* ctx.measured_cell: nothing or the completed measurement
  bundle,    \* nothing or the CellBundle it returned
  row,       \* nothing or the row it committed for the cell
  heard      \* nothing or the samples of the cell's own child (history)

execVars == <<setup, step, cell, done, measured, bundle, row, heard>>
vars == <<cudaVars, execVars>>

\* A value that may be missing is the set of that value, or Nothing.
Nothing == {}
NoRows == << >>

DenseMetrics == {"endpoint_error_px", "fraction_le_1px", "fraction_le_3px"}
LandmarkMetrics == {"landmark_median_error_px", "landmark_p95_error_px"}
Reliability == {"nonfinite_fraction", "repeated_run_p99_delta_px"}

REPORT_METRICS ==
  DenseMetrics \cup LandmarkMetrics
    \cup {"visible_warp_residual", "forward_backward_residual_px", "chain_drift_px"}

REQUIRED_FINAL_NVML_STAGES ==
  {"baseline", "session_create", "steady", "cleanup", "process_exit"}

HasFinalStages(rows) == REQUIRED_FINAL_NVML_STAGES \subseteq {rows[n].stage : n \in DOMAIN rows}

UsesNvml == cell.provider = "cuda" /\ setup.nvml

-----------------------------------------------------------------------------
(* What is measured, and the bundles. *)
Peak(rows) == Max({rows[n].used - rows[1].used : n \in DOMAIN rows})

Measurement(payload, rows) ==
  [payload |-> payload, rows |-> rows,
   resource |-> [peak |-> IF rows = NoRows THEN 0 ELSE Peak(rows), samples |-> rows]]

(* A failed cell shows no metrics, but all that was measured before it failed. *)
BareFailure == [status |-> "fail", metrics |-> Nothing, resource |-> Nothing, rows |-> NoRows]

\* Bug variant: what was measured before the scoring failed is dropped.
FailedBundle_Bare == BareFailure

FailedBundle ==
  IF measured = Nothing
  THEN BareFailure
  ELSE LET m == CHOOSE m \in measured : TRUE
       IN  [status |-> "fail", metrics |-> Nothing, resource |-> {m.resource}, rows |-> m.rows]

(* Truth is computed for the generated cases only. *)
Generated == cell.shot.partition = "synthetic"
DenseDue  == cell.shot.truth = "analytic" /\ Generated

(* The computations that may fail, dense_metrics being one; `computed' are    *)
(* those that gave a finite value (a mandatory one that is not finite cannot  *)
(* be committed: Aborts).                                                     *)
Computed == {"endpoint_error_px", "chain_drift_px",
             "visible_warp_residual", "forward_backward_residual_px"}

Scores(payload, computed) ==
  (IF DenseDue THEN DenseMetrics ELSE {})
    \cup (IF cell.shot.chained /\ Generated THEN {"chain_drift_px"} ELSE {})
    \cup (computed \cap {"visible_warp_residual"})
    \cup (IF payload.reverse THEN computed \cap {"forward_backward_residual_px"} ELSE {})

(* A metric that is mandatory for the shot and cannot be computed fails it. *)
CannotScore(payload, computed) ==
  \/ DenseDue /\ "endpoint_error_px" \notin computed
  \/ cell.shot.chained /\ payload.links = "broken"
  \/ cell.shot.chained /\ Generated /\ "chain_drift_px" \notin computed

\* Bug variant: the gate on the resources is left to the validator.
hard_gate_failure_Metrics(unstable, peak) == unstable

hard_gate_failure(unstable, peak) == unstable \/ peak > MemoryLimit

ScoredBundle(m, metrics, unstable) ==
  [status   |-> IF hard_gate_failure(unstable, m.resource.peak) THEN "fail" ELSE "pass",
   metrics  |-> {[numeric |-> metrics \cup Reliability, unstable |-> unstable,
                  not_applicable |-> REPORT_METRICS \ metrics]},
   resource |-> {m.resource},
   rows     |-> m.rows]

-----------------------------------------------------------------------------
Init ==
  /\ CudaInit
  /\ setup \in {s \in [final : BOOLEAN, nvml : BOOLEAN] : s.final => s.nvml}
  /\ step = "next"
  /\ cell = CHOOSE c \in Cells : TRUE
  /\ done = 0
  /\ measured = Nothing
  /\ bundle = Nothing
  /\ row = Nothing
  /\ heard = Nothing

StartCell ==
  /\ step = "next" /\ done < MaxCells
  /\ UNCHANGED setup
  /\ cell' \in Cells
  /\ step' = IF UsesNvml' THEN "measure" ELSE "infer"
  /\ measured' = Nothing
  /\ row' = Nothing /\ heard' = Nothing
  /\ memory' = 0 /\ child' = NoChild /\ poller' = NoPoller /\ stop' = FALSE
  /\ pipe' = 0 /\ parent' = Idle /\ taken' = {} /\ blind' = FALSE
  /\ UNCHANGED <<done, bundle, trouble>>

(* The bundle is returned, and the measured cell forgotten, whatever happened. *)
Returns(returned) ==
  /\ bundle' = {returned}
  /\ step' = "commit"
  /\ measured' = Nothing
  /\ UNCHANGED <<setup, cell, done, row>>

IsMeasured(measurement) ==
  /\ measured' = {measurement}
  /\ step' = "score"
  /\ UNCHANGED <<setup, cell, done, bundle, row>>

(* run_cuda_measurement_in_subprocess returns, or raises a DriverFailure. *)
ChildIsHeard ==
  LET answer == parent.answer
  IN  /\ step = "measure" /\ parent.pc = "done"
      /\ heard' = IF answer.kind = "ok" THEN {answer.samples} ELSE Nothing
      /\ IF answer.kind = "ok" /\ (setup.final => HasFinalStages(answer.samples))
         THEN IsMeasured(Measurement(answer.payload, answer.samples))
         ELSE Returns(FailedBundle)
      /\ UNCHANGED cudaVars

(* _perform_cell_inference in the driver's own process. *)
InferInProcess ==
  /\ step = "infer"
  /\ \E payload \in Payload : IsMeasured(Measurement(payload, NoRows))
  /\ UNCHANGED <<cudaVars, heard>>

InferenceFails ==
  /\ step = "infer"
  /\ Troubled
  /\ Returns(FailedBundle)
  /\ UNCHANGED <<memory, child, poller, stop, pipe, parent, taken, blind, heard>>

Score ==
  /\ step = "score"
  /\ \E m \in measured, computed \in SUBSET Computed, unstable \in BOOLEAN :
       Returns(IF CannotScore(m.payload, computed) THEN FailedBundle
               ELSE ScoredBundle(m, Scores(m.payload, computed), unstable))
  /\ UNCHANGED <<cudaVars, heard>>

(* _commit_cell_bundle: the row and the NVML rows are committed together.    *)
NeedsEvidence(b) == UsesNvml /\ (b.status = "pass" \/ b.rows # NoRows)

EvidenceIsSound(b) == b.rows # NoRows /\ (setup.final => HasFinalStages(b.rows))

(* An exception nobody catches, or a commit that fails, ends the run; the    *)
(* operator starts it again and the cell is executed anew.                   *)
RunEnds ==
  /\ step' = "next"
  /\ bundle' = Nothing /\ measured' = Nothing
  /\ UNCHANGED <<setup, cell, done, row, heard>>

Commit ==
  /\ step = "commit"
  /\ \E b \in bundle :
       IF NeedsEvidence(b) /\ ~EvidenceIsSound(b)
       THEN RunEnds
       ELSE /\ row' = {[status |-> b.status, metrics |-> b.metrics, resource |-> b.resource,
                        evidence |-> IF NeedsEvidence(b) THEN {b.rows} ELSE Nothing]}
            /\ step' = "next"
            /\ done' = done + 1
            /\ bundle' = Nothing
            /\ UNCHANGED <<setup, cell, measured, heard>>
  /\ UNCHANGED cudaVars

Aborts ==
  /\ step \in {"infer", "score", "commit"}
  /\ Troubled
  /\ RunEnds
  /\ UNCHANGED <<memory, child, poller, stop, pipe, parent, taken, blind>>

-----------------------------------------------------------------------------
ExecutorWork == StartCell \/ ChildIsHeard \/ InferInProcess \/ Score \/ Commit

Measuring == step = "measure" /\ UNCHANGED execVars

Next ==
  \/ ExecutorWork \/ InferenceFails \/ Aborts
  \/ Measuring /\ CudaNext

Spec == Init /\ [][Next]_vars

(* The work and every query end, and threads and processes are scheduled. *)
FairSpec ==
  /\ Spec
  /\ WF_vars(ExecutorWork)
  /\ WF_vars(Measuring /\ ChildWork)
  /\ WF_vars(Measuring /\ PollerWork)
  /\ WF_vars(Measuring /\ ParentWork)

-----------------------------------------------------------------------------
(* What judges a committed row. *)

(* validate_report_consistency; _validate_metric_disposition,                *)
(* _validate_metric_applicability and the gates of a passing row.            *)
Disposed(m) ==
  /\ m.numeric \cap m.not_applicable = {}
  /\ m.numeric \cup m.not_applicable = REPORT_METRICS \cup Reliability

Applicable(numeric) ==
  /\ Reliability \subseteq numeric
  /\ cell.shot.truth = "analytic" => DenseMetrics \subseteq numeric
  /\ cell.shot.truth = "landmarks" => LandmarkMetrics \subseteq numeric
  /\ cell.shot.chained => "chain_drift_px" \in numeric

ReportAccepts(r) ==
  /\ \A m \in r.metrics : Disposed(m)
  /\ r.status = "pass" =>
       \E m \in r.metrics, resource \in r.resource :
         /\ Applicable(m.numeric)
         /\ ~m.unstable
         /\ resource.peak <= MemoryLimit
         /\ setup.final /\ cell.provider = "cuda" => HasFinalStages(resource.samples)

(* _regenerate_public_evidence_outputs. *)
PublicationAccepts(r) ==
  IF r.evidence = Nothing
  THEN UsesNvml => r.status # "pass"
  ELSE /\ UsesNvml
       /\ \A rows \in r.evidence : rows # NoRows /\ (setup.final => HasFinalStages(rows))

-----------------------------------------------------------------------------
CellTypeOK ==
  /\ CudaTypeOK
  /\ cell \in Cells /\ done \in 0..MaxCells /\ trouble \in 0..MaxTrouble
  /\ step \in {"next", "measure", "infer", "score", "commit"}
  /\ bundle # Nothing <=> step = "commit"
  /\ row # Nothing => step = "next"

(* The evidence committed with a row is what the cell's own child measured:  *)
(* nothing of an earlier cell when its child failed, and nothing lost when   *)
(* the scoring or a gate failed the cell after the measurement.              *)
EvidenceIsOwn == \A r \in row : r.evidence = heard

(* "otherwise report assembly sees an invalid pass row and aborts the whole  *)
(* publication" (run.py:338): a committed row is one the report validator    *)
(* and the publication of the evidence accept - but for the shots whose      *)
(* truth the executor never computes.                                        *)
NeverScored(shot) ==
  \/ shot.truth = "landmarks"
  \/ shot.partition = "production" /\ (shot.truth = "analytic" \/ shot.chained)

RowsPublish ==
  \A r \in row :
    /\ PublicationAccepts(r)
    /\ ReportAccepts(r) \/ (r.status = "pass" /\ NeverScored(cell.shot))

(* "... without ever blocking indefinitely" (run.py:820): whatever fails and  *)
(* whenever a child dies, every cell ends in a committed row, unless a child  *)
(* is gone in the middle of sending its outcome.                              *)
EveryCellAnswered == <>(done = MaxCells \/ CutOff)
=============================================================================
