------------------------------ MODULE Exporters ------------------------------
(***************************************************************************)
(* The model exporters and the artifact manifest they share.               *)
(*                                                                         *)
(* One family (RAFT, WAFT, NeuFlow v2 or SEA-RAFT) has one manifest, which *)
(* keeps a row per platform, and one ONNX file beside it.  An operator     *)
(* runs the family's exporter on some platform, with a good or a defective *)
(* setup; the process may be killed between any two steps.                 *)
(*                                                                         *)
(* The gates of ExportGates touch nothing but a candidate file of their    *)
(* own, so the whole script is one step.  Publication of the file, the     *)
(* hash read back from it and each step of writing the manifest are steps  *)
(* of their own.                                                           *)
(***************************************************************************)
EXTENDS ExportGates

CONSTANTS
  Families,    \* the exporters to consider
  Exporters,   \* processes
  Platforms,
  Bytes,       \* contents an ONNX file can have
  Home,        \* the platform whose bytes the checkers pin
  Pinned,      \* the bytes they pin
  Together,    \* whether two exporters may run at once
  MaxTrouble   \* bound on defective invocations and kills

NoRow == "no row"
Null  == "null"

ASSUME ExportersAssumption ==
  /\ Families \subseteq {"raft", "waft", "neuflow", "searaft"}
  /\ Home \in Platforms
  /\ Pinned \in Bytes
  /\ Null \notin Bytes /\ NoRow \notin Bytes
  /\ Together \in BOOLEAN
  /\ MaxTrouble \in Nat

VARIABLES
  family,
  manifest,    \* the manifest file
  temp,        \* the temporary file beside it: empty, or one manifest
  file,        \* the published ONNX file: empty, or its bytes
  ex,          \* what each process is doing
  qualified,   \* <<platform, bytes>> published by a run with nothing wrong (history)
  trouble

vars == << family, manifest, temp, file, ex, qualified, trouble >>

Statuses == { "provenance_pinned_export_pending", "export_validated",
              "host_probe_pending", "host_probe_cpu_cuda_passed", "excluded" }
Reasons  == { "none", "checkpoint_license_terms_unknown", "export_or_operator_failure" }

\* A manifest before the first export.
Fresh(f, root, known) ==
  [ whole    |-> TRUE,
    status   |-> IF f = "waft" THEN "excluded" ELSE "provenance_pinned_export_pending",
    reason   |-> IF f = "waft" THEN "checkpoint_license_terms_unknown" ELSE "none",
    terms    |-> known,                  \* the checkpoint's licence terms are known
    root     |-> root,                   \* export.platform
    sha      |-> Null,                   \* export.sha256
    rows     |-> [p \in Platforms |-> IF p = root THEN Null ELSE NoRow],
    val      |-> "pending",              \* validation.status
    evidence |-> FALSE,                  \* identity, directions, shapes, parity
    finite   |-> TRUE,                   \* no NaN among them
    limits   |-> TRUE,                   \* the thresholds of the validation
    observed |-> "none" ]

\* The manifests as the repository keeps them: a passing export on the home platform
\* (for NeuFlow on all of them, for WAFT on another one), without the file.
CheckedIn(f, root, known) ==
  [Fresh(f, root, known) EXCEPT
     !.status = IF f = "searaft" THEN "host_probe_cpu_cuda_passed" ELSE "excluded",
     !.reason = IF f = "searaft" THEN "none" ELSE "checkpoint_license_terms_unknown",
     !.sha = Pinned, !.val = "passed", !.evidence = TRUE, !.observed = "result",
     !.rows = [p \in Platforms |-> IF f = "neuflow" \/ p = root THEN Pinned ELSE NoRow]]

Torn == [Fresh("raft", CHOOSE p \in Platforms : TRUE, FALSE) EXCEPT !.whole = FALSE]

Idle == [pc |-> "idle"]

-----------------------------------------------------------------------------
(* artifact_workflow: what a manifest must satisfy to be loaded or written. *)

ValidExclusion(m) ==
  /\ m.reason \in Reasons
  /\ (m.status = "excluded") <=> (m.reason # "none")

ValidIdentity(m) ==
  /\ m.rows[m.root] = m.sha
  /\ m.status = "provenance_pinned_export_pending" => m.sha = Null
  /\ m.status \notin {"provenance_pinned_export_pending", "excluded"} => m.sha # Null

ValidNumbers(m) ==
  /\ m.val \in CASE m.status = "provenance_pinned_export_pending" -> {"pending"}
                 [] m.status = "excluded" -> {"pending", "failed", "passed"}
                 [] OTHER -> {"passed"}
  /\ m.val = "passed" => m.evidence /\ m.finite /\ m.observed # "none"

Valid(m) == m.whole /\ m.finite /\ ValidExclusion(m) /\ ValidIdentity(m) /\ ValidNumbers(m)

\* validate_artifact: the exact bytes of the root platform.
ValidArtifact(m) == file = {m.sha}

-----------------------------------------------------------------------------
(* What a successful export and a failed one write into the manifest.       *)

\* update_platform_export replaces the platform's own row and keeps the others.
\* Bug variant: the rows of other platforms are dropped.
PlatformExport_ForgetsOthers(m, p, sha) ==
  [m EXCEPT !.root = p, !.sha = sha, !.status = "host_probe_pending",
            !.rows = [q \in Platforms |-> IF q = p THEN sha ELSE NoRow]]
PlatformExport(m, p, sha) ==
  [m EXCEPT !.root = p, !.sha = sha, !.rows[p] = sha, !.status = "host_probe_pending"]

\* The numerical evidence.  SEA-RAFT writes no more than this and keeps what the manifest
\* had in observed; the other exporters write observed as well.
Validation(m, defect) ==
  [m EXCEPT !.val = "passed", !.evidence = TRUE,
            !.finite = defect \notin {"nan_graph", "nan_model"}]
Measured(m, defect) ==
  [Validation(m, defect) EXCEPT
     !.observed = IF defect = "cpu_only" THEN "cpu_result" ELSE "result"]

RaftSuccess(m, p, sha, defect) ==
  [PlatformExport(Measured(m, defect), p, sha) EXCEPT
     !.status = "excluded", !.reason = "checkpoint_license_terms_unknown"]

\* WAFT keeps one row, and status and reason of its exclusion.
WaftSuccess(m, p, sha, defect) ==
  [Measured(m, defect) EXCEPT
     !.root = p, !.sha = sha, !.status = "excluded",
     !.rows = [q \in Platforms |-> IF q = p THEN sha ELSE NoRow]]

\* Bug variant: the status forgets that the terms are unknown.
NeuflowSuccess_ForgetsTerms(m, p, sha, defect) ==
  [PlatformExport(Measured(m, defect), p, sha) EXCEPT
     !.status = "export_validated", !.reason = "none"]
NeuflowSuccess(m, p, sha, defect) ==
  LET exported == PlatformExport(Measured(m, defect), p, sha)
  IN  IF m.terms
      THEN [exported EXCEPT !.status = "export_validated", !.reason = "none"]
      ELSE [exported EXCEPT !.status = "excluded",
                            !.reason = "checkpoint_license_terms_unknown"]

SearaftSuccess(m, p, sha, defect) == PlatformExport(Validation(m, defect), p, sha)

Success(f, m, p, sha, defect) ==
  CASE f = "raft"    -> RaftSuccess(m, p, sha, defect)
    [] f = "waft"    -> WaftSuccess(m, p, sha, defect)
    [] f = "neuflow" -> NeuflowSuccess(m, p, sha, defect)
    [] f = "searaft" -> SearaftSuccess(m, p, sha, defect)

\* NeuFlow does not promote a manifest that was excluded for its terms.
LicenceExcluded(m) ==
  /\ m.status = "excluded"
  /\ m.reason = "checkpoint_license_terms_unknown"
  /\ m.observed # "none"
Promotes(f, m) == f = "neuflow" /\ LicenceExcluded(m) /\ m.terms

\* RAFT: has_numerical_result, and the record of a failure.
HasNumericalResult(m) == m.sha # Null /\ m.evidence
RaftFailure(m, blame) ==
  [m EXCEPT !.status = "excluded", !.reason = "export_or_operator_failure",
            !.val = "failed", !.observed = blame,
            !.evidence = FALSE, !.finite = TRUE, !.limits = FALSE]

\* WAFT: a blocker leaves the validation pending.
WaftFailure(m, blame) ==
  [m EXCEPT !.status = "excluded", !.val = "pending", !.observed = blame]

\* Bug variant: a failure drops the thresholds.
NeuflowFailure_DropsLimits(m, blame) ==
  [m EXCEPT !.status = "excluded", !.reason = "export_or_operator_failure",
            !.val = "failed", !.observed = blame, !.limits = FALSE]
NeuflowFailure(m, blame) ==
  [m EXCEPT !.status = "excluded", !.reason = "export_or_operator_failure",
            !.val = "failed", !.observed = blame]

\* The manifest a failure is written to, or {} when it is refused or not recorded.
\* RAFT loads the manifest again; WAFT and NeuFlow use the one they started with.
FailureRecord(f, e) ==
  CASE f = "raft" ->
         IF e.update /\ e.blame # "untyped" /\ Valid(manifest) /\ ~HasNumericalResult(manifest)
         THEN {RaftFailure(manifest, e.blame)} ELSE {}
    [] f = "waft" ->
         IF (e.update \/ e.record) /\ e.blame # "untyped" /\ e.mem.sha = Null
            /\ e.mem.val # "passed"
         THEN {WaftFailure(e.mem, e.blame)} ELSE {}
    [] f = "neuflow" ->
         IF e.record /\ ~LicenceExcluded(e.mem)
            /\ e.mem.status \in {"provenance_pinned_export_pending", "excluded"}
         THEN {NeuflowFailure(e.mem, e.blame)} ELSE {}
    [] f = "searaft" -> {}

-----------------------------------------------------------------------------
(* The steps of a process.                                                  *)

Quiet == \A p \in Exporters : ex[p] = Idle
Free(p) == ex[p] = Idle /\ (Together \/ Quiet)

\* A manifest that does not load stops the exporter at once.
Start(p, platform, update, record, defect) ==
  /\ Free(p)
  /\ Valid(manifest)
  /\ ex' = [ex EXCEPT ![p] =
       [ pc |-> "gates", platform |-> platform, update |-> update, record |-> record,
         defect |-> defect, bytes |-> Null, mem |-> manifest, blame |-> "none" ]]
  /\ UNCHANGED << family, manifest, temp, file, qualified >>

StartClean(p) ==
  /\ \E platform \in Platforms : Start(p, platform, TRUE, FALSE, "none")
  /\ UNCHANGED trouble

StartOther(p) ==
  /\ trouble < MaxTrouble
  /\ trouble' = trouble + 1
  /\ \E platform \in Platforms, update, record \in BOOLEAN, defect \in Possible(family) :
       Start(p, platform, update, record, defect)

Goto(p, pc) == ex' = [ex EXCEPT ![p].pc = pc]
Fail(p, blame) == ex' = [ex EXCEPT ![p].pc = "failed", ![p].blame = blame]
Exit(p) == ex' = [ex EXCEPT ![p] = Idle]

\* The gates; without its thresholds the validation ends in a KeyError.
Gates(p) ==
  LET verdict == Verdict(family, ex[p].defect) IN
  /\ ex[p].pc = "gates"
  /\ IF verdict # "ok" THEN Fail(p, verdict)
     ELSE IF ~ex[p].mem.limits
     THEN Fail(p, IF family = "neuflow" THEN "runtime_validation" ELSE "untyped")
     ELSE \E b \in Bytes : ex' = [ex EXCEPT ![p].pc = "publish", ![p].bytes = b]
  /\ UNCHANGED << family, manifest, temp, file, qualified, trouble >>

\* publish_file: chmod, then rename over the published file.
PublishBlame ==
  [raft |-> "artifact_publish", waft |-> "artifact_publication_failure",
   neuflow |-> "runtime_validation", searaft |-> "untyped"]
Publish(p) ==
  /\ ex[p].pc = "publish"
  /\ IF ex[p].defect = "rename"
     THEN Fail(p, PublishBlame[family]) /\ UNCHANGED << file, qualified >>
     ELSE /\ file' = {ex[p].bytes}
          /\ qualified' = IF ex[p].defect \in Tolerated(family)
                          THEN qualified \cup {<<ex[p].platform, ex[p].bytes>>} ELSE qualified
          /\ IF ex[p].update THEN Goto(p, "record") ELSE Exit(p)
  /\ UNCHANGED << family, manifest, temp, trouble >>

\* update_manifest, up to write_manifest: the hash is read back from the file.
Record(p) ==
  /\ ex[p].pc = "record"
  /\ IF family = "waft" /\ ex[p].defect = "platform"
     THEN Fail(p, "platform_identity_mismatch")
     ELSE IF Promotes(family, ex[p].mem)
     THEN Fail(p, "runtime_validation")
     ELSE \E sha \in file :
            LET next == Success(family, ex[p].mem, ex[p].platform, sha, ex[p].defect)
            IN  ex' = [ex EXCEPT ![p].mem = next, ![p].pc = "write"]
  /\ UNCHANGED << family, manifest, temp, file, qualified, trouble >>

RecordFailure(p) ==
  LET record == FailureRecord(family, ex[p]) IN
  /\ ex[p].pc = "failed"
  /\ IF record = {} THEN Exit(p)
     ELSE \E m \in record : ex' = [ex EXCEPT ![p].mem = m, ![p].pc = "write"]
  /\ UNCHANGED << family, manifest, temp, file, qualified, trouble >>

\* write_manifest: validate, truncate the temporary file, fill it, rename it over
\* the manifest, and unlink what is left under its name.
WriteOpen(p) ==
  /\ ex[p].pc = "write"
  /\ IF Valid(ex[p].mem) THEN temp' = {Torn} /\ Goto(p, "fill")
     ELSE UNCHANGED temp /\ Exit(p)
  /\ UNCHANGED << family, manifest, file, qualified, trouble >>

WriteFill(p) ==
  /\ ex[p].pc = "fill"
  /\ temp' = {ex[p].mem}
  /\ Goto(p, "rename")
  /\ UNCHANGED << family, manifest, file, qualified, trouble >>

WriteRename(p) ==
  /\ ex[p].pc = "rename"
  /\ IF temp = {}                                  \* another writer renamed it
     THEN /\ IF family = "raft" /\ ex[p].blame = "none" THEN Fail(p, "unknown")
             ELSE Exit(p)
          /\ UNCHANGED << manifest, temp >>
     ELSE manifest' \in temp /\ temp' = {} /\ Goto(p, "unlink")
  /\ UNCHANGED << family, file, qualified, trouble >>

WriteUnlink(p) ==
  /\ ex[p].pc = "unlink"
  /\ temp' = {}
  /\ Exit(p)
  /\ UNCHANGED << family, manifest, file, qualified, trouble >>

Kill(p) ==
  /\ ex[p] # Idle
  /\ trouble < MaxTrouble
  /\ trouble' = trouble + 1
  /\ Exit(p)
  /\ UNCHANGED << family, manifest, temp, file, qualified >>

\* The licence review finds the terms and an operator edits them in.
LearnTerms ==
  /\ Quiet
  /\ ~manifest.terms
  /\ manifest' = [manifest EXCEPT !.terms = TRUE]
  /\ UNCHANGED << family, temp, file, ex, qualified, trouble >>

-----------------------------------------------------------------------------
Init ==
  /\ family \in Families
  /\ \/ \E root \in Platforms, known \in BOOLEAN : manifest = Fresh(family, root, known)
     \/ \E root \in Platforms :
          /\ family \in {"raft", "searaft"} => root = Home
          /\ family \in {"neuflow", "waft"} => root # Home
          /\ manifest = CheckedIn(family, root, family = "searaft")
  /\ qualified = {<<p, manifest.rows[p]>> : p \in {q \in Platforms : manifest.rows[q] \in Bytes}}
  /\ temp = {} /\ file = {} /\ trouble = 0
  /\ ex = [p \in Exporters |-> Idle]

Work(p) == \/ Gates(p) \/ Publish(p) \/ Record(p) \/ RecordFailure(p)
           \/ WriteOpen(p) \/ WriteFill(p) \/ WriteRename(p) \/ WriteUnlink(p)

Next == \/ \E p \in Exporters : StartClean(p) \/ StartOther(p) \/ Work(p) \/ Kill(p)
        \/ LearnTerms

\* A process runs to its end unless killed; the operator tries again with a good setup.
Fairness == \A p \in Exporters : WF_vars(Work(p)) /\ WF_vars(StartClean(p))

Spec     == Init /\ [][Next]_vars
FairSpec == Spec /\ Fairness

-----------------------------------------------------------------------------
(* What the checkers of the repository ask of a recorded manifest and of the *)
(* file beside it.                                                          *)

\* check_raft_manifest: the pinned row of the home platform, and a CUDA result elsewhere.
RaftRecord(m) ==
  /\ ~m.terms
  /\ m.status = "excluded" /\ m.reason = "checkpoint_license_terms_unknown"
  /\ m.val = "passed"
  /\ m.rows[Home] = Pinned
  /\ m.root # Home => m.sha # Null /\ m.observed = "result"
  /\ file # {} => ValidArtifact(m)

\* check_searaft_manifest: the staged file, when there is one.
SearaftRecord(m) == file # {} => ValidArtifact(m)

\* check_neuflow_manifest, for a manifest other than the repository's own.
NeuflowRecord(m) ==
  /\ m.status \in {"provenance_pinned_export_pending", "export_validated", "excluded"}
  /\ m.status = "provenance_pinned_export_pending" => m.val = "pending"
  /\ m.status = "export_validated" => m.val = "passed" /\ m.sha # Null /\ m.terms
  /\ m.status = "excluded" =>
       IF m.reason = "checkpoint_license_terms_unknown"
       THEN m.val = "passed" /\ ~m.terms /\ m.sha # Null
       ELSE m.val = "failed"
  /\ m.root = Home /\ m.val = "passed" => m.sha = Pinned
  /\ m.sha # Null \/ file # {} => ValidArtifact(m)

\* check_waft_artifact
WaftRecord(m) ==
  /\ m.status = "excluded"
  /\ m.reason = "checkpoint_license_terms_unknown"
  /\ ~m.terms
  /\ \A p \in Platforms : m.rows[p] # NoRow <=> p = m.root
  /\ m.val \in {"pending", "passed"}
  /\ m.val = "pending" => m.sha = Null /\ m.observed \in WaftCheckerCodes \cup {"none"}
  /\ m.val = "passed" => m.sha # Null /\ ValidArtifact(m)

\* What an exporter's own checker says.
Accepts(f, m) == CASE f = "raft"    -> RaftRecord(m)
                   [] f = "searaft" -> SearaftRecord(m)
                   [] f = "neuflow" -> NeuflowRecord(m)
                   [] f = "waft"    -> WaftRecord(m)

-----------------------------------------------------------------------------
(* Properties.                                                              *)

\* The manifest on disk can always be loaded and passes validate_manifest, whichever
\* step an exporter is killed in: write_manifest never exposes half a manifest, and no
\* failure writes a value or a row that the schema does not know.  And every hash in it is
\* that of a file which an exporter published on the row's platform after all its gates
\* passed on a setup with nothing wrong that the family rules out, although the hash is
\* read back from the published file.
ManifestIsTrue ==
  /\ Valid(manifest)
  /\ manifest.status \in Statuses /\ manifest.reason \in Reasons
  /\ manifest.sha \in Bytes \cup {Null}
  /\ manifest.rows \in [Platforms -> Bytes \cup {Null, NoRow}]
  /\ \A p \in Platforms : manifest.rows[p] \in Bytes => <<p, manifest.rows[p]>> \in qualified

\* A numerical result that passed is never replaced by the record of a later failure
\* (has_numerical_result in RAFT, the guards of record_failure in the others); what was
\* excluded because its terms are unknown is not promoted by a later export when they
\* become known; an export on one platform leaves the rows of the others as they were
\* (WAFT keeps a single row and is left out).
KeepsWhatPassed ==
  [][ /\ manifest.val = "passed" =>
           /\ manifest'.val = "passed"
           /\ manifest.status = "excluded" => manifest'.status = "excluded"
      /\ \A q \in Platforms :
           family # "waft" /\ manifest'.rows[q] # manifest.rows[q] =>
             \E p \in Exporters : ex[p] # Idle /\ ex[p].platform = q ]_vars

\* A passing export is recorded so that the family's own checker accepts manifest and
\* file together, unless it put other bytes on the platform whose bytes the checkers pin
\* (or, for RAFT and WAFT, the terms have become known).  What SEA-RAFT's checker reads
\* does not include observed, which may be that of an earlier export.
RecordsPassCheck ==
  [][ /\ manifest' # manifest
      /\ manifest'.terms = manifest.terms
      /\ manifest'.val = "passed" /\ manifest'.observed = "result"
      /\ \A b \in Bytes \ {Pinned} : manifest'.rows[Home] # b
      /\ family = "raft" => manifest'.rows[Home] = Pinned
      /\ family \in {"raft", "waft"} => ~manifest'.terms
      => Accepts(family, manifest)' ]_vars

\* An operator who tries again with a good setup gets a passing manifest, after any
\* failures and kills (the help of --update-manifest: "record the ONNX hash and validation
\* measurements after a successful export"), with two exceptions in the code.  A recorded
\* failure of RAFT drops the thresholds of the validation, and no later export of RAFT
\* passes with that manifest.  And SEA-RAFT's update_manifest never assigns observed, so
\* from a manifest without it write_manifest raises "passed numerical validation is missing
\* observed" after every export, and nothing is recorded.
Spoilt == family = "raft" /\ ~manifest.limits
Unobserved == family = "searaft" /\ manifest.observed = "none"
EventuallyRecorded == <>(manifest.val = "passed" \/ Spoilt \/ Unobserved)
=============================================================================
