---------------------------- MODULE ExportersProofs ----------------------------
(***************************************************************************)
(* The model exporters, for any platforms, contents of files, defects and  *)
(* kills: any number of exporters run one after another over a manifest.   *)
(***************************************************************************)
EXTENDS Exporters, WellFoundedInduction, TLAPS

-----------------------------------------------------------------------------
(* Manifests. *)
IsManifest(m) ==
  /\ m = [whole |-> m.whole, status |-> m.status, reason |-> m.reason, terms |-> m.terms,
          root |-> m.root, sha |-> m.sha, rows |-> m.rows, val |-> m.val,
          evidence |-> m.evidence, finite |-> m.finite, limits |-> m.limits,
          observed |-> m.observed]
  /\ m.status \in Statuses /\ m.reason \in Reasons
  /\ m.root \in Platforms /\ m.sha \in Bytes \cup {Null}
  /\ m.rows \in [Platforms -> Bytes \cup {Null, NoRow}]

Backed(m) == \A p \in Platforms : m.rows[p] \in Bytes => <<p, m.rows[p]>> \in qualified

(* What each family keeps to. *)
Settled(m) ==
  /\ m.val = "passed" => m.sha \in Bytes
  /\ family = "neuflow" /\ m.val = "passed" => m.reason # "export_or_operator_failure"
  /\ family = "searaft" => m.status # "excluded"
  /\ family = "waft" => m.reason = "checkpoint_license_terms_unknown"

-----------------------------------------------------------------------------
(* What a manifest that is about to be written does to the one there is. *)
Keeps(m) ==
  manifest.val = "passed" =>
    /\ m.val = "passed"
    /\ manifest.status = "excluded" => m.status = "excluded"

OwnRow(m, platform) ==
  family # "waft" => \A q \in Platforms : m.rows[q] # manifest.rows[q] => q = platform

Passing(m) ==
  /\ m.val = "passed" /\ m.observed = "result"
  /\ \A b \in Bytes \ {Pinned} : m.rows[Home] # b
  /\ family = "raft" => m.rows[Home] = Pinned
  /\ family \in {"raft", "waft"} => ~m.terms

Proper(m, platform) ==
  /\ Backed(m) /\ Settled(m) /\ Keeps(m) /\ OwnRow(m, platform)
  /\ Passing(m) => Accepts(family, m)

-----------------------------------------------------------------------------
(* Processes. *)
Pcs == {"gates", "publish", "record", "failed", "write", "fill", "rename", "unlink"}

IsRun(e) ==
  /\ e = [pc |-> e.pc, platform |-> e.platform, update |-> e.update, record |-> e.record,
          defect |-> e.defect, bytes |-> e.bytes, mem |-> e.mem, blame |-> e.blame]
  /\ e.pc \in Pcs /\ e.platform \in Platforms /\ e.defect \in Possible(family)

Sound(e) ==
  /\ IsRun(e)
  /\ e.pc \in {"gates", "publish", "record", "failed"} => e.mem = manifest
  /\ e.pc \in {"publish", "record"} => Verdict(family, e.defect) = "ok" /\ e.bytes \in Bytes
  /\ e.pc = "record" =>
       /\ file = {e.bytes} /\ e.defect # "rename"
       /\ e.defect \in Tolerated(family) => <<e.platform, e.bytes>> \in qualified
  /\ e.pc = "write" => IsManifest(e.mem) /\ (Valid(e.mem) => Proper(e.mem, e.platform))
  /\ e.pc \in {"fill", "rename"} => IsManifest(e.mem) /\ Valid(e.mem) /\ Proper(e.mem, e.platform)
  /\ e.pc = "rename" => temp = {e.mem}

Alone == \A p, q \in Exporters : ex[p] # Idle /\ ex[q] # Idle => p = q

EInv ==
  /\ family \in {"raft", "waft", "neuflow", "searaft"}
  /\ IsManifest(manifest) /\ Valid(manifest) /\ Backed(manifest) /\ Settled(manifest)
  /\ ex = [p \in Exporters |-> ex[p]]
  /\ Alone
  /\ \A p \in Exporters : ex[p] # Idle => Sound(ex[p])

-----------------------------------------------------------------------------
(* Gates. *)
Family == {"raft", "waft", "neuflow", "searaft"}

(* Of the gates that catch a defect there is a first. *)
LEMMA LeastElement ==
  ASSUME NEW S \in SUBSET Nat, S # {}
  PROVE  \E n \in S : \A m \in S : n <= m
<1>1. IsWellFoundedOn(OpToRel(<, Nat), Nat)
  BY NatLessThanWellFounded
<1>2. PICK n \in S : \A y \in S : ~(<<y, n>> \in OpToRel(<, Nat))
  BY <1>1, WFMin
<1>3. \A m \in S : ~(m < n)
  BY <1>2 DEF OpToRel
<1> QED BY <1>3

(* A defect that some gate catches is blamed. *)
LEMMA Blamed ==
  ASSUME NEW f, NEW script, script = Script[f], NEW N \in Nat, Len(script) = N, NEW d,
         \A n \in 1..N : \A found \in script[n] : found[2] # "ok",
         \E n \in 1..N : \E found \in script[n] : found[1] = d
  PROVE  Verdict(f, d) # "ok"
<1> DEFINE Caught(k) == {c \in Script[f][k] : c[1] = d}
           failing == {k \in 1..Len(Script[f]) : Caught(k) # {}}
           first == CHOOSE k \in failing : \A j \in failing : k <= j
           blame == (CHOOSE c \in Caught(first) : TRUE)[2]
<1>1. failing \in SUBSET Nat /\ failing # {}
  <2>1. PICK n \in 1..N : \E found \in script[n] : found[1] = d
    OBVIOUS
  <2>2. n \in failing
    BY <2>1
  <2> QED BY <2>2
<1>2. Verdict(f, d) = blame
  BY <1>1 DEF Verdict
<1>3. first \in failing
  <2> HIDE DEF failing
  <2>1. \E k \in failing : \A j \in failing : k <= j
    BY <1>1, LeastElement
  <2> QED BY <2>1
<1> HIDE DEF first
<1>4. (CHOOSE c \in Caught(first) : TRUE) \in Caught(first)
  BY <1>3
<1>5. blame # "ok"
  BY <1>3, <1>4
<1> QED BY <1>2, <1>5

LEMMA RaftLets ==
  ASSUME NEW d \in Possible("raft"), Verdict("raft", d) = "ok"
  PROVE  d \in {"none", "platform", "cpu_only", "rename"}
<1>1. Script["raft"] = RaftScript
  BY DEF Script
<1>2. /\ Len(RaftScript) = 5
      /\ RaftScript[1] = RaftProvenance /\ RaftScript[2] = RaftPlatform
      /\ RaftScript[3] = RaftModel /\ RaftScript[4] = RaftGraph
      /\ RaftScript[5] = RaftValidation
  BY DEF RaftScript
<1> USE DEF Blame, RaftProvenance, RaftPlatform, RaftModel, RaftGraph, RaftValidation
<1>3. \A n \in 1..5 : \A found \in RaftScript[n] : found[2] # "ok"
  BY <1>2
<1>4. SUFFICES ASSUME d \notin {"none", "platform", "cpu_only", "rename"}
               PROVE  FALSE
  OBVIOUS
<1>5. \/ d \in {"no_git", "dirty", "revision", "checkpoint", "config"}
      \/ d \in {"device"}
      \/ d \in {"dependency", "weights"}
      \/ d \in {"shape", "tracer", "opset", "domain"}
      \/ d \in {"session"}
      \/ d \in {"provider", "fallback", "names", "nan_graph", "nan_model", "parity", "direction"}
  BY <1>4 DEF Possible
<1>6. \/ <<d, "provenance">> \in RaftScript[1]
      \/ <<d, "unknown">> \in RaftScript[2]
      \/ <<d, "model_load">> \in RaftScript[3]
      \/ <<d, "onnx_export">> \in RaftScript[4]
      \/ <<d, "untyped">> \in RaftScript[5]
      \/ <<d, "operator_validation">> \in RaftScript[5]
  BY <1>2, <1>5
<1>7. \E n \in 1..5 : \E found \in RaftScript[n] : found[1] = d
  BY <1>6
<1> HIDE DEF Blame, RaftProvenance, RaftPlatform, RaftModel, RaftGraph, RaftValidation
<1>8. Verdict("raft", d) # "ok"
  BY <1>1, <1>2, <1>3, <1>7, Blamed
<1> QED BY <1>8

LEMMA WaftLets ==
  ASSUME NEW d \in Possible("waft"), Verdict("waft", d) = "ok"
  PROVE  d \in {"none", "platform", "rename"}
<1>1. Script["waft"] = WaftScript
  BY DEF Script
<1>2. /\ Len(WaftScript) = 7
      /\ WaftScript[1] = WaftProvenance /\ WaftScript[2] = WaftDevice
      /\ WaftScript[3] = WaftConfig /\ WaftScript[4] = WaftModel
      /\ WaftScript[5] = WaftExport /\ WaftScript[6] = WaftOperators
      /\ WaftScript[7] = WaftValidation
  BY DEF WaftScript
<1> USE DEF Blame, WaftProvenance, WaftDevice, WaftConfig, WaftModel, WaftExport,
           WaftOperators, WaftValidation
<1>3. \A n \in 1..7 : \A found \in WaftScript[n] : found[2] # "ok"
  BY <1>2
<1>4. SUFFICES ASSUME d \notin {"none", "platform", "rename"}
               PROVE  FALSE
  OBVIOUS
<1>5. \/ d \in {"no_git"}
      \/ d \in {"dirty"}
      \/ d \in {"revision"}
      \/ d \in {"checkpoint"}
      \/ d \in {"device"}
      \/ d \in {"config"}
      \/ d \in {"dependency"}
      \/ d \in {"weights"}
      \/ d \in {"shape"}
      \/ d \in {"tracer"}
      \/ d \in {"opset", "domain"}
      \/ d \in {"session"}
      \/ d \in {"fallback"}
      \/ d \in {"names"}
      \/ d \in {"nan_graph", "nan_model", "parity"}
      \/ d \in {"direction"}
  BY <1>4 DEF Possible
<1>6. \/ <<d, "missing_pinned_input">> \in WaftScript[1]
      \/ <<d, "upstream_worktree_dirty">> \in WaftScript[1]
      \/ <<d, "upstream_revision_mismatch">> \in WaftScript[1]
      \/ <<d, "checkpoint_identity_mismatch">> \in WaftScript[1]
      \/ <<d, "pinned_config_invalid">> \in WaftScript[2]
      \/ <<d, "pinned_config_invalid">> \in WaftScript[3]
      \/ <<d, "missing_export_dependency">> \in WaftScript[4]
      \/ <<d, "strict_checkpoint_load_failure">> \in WaftScript[4]
      \/ <<d, "pinned_config_invalid">> \in WaftScript[5]
      \/ <<d, "onnx_export_failure">> \in WaftScript[5]
      \/ <<d, "unsupported_operator_or_domain">> \in WaftScript[6]
      \/ <<d, "onnx_runtime_validation_failure">> \in WaftScript[7]
      \/ <<d, "missing_export_dependency">> \in WaftScript[7]
      \/ <<d, "onnx_export_failure">> \in WaftScript[7]
      \/ <<d, "pytorch_onnx_parity_failure">> \in WaftScript[7]
      \/ <<d, "direction_or_identity_failure">> \in WaftScript[7]
  BY <1>2, <1>5
<1>7. \E n \in 1..7 : \E found \in WaftScript[n] : found[1] = d
  BY <1>6
<1> HIDE DEF Blame, WaftProvenance, WaftDevice, WaftConfig, WaftModel, WaftExport,
           WaftOperators, WaftValidation
<1>8. Verdict("waft", d) # "ok"
  BY <1>1, <1>2, <1>3, <1>7, Blamed
<1> QED BY <1>8

LEMMA NeuflowLets ==
  ASSUME NEW d \in Possible("neuflow"), Verdict("neuflow", d) = "ok"
  PROVE  d \in {"none", "platform", "rename", "nan_model"}
<1>1. Script["neuflow"] = NeuflowScript
  BY DEF Script
<1>2. /\ Len(NeuflowScript) = 4
      /\ NeuflowScript[1] = NeuflowProvenance /\ NeuflowScript[2] = NeuflowModel
      /\ NeuflowScript[3] = NeuflowGraph /\ NeuflowScript[4] = NeuflowValidation
  BY DEF NeuflowScript
<1> USE DEF Blame, NeuflowProvenance, NeuflowModel, NeuflowGraph, NeuflowValidation
<1>3. \A n \in 1..4 : \A found \in NeuflowScript[n] : found[2] # "ok"
  BY <1>2
<1>4. SUFFICES ASSUME d \notin {"none", "platform", "rename", "nan_model"}
               PROVE  FALSE
  OBVIOUS
<1>5. \/ d \in {"no_git", "dirty", "revision", "checkpoint"}
      \/ d \in {"dependency", "weights", "shape"}
      \/ d \in {"tracer", "domain"}
      \/ d \in {"provider", "fallback", "session", "names", "nan_graph", "parity", "direction"}
  BY <1>4 DEF Possible
<1>6. \/ <<d, "provenance">> \in NeuflowScript[1]
      \/ <<d, "model_load">> \in NeuflowScript[2]
      \/ <<d, "onnx_export">> \in NeuflowScript[3]
      \/ <<d, "runtime_validation">> \in NeuflowScript[4]
  BY <1>2, <1>5
<1>7. \E n \in 1..4 : \E found \in NeuflowScript[n] : found[1] = d
  BY <1>6
<1> HIDE DEF Blame, NeuflowProvenance, NeuflowModel, NeuflowGraph, NeuflowValidation
<1>8. Verdict("neuflow", d) # "ok"
  BY <1>1, <1>2, <1>3, <1>7, Blamed
<1> QED BY <1>8

LEMMA SearaftLets ==
  ASSUME NEW d \in Possible("searaft"), Verdict("searaft", d) = "ok"
  PROVE  d \in {"none", "dirty", "platform", "rename", "nan_graph", "nan_model"}
<1>1. Script["searaft"] = SearaftScript
  BY DEF Script
<1>2. /\ Len(SearaftScript) = 4
      /\ SearaftScript[1] = SearaftProvenance /\ SearaftScript[2] = SearaftModel
      /\ SearaftScript[3] = SearaftGraph /\ SearaftScript[4] = SearaftValidation
  BY DEF SearaftScript
<1> USE DEF Blame, SearaftProvenance, SearaftModel, SearaftGraph, SearaftValidation
<1>3. \A n \in 1..4 : \A found \in SearaftScript[n] : found[2] # "ok"
  BY <1>2
<1>4. SUFFICES ASSUME d \notin {"none", "dirty", "platform", "rename", "nan_graph", "nan_model"}
               PROVE  FALSE
  OBVIOUS
<1>5. \/ d \in {"no_git", "revision", "checkpoint"}
      \/ d \in {"dependency", "weights"}
      \/ d \in {"shape", "tracer", "domain"}
      \/ d \in {"session", "names", "parity", "direction"}
  BY <1>4 DEF Possible
<1>6. \/ <<d, "untyped">> \in SearaftScript[1]
      \/ <<d, "untyped">> \in SearaftScript[2]
      \/ <<d, "untyped">> \in SearaftScript[3]
      \/ <<d, "untyped">> \in SearaftScript[4]
  BY <1>2, <1>5
<1>7. \E n \in 1..4 : \E found \in SearaftScript[n] : found[1] = d
  BY <1>6
<1> HIDE DEF Blame, SearaftProvenance, SearaftModel, SearaftGraph, SearaftValidation
<1>8. Verdict("searaft", d) # "ok"
  BY <1>1, <1>2, <1>3, <1>7, Blamed
<1> QED BY <1>8

(* What no gate catches is tolerated, seen by the steps after them, or a NaN. *)
LEMMA GatesLet ==
  ASSUME NEW f \in Family, NEW d \in Possible(f), Verdict(f, d) = "ok"
  PROVE  \/ d \in Tolerated(f) \cup {"rename", "nan_graph", "nan_model"}
         \/ f = "waft" /\ d = "platform"
<1>1. CASE f = "raft"
  BY <1>1, RaftLets DEF Tolerated
<1>2. CASE f = "waft"
  BY <1>2, WaftLets DEF Tolerated
<1>3. CASE f = "neuflow"
  BY <1>3, NeuflowLets DEF Tolerated
<1>4. CASE f = "searaft"
  BY <1>4, SearaftLets DEF Tolerated
<1> QED BY <1>1, <1>2, <1>3, <1>4 DEF Family

-----------------------------------------------------------------------------
(* What the records of a success and of a failure are. *)

LEMMA SuccessMakes ==
  ASSUME NEW f \in Family, NEW m, IsManifest(m), NEW p \in Platforms, NEW sha \in Bytes,
         NEW d, NEW next, next = Success(f, m, p, sha, d)
  PROVE  /\ IsManifest(next)
         /\ next.sha = sha /\ next.root = p /\ next.rows[p] = sha /\ next.terms = m.terms
         /\ next.val = "passed"
         /\ d \in {"nan_graph", "nan_model"} => ~next.finite
         /\ f # "waft" => \A q \in Platforms : q # p => next.rows[q] = m.rows[q]
         /\ f = "waft" => /\ \A q \in Platforms : q # p => next.rows[q] = NoRow
                          /\ next.status = "excluded" /\ next.reason = m.reason
         /\ f = "raft" => /\ next.status = "excluded"
                          /\ next.reason = "checkpoint_license_terms_unknown"
         /\ f = "neuflow" => IF m.terms
                             THEN next.status = "export_validated" /\ next.reason = "none"
                             ELSE /\ next.status = "excluded"
                                  /\ next.reason = "checkpoint_license_terms_unknown"
         /\ f = "searaft" => next.status = "host_probe_pending"
<1> USE DEF Validation, Measured, IsManifest, Statuses, Reasons
<1>1. CASE f = "raft"
  BY <1>1 DEF Success, RaftSuccess, PlatformExport
<1>2. CASE f = "waft"
  BY <1>2 DEF Success, WaftSuccess
<1>3. CASE f = "neuflow"
  BY <1>3 DEF Success, NeuflowSuccess, PlatformExport
<1>4. CASE f = "searaft"
  BY <1>4 DEF Success, SearaftSuccess, PlatformExport
<1> QED BY <1>1, <1>2, <1>3, <1>4 DEF Family

LEMMA FailureMakes ==
  ASSUME family \in Family, IsManifest(manifest), Valid(manifest), Settled(manifest),
         NEW e, e.mem = manifest, NEW r \in FailureRecord(family, e)
  PROVE  /\ IsManifest(r) /\ r.rows = manifest.rows /\ r.sha = manifest.sha
         /\ r.val # "passed" /\ manifest.val # "passed"
         /\ family # "searaft" /\ (family = "waft" => r.reason = manifest.reason)
<1>1. CASE family = "raft"
  <2>1. r = RaftFailure(manifest, e.blame) /\ ~HasNumericalResult(manifest)
    BY <1>1 DEF FailureRecord
  <2>2. manifest.val # "passed"
    BY <2>1, ExportersAssumption DEF HasNumericalResult, Valid, ValidNumbers, Settled
  <2> QED BY <1>1, <2>1, <2>2 DEF RaftFailure, IsManifest, Statuses, Reasons
<1>2. CASE family = "waft"
  <2>1. r = WaftFailure(manifest, e.blame) /\ manifest.val # "passed"
    BY <1>2 DEF FailureRecord
  <2> QED BY <1>2, <2>1 DEF WaftFailure, IsManifest, Statuses
<1>3. CASE family = "neuflow"
  <2>1. /\ r = NeuflowFailure(manifest, e.blame) /\ ~LicenceExcluded(manifest)
        /\ manifest.status \in {"provenance_pinned_export_pending", "excluded"}
    BY <1>3 DEF FailureRecord
  <2>2. manifest.val # "passed"
    BY <1>3, <2>1 DEF LicenceExcluded, Valid, ValidNumbers, ValidExclusion, Settled, IsManifest,
       Reasons
  <2> QED BY <1>3, <2>1, <2>2 DEF NeuflowFailure, IsManifest, Statuses, Reasons
<1>4. CASE family = "searaft"
  BY <1>4 DEF FailureRecord
<1> QED BY <1>1, <1>2, <1>3, <1>4 DEF Family

(* What a success records, if it is valid at all, is proper. *)
LEMMA SuccessProper ==
  ASSUME family \in Family, IsManifest(manifest), Valid(manifest), Backed(manifest),
         Settled(manifest), NEW p \in Platforms, NEW sha \in Bytes, NEW d \in Possible(family),
         Verdict(family, d) = "ok", d # "rename",
         d \in Tolerated(family) => <<p, sha>> \in qualified,
         ~(family = "waft" /\ d = "platform"), ~Promotes(family, manifest), file = {sha},
         NEW next, next = Success(family, manifest, p, sha, d), Valid(next)
  PROVE  Proper(next, p)
<1>1. /\ IsManifest(next)
      /\ next.sha = sha /\ next.root = p /\ next.rows[p] = sha /\ next.terms = manifest.terms
      /\ next.val = "passed"
      /\ d \in {"nan_graph", "nan_model"} => ~next.finite
  BY SuccessMakes
<1>2. /\ family # "waft" => \A q \in Platforms : q # p => next.rows[q] = manifest.rows[q]
      /\ family = "waft" => /\ \A q \in Platforms : q # p => next.rows[q] = NoRow
                            /\ next.status = "excluded" /\ next.reason = manifest.reason
      /\ family = "raft" => /\ next.status = "excluded"
                            /\ next.reason = "checkpoint_license_terms_unknown"
      /\ family = "neuflow" => IF manifest.terms
                               THEN next.status = "export_validated" /\ next.reason = "none"
                               ELSE /\ next.status = "excluded"
                                    /\ next.reason = "checkpoint_license_terms_unknown"
      /\ family = "searaft" => next.status = "host_probe_pending"
  BY SuccessMakes
<1>3. Backed(next)
  <2>1. <<p, sha>> \in qualified
    BY <1>1, GatesLet DEF Valid
  <2>2. NoRow \notin Bytes
    BY ExportersAssumption
  <2> QED BY <1>1, <1>2, <2>1, <2>2 DEF Backed
<1>4. Settled(next)
  BY <1>1, <1>2 DEF Settled
<1>5. Keeps(next)
  <2>1. CASE family = "neuflow" /\ manifest.terms /\ manifest.val = "passed"
    <3>1. manifest.status # "excluded"
      BY <2>1 DEF Promotes, LicenceExcluded, Valid, ValidNumbers, ValidExclusion, Settled,
         IsManifest, Reasons
    <3> QED BY <1>1, <3>1 DEF Keeps
  <2>2. CASE ~(family = "neuflow" /\ manifest.terms)
    BY <1>1, <1>2, <2>2 DEF Keeps, Settled, Family
  <2> QED BY <1>1, <2>1, <2>2 DEF Keeps
<1>6. OwnRow(next, p)
  BY <1>1, <1>2 DEF OwnRow, IsManifest
<1>7. Passing(next) => Accepts(family, next)
  <2> SUFFICES ASSUME Passing(next)
               PROVE  Accepts(family, next)
    OBVIOUS
  <2>1. sha # Null /\ sha # NoRow /\ Home \in Platforms /\ ValidArtifact(next)
    BY <1>1, ExportersAssumption DEF ValidArtifact
  <2>2. CASE family = "raft"
    BY <1>1, <1>2, <2>1, <2>2 DEF Accepts, RaftRecord, Passing
  <2>3. CASE family = "waft"
    BY <1>1, <1>2, <2>1, <2>3 DEF Accepts, WaftRecord, Passing, Settled
  <2>4. CASE family = "neuflow"
    <3>1. next.root = Home => next.sha = Pinned
      BY <1>1, <2>1 DEF Passing
    <3> QED BY <1>1, <1>2, <2>1, <2>4, <3>1 DEF Accepts, NeuflowRecord
  <2>5. CASE family = "searaft"
    BY <2>1, <2>5 DEF Accepts, SearaftRecord
  <2> QED BY <2>2, <2>3, <2>4, <2>5 DEF Family
<1> QED BY <1>3, <1>4, <1>5, <1>6, <1>7 DEF Proper

LEMMA FailureProper ==
  ASSUME family \in Family, IsManifest(manifest), Valid(manifest), Backed(manifest),
         Settled(manifest), NEW e, e.mem = manifest, NEW r \in FailureRecord(family, e),
         NEW p \in Platforms
  PROVE  IsManifest(r) /\ Proper(r, p)
<1>1. /\ IsManifest(r) /\ r.rows = manifest.rows
      /\ r.val # "passed" /\ manifest.val # "passed"
      /\ family # "searaft" /\ (family = "waft" => r.reason = manifest.reason)
  BY FailureMakes
<1>2. Backed(r) /\ Settled(r) /\ Keeps(r) /\ OwnRow(r, p) /\ ~Passing(r)
  BY <1>1 DEF Backed, Settled, Keeps, OwnRow, Passing
<1> QED BY <1>1, <1>2 DEF Proper

-----------------------------------------------------------------------------
(* One process acts while no other is there. *)

Only(p) ==
  /\ ex' = [q \in Exporters |-> ex'[q]]
  /\ \A q \in Exporters : q # p => ex'[q] = ex[q]

LEMMA OneActs ==
  ASSUME EInv, NEW p \in Exporters, ex[p] # Idle \/ Quiet, Only(p),
         family' = family, IsManifest(manifest)', Valid(manifest)', Backed(manifest)',
         Settled(manifest)', ex'[p] = Idle \/ Sound(ex[p])'
  PROVE  EInv'
<1>1. /\ \A q \in Exporters : q # p => ex[q] = Idle /\ ex'[q] = Idle
      /\ ex' = [q \in Exporters |-> ex'[q]]
  BY DEF EInv, Alone, Quiet, Only
<1>2. Alone'
  BY <1>1 DEF Alone
<1>3. \A q \in Exporters : ex'[q] # Idle => Sound(ex[q])'
  BY <1>1
<1> QED BY <1>1, <1>2, <1>3 DEF EInv

(* A process that has ended leaves the rest as it is. *)
LEMMA Ends ==
  ASSUME EInv, NEW p \in Exporters, ex[p] # Idle, Exit(p),
         UNCHANGED << family, manifest, qualified >>
  PROVE  EInv'
<1>1. Only(p) /\ ex'[p] = Idle
  BY DEF Exit, EInv, Only
<1> QED BY <1>1, OneActs DEF EInv, Backed, Settled

LEMMA Stays ==
  ASSUME EInv, UNCHANGED << family, manifest >>, qualified \subseteq qualified'
  PROVE  IsManifest(manifest)' /\ Valid(manifest)' /\ Backed(manifest)' /\ Settled(manifest)'
BY DEF EInv, Backed, Settled

LEMMA ProperStays ==
  ASSUME NEW m, NEW platform, UNCHANGED << family, manifest, file >>,
         qualified \subseteq qualified', Proper(m, platform)
  PROVE  Proper(m, platform)'
<1>1. Passing(m)' <=> Passing(m)
  BY DEF Passing
<1>2. Accepts(family, m)' <=> Accepts(family, m)
  BY DEF Accepts, RaftRecord, WaftRecord, NeuflowRecord, SearaftRecord, ValidArtifact
<1> QED BY <1>1, <1>2 DEF Proper, Backed, Settled, Keeps, OwnRow

(* What a process that is under way is. *)
LEMMA Running ==
  ASSUME EInv, NEW p \in Exporters, NEW pc, pc # "idle", ex[p].pc = pc
  PROVE  ex[p] # Idle /\ Sound(ex[p]) /\ IsRun(ex[p])
BY DEF EInv, Idle, Sound

LEMMA StartSound ==
  ASSUME EInv, NEW p \in Exporters, ~Together, NEW platform \in Platforms, NEW update, NEW record,
         NEW defect \in Possible(family), Start(p, platform, update, record, defect)
  PROVE  EInv'
<1>1. /\ Only(p)
      /\ ex'[p] = [pc |-> "gates", platform |-> platform, update |-> update,
                   record |-> record, defect |-> defect, bytes |-> Null,
                   mem |-> manifest, blame |-> "none"]
  BY DEF Start, EInv, Only
<1>2. Quiet /\ UNCHANGED << family, manifest, file, qualified >>
  BY DEF Start, Free
<1>3. Sound(ex[p])'
  BY <1>1, <1>2 DEF Sound, IsRun, Pcs
<1> QED BY <1>1, <1>2, <1>3, Stays, OneActs

(* Going on without a new manifest to write. *)
LEMMA GatesSound ==
  ASSUME EInv, NEW p \in Exporters, Gates(p)
  PROVE  EInv'
<1>1. ex[p] # Idle /\ Sound(ex[p]) /\ IsRun(ex[p]) /\ ex[p].pc = "gates"
  BY Running DEF Gates
<1>2. UNCHANGED << family, manifest, file, qualified >>
  BY DEF Gates
<1>3. /\ Only(p)
      /\ \/ \E blame : ex'[p] = [ex[p] EXCEPT !.pc = "failed", !.blame = blame]
         \/ /\ Verdict(family, ex[p].defect) = "ok"
            /\ \E b \in Bytes : ex'[p] = [ex[p] EXCEPT !.pc = "publish", !.bytes = b]
  <2>1. CASE \E blame : Fail(p, blame)
    BY <2>1 DEF Fail, EInv, Only
  <2>2. CASE /\ Verdict(family, ex[p].defect) = "ok"
             /\ \E b \in Bytes : ex' = [ex EXCEPT ![p].pc = "publish", ![p].bytes = b]
    BY <2>2 DEF EInv, Only
  <2> QED BY <2>1, <2>2 DEF Gates
<1>4. Sound(ex[p])'
  BY <1>1, <1>2, <1>3 DEF Sound, IsRun, Pcs
<1> QED BY <1>1, <1>2, <1>3, <1>4, Stays, OneActs

LEMMA PublishSound ==
  ASSUME EInv, NEW p \in Exporters, Publish(p)
  PROVE  EInv'
<1>1. ex[p] # Idle /\ Sound(ex[p]) /\ IsRun(ex[p]) /\ ex[p].pc = "publish"
  BY Running DEF Publish
<1>2. UNCHANGED << family, manifest >> /\ qualified \subseteq qualified'
  BY DEF Publish
<1>3. CASE ex[p].defect = "rename"
  <2>1. \E blame : Fail(p, blame)
    BY <1>3 DEF Publish
  <2>2. Only(p) /\ \E blame : ex'[p] = [ex[p] EXCEPT !.pc = "failed", !.blame = blame]
    BY <2>1 DEF Fail, EInv, Only
  <2>3. Sound(ex[p])'
    BY <1>1, <1>2, <2>2 DEF Sound, IsRun, Pcs
  <2> QED BY <1>1, <1>2, <2>2, <2>3, Stays, OneActs
<1>4. CASE ex[p].defect # "rename" /\ ~ex[p].update
  <2>1. Only(p) /\ ex'[p] = Idle
    BY <1>4 DEF Publish, Exit, EInv, Only
  <2> QED BY <1>1, <1>2, <2>1, Stays, OneActs
<1>5. CASE ex[p].defect # "rename" /\ ex[p].update
  <2>1. Only(p) /\ ex'[p] = [ex[p] EXCEPT !.pc = "record"]
    BY <1>5 DEF Publish, Goto, EInv, Only
  <2>2. /\ file' = {ex[p].bytes}
        /\ ex[p].defect \in Tolerated(family) => <<ex[p].platform, ex[p].bytes>> \in qualified'
    BY <1>5 DEF Publish
  <2>3. Sound(ex[p])'
    BY <1>1, <1>2, <1>5, <2>1, <2>2 DEF Sound, IsRun, Pcs
  <2> QED BY <1>1, <1>2, <2>1, <2>3, Stays, OneActs
<1> QED BY <1>3, <1>4, <1>5

LEMMA RecordSound ==
  ASSUME EInv, NEW p \in Exporters, Record(p)
  PROVE  EInv'
<1>1. ex[p] # Idle /\ Sound(ex[p]) /\ IsRun(ex[p]) /\ ex[p].pc = "record"
  BY Running DEF Record
<1>2. UNCHANGED << family, manifest, file, qualified >>
  BY DEF Record
<1>3. CASE \E blame : Fail(p, blame)
  <2>1. Only(p) /\ \E blame : ex'[p] = [ex[p] EXCEPT !.pc = "failed", !.blame = blame]
    BY <1>3 DEF Fail, EInv, Only
  <2>2. Sound(ex[p])'
    BY <1>1, <1>2, <2>1 DEF Sound, IsRun, Pcs
  <2> QED BY <1>1, <1>2, <2>1, <2>2, Stays, OneActs
<1>4. CASE ~\E blame : Fail(p, blame)
  <2>1. /\ ~(family = "waft" /\ ex[p].defect = "platform") /\ ~Promotes(family, ex[p].mem)
        /\ \E sha \in file : \E next :
             /\ next = Success(family, ex[p].mem, ex[p].platform, sha, ex[p].defect)
             /\ ex' = [ex EXCEPT ![p].mem = next, ![p].pc = "write"]
    BY <1>4 DEF Record
  <2>2. /\ ex[p].mem = manifest /\ file = {ex[p].bytes} /\ ex[p].bytes \in Bytes
        /\ ex[p].defect # "rename" /\ Verdict(family, ex[p].defect) = "ok"
        /\ ex[p].defect \in Tolerated(family) => <<ex[p].platform, ex[p].bytes>> \in qualified
    BY <1>1 DEF Sound
  <2>3. PICK next :
          /\ next = Success(family, manifest, ex[p].platform, ex[p].bytes, ex[p].defect)
          /\ ex' = [ex EXCEPT ![p].mem = next, ![p].pc = "write"]
    BY <2>1, <2>2
  <2>4. Only(p) /\ ex'[p] = [ex[p] EXCEPT !.mem = next, !.pc = "write"]
    BY <2>3 DEF EInv, Only
  <2>5. IsManifest(next) /\ (Valid(next) => Proper(next, ex[p].platform))
    <3>1. ex[p].platform \in Platforms /\ ex[p].defect \in Possible(family)
      BY <1>1 DEF IsRun
    <3>2. /\ family \in Family /\ IsManifest(manifest) /\ Valid(manifest) /\ Backed(manifest)
          /\ Settled(manifest)
      BY DEF EInv, Family
    <3>3. IsManifest(next)
      BY <2>2, <2>3, <3>1, <3>2, SuccessMakes
    <3> QED BY <2>1, <2>2, <2>3, <3>1, <3>2, <3>3, SuccessProper
  <2>6. Sound(ex[p])'
    <3>1. PICK platform : platform = ex[p].platform
      OBVIOUS
    <3>2. Valid(next) => Proper(next, platform)'
      BY <1>2, <2>5, <3>1, ProperStays
    <3>3. ex'[p].mem = next /\ ex'[p].platform = platform /\ ex'[p].pc = "write"
      BY <1>1, <2>4, <3>1 DEF IsRun
    <3>4. IsRun(ex[p])'
      BY <1>1, <1>2, <2>4 DEF IsRun, Pcs
    <3>5. Valid(ex'[p].mem) => Proper(ex[p].mem, ex[p].platform)'
      BY <3>2, <3>3
    <3> QED BY <2>5, <3>3, <3>4, <3>5 DEF Sound
  <2> QED BY <1>1, <1>2, <2>4, <2>6, Stays, OneActs
<1> QED BY <1>3, <1>4

(* From one step of writing to the next the manifest to write is the same. *)
LEMMA WritesOn ==
  ASSUME EInv, NEW p \in Exporters, ex[p] # Idle, IsRun(ex[p]),
         UNCHANGED << family, manifest, file, qualified >>,
         NEW pc \in {"write", "fill", "rename"}, NEW m, IsManifest(m),
         pc # "write" => Valid(m), Valid(m) => Proper(m, ex[p].platform),
         pc = "rename" => temp' = {m},
         Only(p), ex'[p] = [ex[p] EXCEPT !.mem = m, !.pc = pc]
  PROVE  EInv'
<1>1. PICK platform : platform = ex[p].platform
  OBVIOUS
<1>2. Valid(m) => Proper(m, platform)'
  BY <1>1, ProperStays
<1>3. ex'[p].mem = m /\ ex'[p].platform = platform /\ ex'[p].pc = pc
  BY <1>1 DEF IsRun
<1>4. IsRun(ex[p])'
  BY DEF IsRun, Pcs
<1>5. Valid(ex'[p].mem) => Proper(ex[p].mem, ex[p].platform)'
  BY <1>2, <1>3
<1>6. Sound(ex[p])'
  BY <1>3, <1>4, <1>5 DEF Sound
<1> QED BY <1>6, Stays, OneActs

LEMMA RecordFailureSound ==
  ASSUME EInv, NEW p \in Exporters, RecordFailure(p)
  PROVE  EInv'
<1>1. ex[p] # Idle /\ Sound(ex[p]) /\ IsRun(ex[p]) /\ ex[p].pc = "failed"
  BY Running DEF RecordFailure
<1>2. UNCHANGED << family, manifest, file, qualified >>
  BY DEF RecordFailure
<1>3. CASE Exit(p)
  BY <1>1, <1>2, <1>3, Ends
<1>4. CASE ~Exit(p)
  <2>1. PICK m \in FailureRecord(family, ex[p]) : ex' = [ex EXCEPT ![p].mem = m, ![p].pc = "write"]
    BY <1>4 DEF RecordFailure
  <2>2. Only(p) /\ ex'[p] = [ex[p] EXCEPT !.mem = m, !.pc = "write"]
    BY <2>1 DEF EInv, Only
  <2>3. ex[p].mem = manifest /\ ex[p].platform \in Platforms
    BY <1>1 DEF Sound, IsRun
  <2>4. IsManifest(m) /\ Proper(m, ex[p].platform)
    BY <2>1, <2>3, FailureProper DEF EInv, Family
  <2> QED BY <1>1, <1>2, <2>2, <2>4, WritesOn
<1> QED BY <1>3, <1>4

LEMMA WriteOpenSound ==
  ASSUME EInv, NEW p \in Exporters, WriteOpen(p)
  PROVE  EInv'
<1>1. ex[p] # Idle /\ Sound(ex[p]) /\ IsRun(ex[p]) /\ ex[p].pc = "write"
  BY Running DEF WriteOpen
<1>2. UNCHANGED << family, manifest, file, qualified >>
  BY DEF WriteOpen
<1>3. CASE ~Valid(ex[p].mem)
  BY <1>1, <1>2, <1>3, Ends DEF WriteOpen
<1>4. CASE Valid(ex[p].mem)
  <2>1. Only(p) /\ ex'[p] = [ex[p] EXCEPT !.pc = "fill"]
    BY <1>4 DEF WriteOpen, Goto, EInv, Only
  <2>2. PICK m : m = ex[p].mem
    OBVIOUS
  <2>3. ex'[p] = [ex[p] EXCEPT !.mem = m, !.pc = "fill"]
    BY <1>1, <2>1, <2>2 DEF IsRun
  <2>4. IsManifest(m) /\ Valid(m) /\ Proper(m, ex[p].platform)
    BY <1>1, <1>4, <2>2 DEF Sound
  <2> QED BY <1>1, <1>2, <2>1, <2>3, <2>4, WritesOn
<1> QED BY <1>3, <1>4

LEMMA WriteFillSound ==
  ASSUME EInv, NEW p \in Exporters, WriteFill(p)
  PROVE  EInv'
<1>1. ex[p] # Idle /\ Sound(ex[p]) /\ IsRun(ex[p]) /\ ex[p].pc = "fill"
  BY Running DEF WriteFill
<1>2. UNCHANGED << family, manifest, file, qualified >>
  BY DEF WriteFill
<1>3. Only(p) /\ ex'[p] = [ex[p] EXCEPT !.pc = "rename"]
  BY DEF WriteFill, Goto, EInv, Only
<1>4. PICK m : m = ex[p].mem
  OBVIOUS
<1>5. ex'[p] = [ex[p] EXCEPT !.mem = m, !.pc = "rename"] /\ temp' = {m}
  BY <1>1, <1>3, <1>4 DEF IsRun, WriteFill
<1>6. IsManifest(m) /\ Valid(m) /\ Proper(m, ex[p].platform)
  BY <1>1, <1>4 DEF Sound
<1> QED BY <1>1, <1>2, <1>3, <1>5, <1>6, WritesOn

(* What the rename puts under the manifest's name. *)
LEMMA RenameDoes ==
  ASSUME EInv, NEW p \in Exporters, WriteRename(p)
  PROVE  /\ ex[p] # Idle /\ IsRun(ex[p])
         /\ IsManifest(manifest') /\ Valid(manifest') /\ Proper(manifest', ex[p].platform)
         /\ UNCHANGED << family, file, qualified >>
         /\ Only(p) /\ ex'[p] = [ex[p] EXCEPT !.pc = "unlink"]
<1>1. ex[p] # Idle /\ Sound(ex[p]) /\ IsRun(ex[p]) /\ ex[p].pc = "rename"
  BY Running DEF WriteRename
<1>2. temp = {ex[p].mem} /\ IsManifest(ex[p].mem) /\ Valid(ex[p].mem)
      /\ Proper(ex[p].mem, ex[p].platform)
  BY <1>1 DEF Sound
<1>3. manifest' = ex[p].mem /\ Goto(p, "unlink") /\ UNCHANGED << family, file, qualified >>
  BY <1>2 DEF WriteRename
<1>4. Only(p) /\ ex'[p] = [ex[p] EXCEPT !.pc = "unlink"]
  BY <1>3 DEF Goto, EInv, Only
<1> QED BY <1>1, <1>2, <1>3, <1>4

LEMMA WriteRenameSound ==
  ASSUME EInv, NEW p \in Exporters, WriteRename(p)
  PROVE  EInv'
<1>1. /\ ex[p] # Idle /\ IsRun(ex[p])
      /\ IsManifest(manifest') /\ Valid(manifest') /\ Proper(manifest', ex[p].platform)
      /\ UNCHANGED << family, file, qualified >>
      /\ Only(p) /\ ex'[p] = [ex[p] EXCEPT !.pc = "unlink"]
  BY RenameDoes
<1>2. PICK m : m = manifest'
  OBVIOUS
<1>3. Backed(m) /\ Settled(m)
  BY <1>1, <1>2 DEF Proper
<1>4. Backed(manifest)' /\ Settled(manifest)'
  BY <1>1, <1>2, <1>3 DEF Backed, Settled
<1>5. Sound(ex[p])'
  BY <1>1 DEF Sound, IsRun, Pcs
<1> QED BY <1>1, <1>4, <1>5, OneActs

LEMMA LearnTermsSound ==
  ASSUME EInv, LearnTerms
  PROVE  EInv'
<1>1. /\ manifest' = [manifest EXCEPT !.terms = TRUE]
      /\ UNCHANGED << family, ex, qualified >> /\ \A q \in Exporters : ex'[q] = Idle
  BY DEF LearnTerms, Quiet
<1>2. IsManifest(manifest)' /\ Valid(manifest)' /\ Backed(manifest)' /\ Settled(manifest)'
  BY <1>1 DEF EInv, IsManifest, Valid, ValidExclusion, ValidIdentity, ValidNumbers, Backed, Settled
<1> QED BY <1>1, <1>2 DEF EInv, Alone

-----------------------------------------------------------------------------
(* Every step, and what follows. *)

LEMMA InitSound ==
  ASSUME Init
  PROVE  EInv
<1>1. /\ family \in {"raft", "waft", "neuflow", "searaft"}
      /\ ex = [p \in Exporters |-> Idle]
  BY ExportersAssumption DEF Init
<1>2. Backed(manifest)
  BY DEF Init, Backed
<1>3. IsManifest(manifest) /\ Valid(manifest) /\ Settled(manifest)
  <2>1. ASSUME NEW root \in Platforms, NEW known \in BOOLEAN, manifest = Fresh(family, root, known)
        PROVE  IsManifest(manifest) /\ Valid(manifest) /\ Settled(manifest)
    BY <2>1, ExportersAssumption DEF Fresh, IsManifest, Valid, ValidExclusion, ValidIdentity,
       ValidNumbers, Settled, Statuses, Reasons
  <2>2. ASSUME NEW root \in Platforms, manifest = CheckedIn(family, root, family = "searaft")
        PROVE  IsManifest(manifest) /\ Valid(manifest) /\ Settled(manifest)
    BY <2>2, ExportersAssumption DEF Fresh, CheckedIn, IsManifest, Valid, ValidExclusion,
       ValidIdentity, ValidNumbers, Settled, Statuses, Reasons
  <2>3. \/ \E root \in Platforms, known \in BOOLEAN : manifest = Fresh(family, root, known)
        \/ \E root \in Platforms : manifest = CheckedIn(family, root, family = "searaft")
    BY DEF Init
  <2> QED BY <2>1, <2>2, <2>3
<1> QED BY <1>1, <1>2, <1>3 DEF EInv, Alone

LEMMA NextSound ==
  ASSUME EInv, ~Together, [Next]_vars
  PROVE  EInv'
<1>1. ASSUME NEW p \in Exporters, Kill(p)
      PROVE  EInv'
  BY <1>1, Ends DEF Kill
<1>2. ASSUME NEW p \in Exporters, WriteUnlink(p)
      PROVE  EInv'
  BY <1>2, Running, Ends DEF WriteUnlink
<1>3. ASSUME NEW p \in Exporters, StartClean(p) \/ StartOther(p)
      PROVE  EInv'
  <2>1. "none" \in Possible(family)
    BY DEF Possible
  <2> QED BY <1>3, <2>1, StartSound DEF StartClean, StartOther
<1>4. ASSUME NEW p \in Exporters, Work(p)
      PROVE  EInv'
  BY <1>2, <1>4, GatesSound, PublishSound, RecordSound, RecordFailureSound, WriteOpenSound,
     WriteFillSound, WriteRenameSound DEF Work
<1>5. CASE UNCHANGED vars
  <2>1. \A q \in Exporters : ex[q] # Idle => Sound(ex[q])'
    <3>1. ASSUME NEW q \in Exporters, ex[q] # Idle
          PROVE  Sound(ex[q])'
      <4>1. Sound(ex[q]) /\ UNCHANGED << family, manifest, file, qualified, temp, ex >>
        BY <1>5, <3>1 DEF EInv, vars
      <4>2. PICK m, platform : m = ex[q].mem /\ platform = ex[q].platform
        OBVIOUS
      <4>3. Proper(m, platform) => Proper(m, platform)'
        BY <4>1, ProperStays
      <4>4. Proper(ex[q].mem, ex[q].platform) => Proper(ex[q].mem, ex[q].platform)'
        BY <4>1, <4>2, <4>3
      <4>5. IsRun(ex[q])'
        BY <4>1 DEF Sound, IsRun
      <4> QED BY <4>1, <4>4, <4>5 DEF Sound
    <3> QED BY <3>1
  <2> QED BY <1>5, <2>1, Stays DEF vars, EInv, Alone
<1> QED BY <1>1, <1>3, <1>4, <1>5, LearnTermsSound DEF Next

LEMMA Always ==
  ASSUME ~Together
  PROVE  Spec => []EInv
<1>1. Init => EInv
  BY InitSound
<1>2. EInv /\ [Next]_vars => EInv'
  BY NextSound
<1> QED BY <1>1, <1>2, PTL DEF Spec

(* The manifest loads whichever step an exporter is killed in (write_manifest, *)
(* artifact_workflow.py:505), and each of its hashes is that of a file that a  *)
(* run with nothing wrong published on the row's platform: for any platforms,  *)
(* bytes, defects and kills, exporters running one at a time.                  *)
THEOREM ManifestAlwaysTrue ==
  ASSUME ~Together
  PROVE  Spec => []ManifestIsTrue
<1>1. EInv => ManifestIsTrue
  BY DEF EInv, IsManifest, Backed, ManifestIsTrue
<1> QED BY <1>1, Always, PTL

(* Only a rename and the learning of the terms change the manifest. *)
LEMMA ManifestChanges ==
  ASSUME EInv, [Next]_vars, manifest' # manifest
  PROVE  LearnTerms \/ \E p \in Exporters : WriteRename(p)
BY DEF Next, StartClean, StartOther, Start, Work, Gates, Publish, Record, RecordFailure, WriteOpen,
       WriteFill, WriteUnlink, Kill, vars

LEMMA PassKept ==
  ASSUME EInv, [Next]_vars
  PROVE  /\ manifest.val = "passed" =>
              /\ manifest'.val = "passed"
              /\ manifest.status = "excluded" => manifest'.status = "excluded"
         /\ \A q \in Platforms :
              family # "waft" /\ manifest'.rows[q] # manifest.rows[q] =>
                \E p \in Exporters : ex[p] # Idle /\ ex[p].platform = q
<1>1. CASE manifest' = manifest
  BY <1>1
<1>2. CASE LearnTerms
  <2>1. manifest' = [manifest EXCEPT !.terms = TRUE]
    BY <1>2 DEF LearnTerms
  <2> QED BY <2>1 DEF EInv, IsManifest
<1>3. ASSUME NEW p \in Exporters, WriteRename(p)
      PROVE  /\ manifest.val = "passed" =>
                  /\ manifest'.val = "passed"
                  /\ manifest.status = "excluded" => manifest'.status = "excluded"
             /\ \A q \in Platforms :
                  family # "waft" /\ manifest'.rows[q] # manifest.rows[q] =>
                    ex[p] # Idle /\ ex[p].platform = q
  BY <1>3, RenameDoes DEF Proper, Keeps, OwnRow
<1> QED BY <1>1, <1>2, <1>3, ManifestChanges

(* What passed is not taken back by a later failure, what was excluded is not  *)
(* promoted by a later export, and an export leaves the rows of other          *)
(* platforms alone (update_platform_export, artifact_workflow.py:468): for     *)
(* every step, exporters running one at a time.                                *)
THEOREM AlwaysKeeps ==
  ASSUME ~Together
  PROVE  Spec => KeepsWhatPassed
<1>1. EInv /\ [Next]_vars =>
        [ /\ manifest.val = "passed" =>
               /\ manifest'.val = "passed"
               /\ manifest.status = "excluded" => manifest'.status = "excluded"
          /\ \A q \in Platforms :
               family # "waft" /\ manifest'.rows[q] # manifest.rows[q] =>
                 \E p \in Exporters : ex[p] # Idle /\ ex[p].platform = q ]_vars
  BY PassKept
<1> QED BY <1>1, Always, PTL DEF Spec, KeepsWhatPassed

LEMMA RecordAccepted ==
  ASSUME EInv, [Next]_vars, manifest' # manifest, manifest'.terms = manifest.terms,
         manifest'.val = "passed", manifest'.observed = "result",
         \A b \in Bytes \ {Pinned} : manifest'.rows[Home] # b,
         family = "raft" => manifest'.rows[Home] = Pinned,
         family \in {"raft", "waft"} => ~manifest'.terms
  PROVE  Accepts(family, manifest)'
<1>1. ~LearnTerms
  BY DEF LearnTerms, EInv, IsManifest
<1>2. PICK p \in Exporters : WriteRename(p)
  BY <1>1, ManifestChanges
<1>3. Proper(manifest', ex[p].platform) /\ UNCHANGED << family, file >>
  BY <1>2, RenameDoes
<1>4. PICK m : m = manifest'
  OBVIOUS
<1>5. Passing(m) => Accepts(family, m)
  BY <1>3, <1>4 DEF Proper
<1>6. Passing(m)
  BY <1>4 DEF Passing
<1>7. Accepts(family, m)
  BY <1>5, <1>6
<1> QED BY <1>3, <1>4, <1>7 DEF Accepts, RaftRecord, WaftRecord, NeuflowRecord, SearaftRecord,
       ValidArtifact

(* A passing record satisfies the family's own checker (check_raft_manifest.py *)
(* and its like), unless other bytes stand on the pinned platform or the terms *)
(* have become known: for every step, exporters running one at a time.         *)
THEOREM AlwaysAccepted ==
  ASSUME ~Together
  PROVE  Spec => RecordsPassCheck
<1>1. EInv /\ [Next]_vars =>
        [ /\ manifest' # manifest
          /\ manifest'.terms = manifest.terms
          /\ manifest'.val = "passed" /\ manifest'.observed = "result"
          /\ \A b \in Bytes \ {Pinned} : manifest'.rows[Home] # b
          /\ family = "raft" => manifest'.rows[Home] = Pinned
          /\ family \in {"raft", "waft"} => ~manifest'.terms
          => Accepts(family, manifest)' ]_vars
  BY RecordAccepted
<1> QED BY <1>1, Always, PTL DEF Spec, RecordsPassCheck
=============================================================================
