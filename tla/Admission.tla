------------------------------ MODULE Admission ------------------------------
(***************************************************************************)
(* legal_review.py, admission.py and the candidate half of licenses.py:    *)
(* which candidate may be measured, which may be shipped, on whose word.   *)
(*                                                                         *)
(* One candidate is admitted at a time, as both lanes do.  A hash is the   *)
(* value itself.  A manifest is a record of                                *)
(*   edition   its bytes: no two manifests have one edition                *)
(*   bytes     export.sha256 of the selected platform                      *)
(*   platform  "linux" or "macos"                                          *)
(*   source    upstream commit and checkpoint                              *)
(*   terms     commercial use and redistribution of each surface           *)
(*   role, reason   candidate.role and exclusion.reason_code               *)
(***************************************************************************)
EXTENDS FiniteSets

Candidate == "sea-raft-m"
Surfaces  == {"code", "checkpoint", "backbone"}
Missing   == "missing"
None      == "none"

Verdicts(m) == { m.terms[s].commercial : s \in Surfaces } \cup
               { m.terms[s].redistribution : s \in Surfaces }

-----------------------------------------------------------------------------
(* legal_review.py *)

Identity(m) == [source |-> m.source, terms |-> m.terms]

\* The file the operator named, for this protocol, of all surfaces, and positive.
LoadsReview(review, claim) ==
  /\ review = claim
  /\ review.protocol = "active"
  /\ review.reviewed
  /\ review.surfaces = Surfaces

validate_candidate_identities(review, m) ==
  review.candidates = {Candidate} /\ review.identity = Identity(m)

-----------------------------------------------------------------------------
(* admission.py *)

\* A shipping candidate of the protocol may be excluded by its manifest, not more.
ValidRole(protocolRole, m) ==
  \/ protocolRole = "validation-baseline" /\ m.role = "validation-baseline"
  \/ protocolRole = "shipping-candidate" /\ m.role \in {"shipping-candidate", "excluded"}

Eligible(protocolRole, m) ==
  /\ protocolRole = "shipping-candidate" /\ m.role = "shipping-candidate"
  /\ m.reason = None
  /\ Verdicts(m) = {"yes"}

ExclusionReason(protocolRole, m) ==
  CASE protocolRole = "validation-baseline"             -> "other"
    [] m.reason = "checkpoint_license_terms_unknown"    -> "license_unknown"
    [] m.reason = "export_or_operator_failure"          -> "export_not_reproducible"
    [] "no" \in Verdicts(m)                             -> "license_not_permitted"
    [] "unknown" \in Verdicts(m)                        -> "license_unknown"
    [] OTHER                                            -> "other"

\* "seen" is the manifest file as it was hashed, which is read a second time.
AdmittedEntry(protocolRole, m, seen) ==
  [ measurement |-> "measurable",
    status      |-> IF Eligible(protocolRole, m) THEN "eligible" ELSE "excluded",
    why         |-> IF Eligible(protocolRole, m) THEN None ELSE ExclusionReason(protocolRole, m),
    artifact    |-> m.bytes,
    manifest    |-> seen.edition ]

UnavailableEntry(protocolRole) ==
  [ measurement |-> "unavailable",
    status      |-> "excluded",
    why         |-> IF protocolRole = "validation-baseline" THEN "other" ELSE "artifact_missing",
    artifact    |-> Missing,
    manifest    |-> 0 ]

-----------------------------------------------------------------------------
(* licenses.py candidate, and the declaration that the workflow prepares for *)
(* it: the checked-in one, bound to the manifest as it is after the export.  *)

CandidateInput(declared, m) ==
  IF declared = m.terms THEN {[manifest |-> m.edition, terms |-> m.terms]} ELSE {}

collect_candidate(input, m) ==
  IF input.manifest = m.edition /\ input.terms = m.terms
  THEN {[manifest |-> m.edition, terms |-> m.terms]} ELSE {}
=============================================================================
