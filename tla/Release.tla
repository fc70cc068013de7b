------------------------------- MODULE Release -------------------------------
(***************************************************************************)
(* The release of the bake-off package: the p25-6 lane of the workflow,    *)
(* which runs admission.py, licenses.py, p25_6_materialize_inputs.py,      *)
(* evaluator.py verify and package.py one after another over one checkout, *)
(* one models directory and one unpacked runtime, and stops for good at    *)
(* the first refusal.  People answer its two gates between two runs.       *)
(*                                                                         *)
(*   models    manifest and artifact of the candidate, as exporters leave  *)
(*             them: an edition is never used twice                        *)
(*   legal     what people have signed: the review of the candidate, the   *)
(*             declared terms, the approval of a runtime inventory, the    *)
(*             texts supplied for packages that bring none                 *)
(*   index     the build that the solver gives today                       *)
(*   inputs    the carried inputs in the checkout: templates, or filled    *)
(*   job       the run: its place, what it was told, what it has loaded    *)
(*   out       what the run has written                                    *)
(*   uploaded  the last inventory shown to the people                      *)
(*   trouble   how often something has come between (bounded)              *)
(*   blind     what changed where no later check looks; together: whether  *)
(*             all that is packed stood on disk at one moment (history)    *)
(***************************************************************************)
EXTENDS Packaging, Admission, RuntimeLicences

CONSTANTS Builds,      \* what the solver may give
          Patches,     \* wheels that may be installed over those of the runtime
          Places,      \* where the runtime may be unpacked
          TermSets,    \* legal terms that a manifest may state
          ProtocolRole, ManifestRoles,
          MaxTrouble

ASSUME ReleaseAssumption == Builds # {} /\ Places # {} /\ MaxTrouble \in Nat

\* What licenses.py refuses to read is left out: two records of one package in conda-meta
\* or among the wheels.  A dist-info is that of a package of conda, or of a wheel.
ASSUME BuildsAssumption ==
  \A b \in Builds :
    /\ b = [conda |-> b.conda, dists |-> b.dists, ort |-> b.ort, bridge |-> b.bridge,
            rest |-> b.rest]
    /\ \A p \in b.conda : p.source = "conda"
    /\ \A v \in b.dists : v.source = "pip" \/ v \in b.conda
    /\ \A p, q \in b.conda : Id(p) = Id(q) => p = q
    /\ \A v, w \in b.dists : Id(v) = Id(w) => v = w

\* A wheel's licence is read from the METADATA whose hash is its record.
ASSUME WheelsAssumption ==
  /\ \A w \in Patches : w.source = "pip"
  /\ \A v, w \in (UNION { b.dists : b \in Builds }) \cup Patches :
       v.source = "pip" /\ Id(v) = Id(w) /\ v.metadata = w.metadata => v.licence = w.licence

VARIABLES models, legal, index, inputs, job, out, uploaded, trouble, blind, together
vars == << models, legal, index, inputs, job, out, uploaded, trouble, blind, together >>

Clean == [ entries |-> Template, map |-> Template, metadata |-> Template ]
Nothing == [ sidecar |-> {}, admission |-> {}, prefix |-> {}, rarchive |-> {}, rsha |-> {},
             rinput |-> {}, rinv |-> {}, candlic |-> {}, qualified |-> {}, filled |-> {},
             stage |-> << >>, archive |-> {}, inventory |-> {}, checksum |-> {} ]

Export(edition, bytes, platform, terms, role) ==
  [ edition |-> edition, bytes |-> bytes, platform |-> platform, source |-> "upstream",
    terms |-> terms, role |-> role,
    reason |-> IF role = "excluded" THEN "checkpoint_license_terms_unknown" ELSE None ]

Init ==
  /\ \E terms \in TermSets, role \in ManifestRoles :
       models = [manifest |-> Export(1, 1, "linux", terms, role), artifact |-> 1]
  /\ legal = [review |-> {}, declared |-> {}, approval |-> {}, supplement |-> << >>]
  /\ index \in Builds
  /\ inputs = Clean
  /\ job = [pc |-> "idle", place |-> 0, claim |-> {}, rclaim |-> {}, tokens |-> FALSE,
            allowMissing |-> FALSE, m |-> {}, i |-> 0]
  /\ out = Nothing
  /\ uploaded = {} /\ trouble = 0 /\ blind = {} /\ together = FALSE

\* Whether all that has been packed is on disk as it was packed.
Source(file) ==
  CASE file = "manifest" -> models.manifest
    [] file = "artifact" -> models.artifact
    [] file = "terms"    -> out.candlic
    [] file = "credits"  -> out.rinv
    [] file = "review"   -> legal.approval
    [] file = "entries"  -> inputs.entries
    [] file = "map"      -> inputs.map
    [] file = "metadata" -> inputs.metadata
    [] file = "runtime"  -> out.rarchive
Sources == [f \in { StageOrder[i] : i \in DOMAIN StageOrder } |-> Source(f)]
Standing == \A a \in out.archive : \A f \in DOMAIN a.files : Sources[f] = a.files[f]
Packed == out.archive # {}
Watch == together' = (Packed' /\ (together \/ Standing'))

-----------------------------------------------------------------------------
(* A run.  A step that refuses ends it; what it has written stays. *)

At(pc) == job.pc = pc
Proceed(ok, next) == job' = [job EXCEPT !.pc = IF ok THEN next ELSE "idle"]
Only(document) == CHOOSE d \in document : TRUE
Alone == UNCHANGED << models, legal, index, trouble, blind >>
Quiet == Alone /\ UNCHANGED << inputs, uploaded >>

\* A fresh checkout, or the last one without what the run had written.
Start(fresh, place, tokens, allowMissing) ==
  /\ At("idle")
  /\ job' = [ pc |-> "sidecar", place |-> place, claim |-> legal.review,
              rclaim |-> legal.approval, tokens |-> tokens, allowMissing |-> allowMissing,
              m |-> {}, i |-> 0 ]
  /\ out' = Nothing
  /\ inputs' = IF fresh THEN Clean ELSE inputs
  /\ blind' = {}
  /\ UNCHANGED << models, legal, index, uploaded >>

\* The workflow binds the declared terms to the manifest of the fresh export.
Sidecar ==
  /\ At("sidecar")
  /\ LET input == IF legal.declared = {} THEN {}
                  ELSE CandidateInput(Only(legal.declared), models.manifest)
     IN  Proceed(input # {}, "review") /\ out' = [out EXCEPT !.sidecar = input]
  /\ Quiet

\* admission.py: the review, if one is given; then the manifest; then the artifact.
LoadReview ==
  /\ At("review")
  /\ Proceed(job.tokens \/ \E r \in legal.review, c \in job.claim : LoadsReview(r, c), "load")
  /\ UNCHANGED out /\ Quiet

LoadManifest ==
  /\ At("load")
  /\ IF ValidRole(ProtocolRole, models.manifest) /\ models.manifest.platform = "linux"
     THEN job' = [job EXCEPT !.pc = "artifact", !.m = {models.manifest}]
     ELSE Proceed(FALSE, "artifact")
  /\ UNCHANGED out /\ Quiet

ValidateArtifact ==
  /\ At("artifact")
  /\ Proceed( \/ models.artifact = Only(job.m).bytes
              \/ models.artifact = 0 /\ job.allowMissing, "admit" )
  /\ out' = IF models.artifact = 0 /\ job.allowMissing
            THEN [out EXCEPT !.admission = {UnavailableEntry(ProtocolRole)}] ELSE out
  /\ Quiet

\* The file of the manifest is read again for its hash.  The review must be of the
\* manifest as it was loaded.
Admit ==
  /\ At("admit")
  /\ LET m     == Only(job.m)
         ok    == \/ job.tokens
                  \/ \E r \in job.claim : validate_candidate_identities(r, m)
         entry == IF out.admission # {} THEN out.admission
                  ELSE {AdmittedEntry(ProtocolRole, m, models.manifest)}
     IN  /\ Proceed(ok, "pack")
         /\ out' = [out EXCEPT !.admission = IF ok THEN entry ELSE {}]
  /\ Quiet

\* Solve, pack, take the hash, unpack, and import from what was unpacked.
Pack ==
  /\ At("pack")
  /\ Proceed(TRUE, "input")
  /\ out' = [out EXCEPT !.rarchive = {index}, !.rsha = {index},
                        !.prefix = {[Unpacked(index, job.place) EXCEPT !.caches = TRUE]}]
  /\ Quiet

Prefix == Only(out.prefix)
\* The lock was listed when the runtime was packed.
SolvedLock == Lock(Only(out.rsha))

GenerateInput ==
  /\ At("input")
  /\ LET input == generate_runtime_input(Prefix, SolvedLock, legal.supplement)
     IN  Proceed(input # {}, "collect") /\ out' = [out EXCEPT !.rinput = input]
  /\ Quiet

Collect ==
  /\ At("collect")
  /\ LET inventory == collect_runtime(Prefix, SolvedLock, Only(out.rinput))
     IN  Proceed(inventory # {}, "upload") /\ out' = [out EXCEPT !.rinv = inventory]
  /\ Quiet

\* Shown to the people even when the gate that follows refuses.
Upload ==
  /\ At("upload")
  /\ uploaded' = out.rinv
  /\ Proceed(TRUE, "gate")
  /\ UNCHANGED << out, inputs >> /\ Alone

Approved == \E r \in legal.approval, c \in job.rclaim :
              validate_runtime_review(r, c, Only(out.rinv))
Gate ==
  /\ At("gate")
  /\ Proceed(Approved, "content")
  /\ UNCHANGED out /\ Quiet

VerifyContent ==
  /\ At("content")
  /\ Proceed(verify_runtime_content(Prefix, Only(out.rinv)), "boundary")
  /\ UNCHANGED out /\ Quiet

-----------------------------------------------------------------------------
(* The second half, ci-p25-6-qualify.sh, trusts nothing of the first. *)

\* Bug variant: the admission's own pointer to its review is not compared.
Boundary_AnyWord ==
  /\ At("boundary")
  /\ Proceed( /\ job.claim # {} /\ legal.review = job.claim
              /\ out.rarchive = out.rsha
              /\ Only(out.admission).measurement = "measurable", "candidate" )
  /\ UNCHANGED out /\ Quiet
Boundary ==
  /\ At("boundary")
  /\ Proceed( /\ job.claim # {} /\ legal.review = job.claim
              /\ out.rarchive = out.rsha
              /\ ~job.tokens
              /\ Only(out.admission).measurement = "measurable", "candidate" )
  /\ UNCHANGED out /\ Quiet

CollectCandidate ==
  /\ At("candidate")
  /\ LET evidence == collect_candidate(Only(out.sidecar), models.manifest)
     IN  Proceed(evidence # {}, "again") /\ out' = [out EXCEPT !.candlic = evidence]
  /\ Quiet

CheckRuntimeAgain ==
  /\ At("again")
  /\ Proceed(Approved /\ verify_runtime_content(Prefix, Only(out.rinv)), "evaluate")
  /\ UNCHANGED out /\ Quiet

\* evaluator.py verify, run by the unpacked runtime.
Evaluate ==
  /\ At("evaluate")
  /\ Proceed(models.manifest.bytes = models.artifact, "entries")
  /\ out' = [out EXCEPT !.qualified = {runtime_content_identity(Prefix)}]
  /\ Quiet

\* All three are computed before one is written; each is written over its template.
MaterializeEntries ==
  /\ At("entries")
  /\ LET m        == models.manifest
         entries  == materialize_candidate_entries(inputs.entries, m, m)
         map      == materialize_artifact_map(inputs.map, m)
         metadata == materialize_report_metadata(inputs.metadata, Only(out.rsha))
         ok       == entries # {} /\ map # {} /\ metadata # {}
     IN  /\ Proceed(ok, "map")
         /\ inputs' = IF ok THEN [inputs EXCEPT !.entries = entries] ELSE inputs
         /\ out' = [out EXCEPT !.filled =
                      IF ok THEN {[map |-> map, metadata |-> metadata]} ELSE {}]
  /\ Alone /\ UNCHANGED uploaded

MaterializeMap ==
  /\ At("map")
  /\ inputs' = [inputs EXCEPT !.map = Only(out.filled).map]
  /\ Proceed(TRUE, "metadata")
  /\ Alone /\ UNCHANGED << out, uploaded >>

MaterializeMetadata ==
  /\ At("metadata")
  /\ inputs' = [inputs EXCEPT !.metadata = Only(out.filled).metadata]
  /\ job' = [job EXCEPT !.pc = "stage", !.i = 1]
  /\ Alone /\ UNCHANGED << out, uploaded >>

-----------------------------------------------------------------------------
(* build_package *)

Specification == load_spec(Only(out.admission), out.rsha)

StageFile ==
  /\ At("stage")
  /\ job.i <= Len(StageOrder)
  /\ Specification # {}
  /\ LET file    == StageOrder[job.i]
         content == Source(file)
     IN  IF \/ CopyRefused(file, content, Only(Specification))
            \/ file = "artifact" /\ models.artifact = 0
         THEN Proceed(FALSE, "idle") /\ UNCHANGED out
         ELSE /\ job' = [job EXCEPT !.i = @ + 1]
              /\ out' = [out EXCEPT !.stage = [f \in DOMAIN @ \cup {file} |->
                                                 IF f = file THEN content ELSE @[f]]]
  /\ Quiet

WriteArchive ==
  /\ At("stage")
  /\ job.i > Len(StageOrder)
  /\ Proceed(Bound(out.stage), "inventory")
  /\ out' = IF Bound(out.stage)
            THEN [out EXCEPT !.archive = {Archive(Only(Specification), out.stage)}] ELSE out
  /\ Quiet

WriteInventory ==
  /\ At("inventory")
  /\ Proceed(TRUE, "verify")
  /\ out' = [out EXCEPT !.inventory = {InventoryOf(Only(out.archive))}]
  /\ Quiet

Verify ==
  /\ At("verify")
  /\ Proceed(verify_package(Only(out.archive), Only(out.inventory), out.stage, Sources),
             "checksum")
  /\ UNCHANGED out /\ Quiet

\* The checksum, and the boundary after it: the inventory is of the admitted candidate and
\* its flags are set.
Checksum ==
  /\ At("checksum")
  /\ Proceed(FALSE, "idle")
  /\ out' = IF Only(out.inventory).verified THEN [out EXCEPT !.checksum = out.archive] ELSE out
  /\ Quiet

FirstHalf  == \/ Sidecar \/ LoadReview \/ LoadManifest \/ ValidateArtifact \/ Admit
              \/ Pack \/ GenerateInput \/ Collect \/ Upload \/ Gate \/ VerifyContent
SecondHalf == \/ Boundary \/ CollectCandidate \/ CheckRuntimeAgain \/ Evaluate
              \/ MaterializeEntries \/ MaterializeMap \/ MaterializeMetadata
              \/ StageFile \/ WriteArchive \/ WriteInventory \/ Verify \/ Checksum
RunStep == FirstHalf \/ SecondHalf

-----------------------------------------------------------------------------
(* People, between two runs. *)

ReviewOf(m, surfaces) ==
  [ protocol |-> "active", reviewed |-> TRUE, surfaces |-> surfaces,
    candidates |-> {Candidate}, identity |-> Identity(m) ]
Needed(build) == [id \in Bare(Unpacked(build, 0)) |-> "supplied"]

Signs(field, value) ==
  /\ At("idle")
  /\ legal[field] # value
  /\ legal' = [legal EXCEPT ![field] = value]
  /\ UNCHANGED << models, index, inputs, job, out, uploaded, trouble, blind >>

SignReview == Signs("review", {ReviewOf(models.manifest, Surfaces)})
Declare    == Signs("declared", {models.manifest.terms})
Supply     == Signs("supplement", Needed(index))
Approve    ==
  /\ uploaded # {}
  /\ Signs("approval", {[reviewed |-> TRUE, inventory |-> Only(uploaded)]})

Sound == models.manifest.bytes = models.artifact /\ models.manifest.platform = "linux"
ExportAnew ==
  /\ At("idle") /\ ~Sound
  /\ LET e == models.manifest.edition + 1
         m == models.manifest
     IN  models' = [manifest |-> Export(e, e, "linux", m.terms, m.role), artifact |-> e]
  /\ UNCHANGED << legal, index, inputs, job, out, uploaded, trouble, blind >>

Answer == SignReview \/ Declare \/ Supply \/ Approve \/ ExportAnew
Answered ==
  /\ Sound
  /\ legal.review = {ReviewOf(models.manifest, Surfaces)}
  /\ legal.declared = {models.manifest.terms}
  /\ legal.supplement = Needed(index)
  /\ \A i \in uploaded : legal.approval = {[reviewed |-> TRUE, inventory |-> i]}

\* A run from a fresh checkout, once all that the last one asked for has been answered.
Rerun == Answered /\ (\E place \in Places : Start(TRUE, place, FALSE, FALSE)) /\ UNCHANGED trouble

-----------------------------------------------------------------------------
(* What comes between. *)

Trouble == trouble < MaxTrouble /\ trouble' = trouble + 1

\* Steps after the candidate's evidence was collected: nothing compares the manifest again.
AfterEvidence == { "again", "evaluate", "entries", "map", "metadata", "stage", "inventory",
                   "verify", "checksum" }
ChangeModels(manifest, artifact) ==
  /\ Trouble
  /\ models' = [manifest |-> manifest, artifact |-> artifact]
  /\ blind' = IF job.pc \in AfterEvidence THEN blind \cup {"models"} ELSE blind
  /\ UNCHANGED << legal, index, inputs, job, out, uploaded >>

\* An exporter replaces the artifact, then the manifest; a fetch of terms changes only it.
ArtifactReplaced ==
  ChangeModels(models.manifest, models.manifest.edition + 1)
ArtifactRemoved ==
  ChangeModels(models.manifest, 0)
ManifestReplaced == \E platform \in {"linux", "macos"}, terms \in TermSets :
  /\ models.artifact # 0
  /\ LET m == models.manifest
     IN  ChangeModels(Export(m.edition + 1, models.artifact, platform, terms, m.role),
                      models.artifact)

Upgraded ==
  /\ Trouble
  /\ index' \in Builds \ {index}
  /\ UNCHANGED << models, legal, inputs, job, out, uploaded, blind >>

\* A package is installed into the unpacked runtime.  What the inventory is made from, and
\* what the evaluator runs in after the last check, is not compared with the archive.
PrefixTouched == \E w \in Patches :
  /\ Trouble
  /\ ~At("idle") /\ out.prefix # {}
  /\ out' = [out EXCEPT !.prefix =
               {[Prefix EXCEPT !.build.dists = { v \in @ : v.name # w.name } \cup {w}]}]
  /\ blind' = IF job.pc \in {"input", "collect", "evaluate"} THEN blind \cup {"prefix"} ELSE blind
  /\ UNCHANGED << models, legal, index, inputs, job, uploaded >>

Repacked ==
  /\ Trouble
  /\ ~At("idle") /\ out.rarchive # {}
  /\ out' = [out EXCEPT !.rarchive = {Only({b \in Builds : {b} # out.rsha})}]
  /\ UNCHANGED << models, legal, index, inputs, job, uploaded, blind >>

\* A review that leaves a surface out, at any time.
HalfReviewed ==
  /\ Trouble
  /\ legal' = [legal EXCEPT !.review = {ReviewOf(models.manifest, Surfaces \ {"backbone"})}]
  /\ UNCHANGED << models, index, inputs, job, out, uploaded, blind >>

Killed ==
  /\ Trouble
  /\ ~At("idle")
  /\ job' = [job EXCEPT !.pc = "idle"]
  /\ UNCHANGED << models, legal, index, inputs, out, uploaded, blind >>

\* A run that nobody has prepared, or by hand in the same checkout.
OddRun == \E fresh, tokens, allowMissing \in BOOLEAN, place \in Places :
  Trouble /\ Start(fresh, place, tokens, allowMissing)

Comes == \/ ArtifactReplaced \/ ArtifactRemoved \/ ManifestReplaced \/ Upgraded
         \/ PrefixTouched \/ Repacked \/ HalfReviewed \/ Killed \/ OddRun

People == Answer \/ Rerun

Next == (RunStep \/ People \/ Comes) /\ Watch

Spec == Init /\ [][Next]_vars

\* The runner runs; people answer what they are asked, and run it again.
FairSpec == Spec /\ WF_vars(RunStep /\ Watch) /\ WF_vars(People /\ Watch)

-----------------------------------------------------------------------------
(* Properties *)

\* The archive, as soon as there is one.
Carried == UNION { {a.files} : a \in out.archive }

\* A candidate is packaged as one that may be shipped only if all its terms permit it and
\* a review of every surface of this very candidate says so, whatever else was edited,
\* exported or answered meanwhile (unless the manifest changed after its last check).
EligibleWasReviewed ==
  \A a \in out.archive :
    a.spec.status = "eligible" /\ "models" \notin blind =>
      /\ Verdicts(a.files["manifest"]) = {"yes"}
      /\ \E r \in job.claim : /\ r.surfaces = Surfaces
                              /\ r.identity = Identity(a.files["manifest"])

\* What was admitted is what is carried.  Manifest and artifact of an archive are of one
\* export, whenever exporters ran; admission, licence evidence, entries and platform map
\* speak of that manifest and that artifact (unless they changed after the last check), and
\* the metadata of the runtime that is carried: nothing is left of an earlier run in the
\* same checkout.  There is a checksum only of an archive all of whose files stood on disk
\* together.
CarriesWhatWasAdmitted ==
  /\ out.checksum # {} => together /\ out.checksum = out.archive
  /\ \A f \in Carried :
       /\ f["manifest"].bytes = f["artifact"]
       /\ f["metadata"] = f["runtime"]
       /\ "models" \notin blind =>
            /\ \A e \in out.admission :
                 e.artifact = f["artifact"] /\ e.manifest = f["manifest"].edition
            /\ \A c \in f["terms"] :
                 c.manifest = f["manifest"].edition /\ c.terms = f["manifest"].terms
            /\ f["entries"] = {[artifact |-> f["artifact"], manifest |-> f["manifest"].edition]}
            /\ f["map"] = {f["manifest"].platform}

\* The runtime that is carried has the content of the inventory that was approved, and the
\* evaluator has verified the candidate in a runtime of that content (unless packages were
\* installed where no check looks).
RuntimeIsReviewed ==
  \A f \in Carried :
    /\ \A a \in f["review"] : a.reviewed /\ f["credits"] = {a.inventory}
    /\ "prefix" \notin blind =>
         \A b \in f["runtime"], a \in f["review"] :
           LET content == runtime_content_identity(Unpacked(b, job.place))
           IN  a.inventory.content = content /\ out.qualified = {content}

\* Every package of the carried runtime is credited over its own text with its own licence,
\* and every record of an inventory is one reading of one package.
EveryPackageCredited ==
  /\ \A f \in Carried : "prefix" \notin blind =>
       \A b \in f["runtime"], inv \in f["credits"] :
         \A p \in Installed(Unpacked(b, 0)) : \E t \in DOMAIN inv.texts :
           /\ Id(p) \in inv.texts[t].packages /\ p.licence \in inv.texts[t].licences
           /\ p.text = NoText \/ t = p.text
  /\ \A inv \in out.rinv : \A r \in inv.packages :
       \E p \in (UNION { b.conda \cup b.dists : b \in Builds }) \cup Patches :
         /\ Id(p) = r.id /\ p.metadata = r.metadata /\ p.licence = r.licence
         /\ p.text = NoText \/ p.text = r.text

\* However often the lane was refused, killed or disturbed, answering what it asks for leads
\* to a package with a checksum, wherever the runtime happens to be unpacked.
EventuallyPackaged == <>(out.checksum # {})
=============================================================================
