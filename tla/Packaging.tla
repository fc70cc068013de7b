------------------------------ MODULE Packaging ------------------------------
(***************************************************************************)
(* package.py and p25_6_materialize_inputs.py: how checked files become    *)
(* one archive, and what is compared before it may leave the machine.      *)
(*                                                                         *)
(* A hash is the value itself: a manifest is known by its edition, an      *)
(* artifact by its bytes and a runtime archive by the build that is in it. *)
(* An operator that may refuse returns a set: empty, or the one document.  *)
(***************************************************************************)
EXTENDS Naturals, Sequences

\* An input is empty as it is checked in, and holds one document when it is filled.
Template == {}

\* The files of the specification, in its order.  The ones that never change (drivers,
\* schemas, instructions) are left out; licences, notices and inventory of one collection
\* are one file.
StageOrder == << "manifest", "artifact", "terms", "credits", "review",
                 "entries", "map", "metadata", "runtime" >>

-----------------------------------------------------------------------------
(* The carried inputs: templates in the checkout, filled once in a checkout. *)

\* export.platform must be a Linux target; "seen" is the manifest file as it was hashed.
materialize_candidate_entries(entries, m, seen) ==
  IF m.platform # "linux" \/ entries # Template THEN {}
  ELSE {[artifact |-> m.bytes, manifest |-> seen.edition]}

materialize_artifact_map(map, m) ==
  IF m.platform # "linux" \/ map # Template THEN {} ELSE {m.platform}

materialize_report_metadata(metadata, runtime) ==
  IF metadata # Template THEN {} ELSE {runtime}

-----------------------------------------------------------------------------
(* package.py *)

\* The specification names a candidate only if it may be measured.
load_spec(entry, runtime) ==
  IF entry.measurement # "measurable" THEN {}
  ELSE {[status |-> entry.status, why |-> entry.why, runtime |-> runtime]}

\* The copy of a source into the stage.  Only the runtime has an identity of its own here.
CopyRefused(file, content, spec) == file = "runtime" /\ content # spec.runtime

\* The manifest that is carried names the artifact that is carried.
Bound(files) == files["manifest"].bytes = files["artifact"]

\* One archive, and the inventory that the builder writes beside it: its four flags say
\* already what verify_package is about to find out.
Archive(spec, stage) == [spec |-> spec, files |-> stage]
InventoryOf(archive) ==
  [spec |-> archive.spec, files |-> archive.files, archive |-> archive, verified |-> TRUE]

\* The four copies, each against the inventory.
LoadsInventory(inventory)         == inventory.verified
MembersMatch(archive, inventory)  ==
  archive = inventory.archive /\ archive.files = inventory.files /\ archive.spec = inventory.spec
StageMatches(stage, inventory)    == stage = inventory.files
SourcesMatch(sources, inventory)  ==
  \A f \in DOMAIN inventory.files : sources[f] = inventory.files[f]

\* Bug variant: the sources are not read again.
verify_package_NoSources(archive, inventory, stage, sources) ==
  LoadsInventory(inventory) /\ MembersMatch(archive, inventory) /\ StageMatches(stage, inventory)
verify_package(archive, inventory, stage, sources) ==
  /\ LoadsInventory(inventory)
  /\ MembersMatch(archive, inventory)
  /\ StageMatches(stage, inventory) /\ Bound(stage)
  /\ SourcesMatch(sources, inventory)
  /\ Bound(archive.files)
=============================================================================
