----------------------------- MODULE ReleaseProofs -----------------------------
(***************************************************************************)
(* The release lane, for any builds, wheels, places, terms and number of   *)
(* runs, whatever comes between its steps.                                 *)
(***************************************************************************)
EXTENDS Release, TLAPS

-----------------------------------------------------------------------------
(* Where a run is, and which steps it has behind it. *)
Rank == [ idle |-> 0, sidecar |-> 1, review |-> 2, load |-> 3, artifact |-> 4, admit |-> 5,
          pack |-> 6, input |-> 7, collect |-> 8, upload |-> 9, gate |-> 10, content |-> 11,
          boundary |-> 12, candidate |-> 13, again |-> 14, evaluate |-> 15, entries |-> 16,
          map |-> 17, metadata |-> 18, stage |-> 19, inventory |-> 20, verify |-> 21,
          checksum |-> 22 ]
Pcs == DOMAIN Rank
Reached(pc) == Rank[pc] <= Rank[job.pc]

-----------------------------------------------------------------------------
(* Records and documents. *)
JobShaped ==
  job = [pc |-> job.pc, place |-> job.place, claim |-> job.claim, rclaim |-> job.rclaim,
         tokens |-> job.tokens, allowMissing |-> job.allowMissing, m |-> job.m, i |-> job.i]

OutShaped ==
  out = [sidecar |-> out.sidecar, admission |-> out.admission, prefix |-> out.prefix,
         rarchive |-> out.rarchive, rsha |-> out.rsha, rinput |-> out.rinput,
         rinv |-> out.rinv, candlic |-> out.candlic, qualified |-> out.qualified,
         filled |-> out.filled, stage |-> out.stage, archive |-> out.archive,
         inventory |-> out.inventory, checksum |-> out.checksum]

InputsShaped ==
  inputs = [entries |-> inputs.entries, map |-> inputs.map, metadata |-> inputs.metadata]

LegalShaped ==
  /\ legal = [review |-> legal.review, declared |-> legal.declared,
              approval |-> legal.approval, supplement |-> legal.supplement]
  /\ \A r, s \in legal.review : r = s
  /\ \A r, s \in legal.approval : r = s

Shaped ==
  /\ JobShaped /\ OutShaped /\ InputsShaped /\ LegalShaped
  /\ job.pc \in Pcs
  /\ \A r, s \in job.claim : r = s
  /\ models.manifest.edition \in Nat
  /\ index \in Builds

One(document) == \E d : document = {d}

(* Only what a run has written is there. *)
Fresh ==
  /\ job.pc = "sidecar" => out = Nothing
  /\ job.pc # "idle" /\ ~Reached("inventory") => out.archive = {}
  /\ job.pc # "idle" /\ ~Reached("input") => out.prefix = {} /\ out.rinv = {}
  /\ job.pc # "idle" /\ ~Reached("stage") => out.stage = << >>
  /\ job.pc \in {"sidecar", "review", "load", "artifact"} => out.admission = {}
  /\ job.pc = "admit" => out.admission \subseteq {UnavailableEntry(ProtocolRole)}
  /\ job.pc # "idle" => out.checksum = {}

-----------------------------------------------------------------------------
(* The candidate. *)

(* A manifest that was read at some time: its edition is not used again. *)
WasThere(m) ==
  /\ m.edition \in Nat /\ m.edition <= models.manifest.edition
  /\ m.edition = models.manifest.edition => m = models.manifest

Loaded == Only(job.m)

Claims ==
  /\ Reached("load") => job.tokens \/ \E r \in job.claim : r.surfaces = Surfaces
  /\ Reached("pack") => job.tokens \/ \E r \in job.claim : r.identity = Identity(Loaded)
  /\ Reached("candidate") => ~job.tokens /\ Only(out.admission).measurement = "measurable"

AdmittedOf(e, m) ==
  /\ e.measurement \in {"measurable", "unavailable"}
  /\ e.measurement = "measurable" =>
       /\ e.artifact = m.bytes
       /\ e.status = "eligible" => Verdicts(m) = {"yes"}
       /\ e.manifest \in Nat /\ m.edition <= e.manifest /\ e.manifest <= models.manifest.edition

Bindings ==
  /\ Reached("review") =>
       /\ One(out.sidecar) /\ Only(out.sidecar).manifest \in Nat
       /\ Only(out.sidecar).manifest <= models.manifest.edition
  /\ Reached("artifact") =>
       One(job.m) /\ WasThere(Loaded) /\ Only(out.sidecar).manifest <= Loaded.edition
  /\ Reached("pack") => One(out.admission) /\ AdmittedOf(Only(out.admission), Loaded)

(* From its evidence on, the candidate is the one admitted. *)
EvidenceOf(m) == {[manifest |-> m.edition, terms |-> m.terms]}
EntriesOf(m)  == {[artifact |-> m.bytes, manifest |-> m.edition]}

Admitted ==
  Reached("again") /\ "models" \notin blind =>
    /\ models.manifest = Loaded
    /\ Only(out.admission).manifest = Loaded.edition
    /\ out.candlic = EvidenceOf(Loaded)
    /\ Reached("map") => inputs.entries = EntriesOf(Loaded)
    /\ job.pc \in {"map", "metadata"} => Only(out.filled).map = {Loaded.platform}
    /\ Reached("metadata") => inputs.map = {Loaded.platform}

-----------------------------------------------------------------------------
(* The runtime. *)
Universe == (UNION { b.conda \cup b.dists : b \in Builds }) \cup Patches

(* What a prefix that was unpacked from a build can have become. *)
CameFrom(b, prefix) ==
  /\ prefix = [build |-> prefix.build, at |-> prefix.at, mentions |-> prefix.mentions,
               caches |-> prefix.caches]
  /\ prefix.at = job.place /\ prefix.mentions = job.place
  /\ LET x == prefix.build IN
     /\ x = [conda |-> x.conda, dists |-> x.dists, ort |-> x.ort, bridge |-> x.bridge,
             rest |-> x.rest]
     /\ x.conda = b.conda
     /\ x.dists \subseteq b.dists \cup Patches
     /\ \A v, w \in x.dists : Id(v) = Id(w) => v = w

Packages(b, D) ==
  /\ D \subseteq b.conda \cup (UNION { c.dists : c \in Builds }) \cup Patches
  /\ \A p \in D : p \in b.conda \/ p.source = "pip"
  /\ \A p, q \in D : Id(p) = Id(q) => p = q

(* An input declares the packages of the prefix as it was when it was made. *)
Declares(b, input) ==
  \E D, s :
    /\ Packages(b, D)
    /\ input.declared = { Declaration(p, s) : p \in D }
    /\ "prefix" \notin blind => D = Installed(Unpacked(b, 0))

Reads(inv) ==
  \A r \in inv.packages :
    \E p \in Universe :
      /\ Id(p) = r.id /\ p.metadata = r.metadata /\ p.licence = r.licence
      /\ p.text = NoText \/ p.text = r.text

Credits(b, inv) ==
  \A p \in Installed(Unpacked(b, 0)) : \E t \in DOMAIN inv.texts :
    /\ Id(p) \in inv.texts[t].packages /\ p.licence \in inv.texts[t].licences
    /\ p.text = NoText \/ t = p.text

Content(b) == runtime_content_identity(Unpacked(b, job.place))

SolvedBuild == Only(out.rsha)

Runtime ==
  /\ Reached("input") =>
       /\ One(out.rsha) /\ SolvedBuild \in Builds
       /\ One(out.prefix) /\ CameFrom(SolvedBuild, Prefix)
  /\ job.pc \in {"input", "collect"} /\ "prefix" \notin blind => Prefix.build = SolvedBuild
  /\ job.pc = "collect" => One(out.rinput) /\ Declares(SolvedBuild, Only(out.rinput))
  /\ \A inv \in out.rinv : Reads(inv)
  /\ Reached("upload") =>
       /\ One(out.rinv)
       /\ "prefix" \notin blind =>
            /\ Only(out.rinv).content = Content(SolvedBuild)
            /\ Credits(SolvedBuild, Only(out.rinv))
  /\ job.pc = "evaluate" /\ "prefix" \notin blind =>
       runtime_content_identity(Prefix) = Only(out.rinv).content
  /\ Reached("entries") /\ "prefix" \notin blind =>
       out.qualified = {Only(out.rinv).content}

Approvals ==
  Reached("content") => \A a \in legal.approval : a.reviewed /\ out.rinv = {a.inventory}

-----------------------------------------------------------------------------
(* The package. *)
Filled ==
  /\ job.pc \in {"map", "metadata"} => Only(out.filled).metadata = out.rsha
  /\ Reached("stage") => inputs.metadata = out.rsha

Staged(file) ==
  CASE file = "manifest" -> "models" \notin blind => out.stage[file] = Loaded
    [] file = "artifact" -> TRUE
    [] file = "runtime"  -> out.stage[file] = out.rsha
    [] OTHER             -> out.stage[file] = Source(file)

Files == { StageOrder[k] : k \in 1..9 }

Stage ==
  job.pc = "stage" =>
    /\ job.i \in 1..10
    /\ \A k \in 1..(job.i - 1) : StageOrder[k] \in DOMAIN out.stage
    /\ \A f \in DOMAIN out.stage \cap Files : Staged(f)

Shipped ==
  \A a \in out.archive :
    LET f == a.files IN
    /\ a.spec.status = "eligible" /\ "models" \notin blind =>
         /\ Verdicts(f["manifest"]) = {"yes"}
         /\ \E r \in job.claim : r.surfaces = Surfaces /\ r.identity = Identity(f["manifest"])
    /\ f["manifest"].bytes = f["artifact"]
    /\ f["metadata"] = f["runtime"]
    /\ "models" \notin blind =>
         /\ \A e \in out.admission :
              e.artifact = f["artifact"] /\ e.manifest = f["manifest"].edition
         /\ \A c \in f["terms"] :
              c.manifest = f["manifest"].edition /\ c.terms = f["manifest"].terms
         /\ f["entries"] = {[artifact |-> f["artifact"], manifest |-> f["manifest"].edition]}
         /\ f["map"] = {f["manifest"].platform}
    /\ \A r \in f["review"] : r.reviewed /\ f["credits"] = {r.inventory}
    /\ "prefix" \notin blind =>
         /\ \A b \in f["runtime"], r \in f["review"] :
              r.inventory.content = Content(b) /\ out.qualified = {Content(b)}
         /\ \A b \in f["runtime"], inv \in f["credits"] : Credits(b, inv)

Closed ==
  /\ out.checksum # {} => together /\ out.checksum = out.archive
  /\ job.pc = "checksum" => together
  /\ together => Packed
  /\ Reached("inventory") => One(out.archive)
  /\ Reached("verify") => out.inventory = { InventoryOf(a) : a \in out.archive }

RInv == /\ Shaped /\ Fresh /\ Claims /\ Bindings /\ Admitted
        /\ Runtime /\ Approvals /\ Filled /\ Stage /\ Shipped /\ Closed

-----------------------------------------------------------------------------
(* Steps in general. *)

LEMMA Ranks ==
  /\ Rank["idle"] = 0 /\ Rank["sidecar"] = 1 /\ Rank["review"] = 2 /\ Rank["load"] = 3
  /\ Rank["artifact"] = 4 /\ Rank["admit"] = 5 /\ Rank["pack"] = 6 /\ Rank["input"] = 7
  /\ Rank["collect"] = 8 /\ Rank["upload"] = 9 /\ Rank["gate"] = 10 /\ Rank["content"] = 11
  /\ Rank["boundary"] = 12 /\ Rank["candidate"] = 13 /\ Rank["again"] = 14
  /\ Rank["evaluate"] = 15 /\ Rank["entries"] = 16 /\ Rank["map"] = 17 /\ Rank["metadata"] = 18
  /\ Rank["stage"] = 19 /\ Rank["inventory"] = 20 /\ Rank["verify"] = 21
  /\ Rank["checksum"] = 22
  /\ \A pc \in Pcs : Rank[pc] \in Nat
BY DEF Rank, Pcs

LEMMA AllPcs ==
  Pcs = { "idle", "sidecar", "review", "load", "artifact", "admit", "pack", "input", "collect",
          "upload", "gate", "content", "boundary", "candidate", "again", "evaluate", "entries",
          "map", "metadata", "stage", "inventory", "verify", "checksum" }
BY DEF Pcs, Rank

LEMMA OnlyOne ==
  ASSUME NEW d
  PROVE  Only({d}) = d
BY DEF Only

LEMMA OneOnly ==
  ASSUME NEW document, One(document)
  PROVE  document = {Only(document)}
BY OnlyOne DEF One

(* A step of the run moves to another place of it. *)
LEMMA Moves ==
  ASSUME Shaped, NEW pc \in Pcs, job' = [job EXCEPT !.pc = pc]
  PROVE  /\ JobShaped' /\ job'.pc = pc /\ job'.place = job.place /\ job'.claim = job.claim
         /\ job'.rclaim = job.rclaim /\ job'.tokens = job.tokens
         /\ job'.allowMissing = job.allowMissing /\ job'.m = job.m /\ job'.i = job.i
BY DEF Shaped, JobShaped

(* What has been packed stays as it is. *)
LEMMA ShippedStays ==
  ASSUME Shipped, out'.archive = out.archive, out'.admission = out.admission,
         out'.qualified = out.qualified, job'.claim = job.claim, job'.place = job.place,
         blind \subseteq blind'
  PROVE  Shipped'
<1>1. \A b : Content(b)' = Content(b)
  BY DEF Content
<1> QED BY <1>1 DEF Shipped

(* Nothing is written before its step. *)
LEMMA FreshStays ==
  ASSUME Fresh, job.pc \in Pcs \ {"idle"}, job'.pc \in Pcs \ {"idle", "sidecar"},
         Rank[job.pc] <= Rank[job'.pc], out'.checksum = out.checksum,
         Rank[job'.pc] < 7 => out'.prefix = out.prefix /\ out'.rinv = out.rinv,
         Rank[job'.pc] < 19 => out'.stage = out.stage,
         Rank[job'.pc] < 20 => out'.archive = out.archive,
         job'.pc \in {"review", "load", "artifact"} => out'.admission = {},
         job'.pc = "admit" => out'.admission \subseteq {UnavailableEntry(ProtocolRole)}
  PROVE  Fresh'
<1>1. Rank[job.pc] \in Nat /\ Rank[job'.pc] \in Nat
  BY Ranks
<1>2. /\ Reached("inventory") <=> 20 <= Rank[job.pc]
      /\ Reached("stage") <=> 19 <= Rank[job.pc]
      /\ Reached("input") <=> 7 <= Rank[job.pc]
  BY Ranks DEF Reached
<1>3. /\ Reached("inventory")' <=> 20 <= Rank[job'.pc]
      /\ Reached("stage")' <=> 19 <= Rank[job'.pc]
      /\ Reached("input")' <=> 7 <= Rank[job'.pc]
  BY Ranks DEF Reached
<1>4. ~Reached("inventory")' => out'.archive = {}
  BY <1>1, <1>2, <1>3 DEF Fresh
<1>5. ~Reached("input")' => out'.prefix = {} /\ out'.rinv = {}
  BY <1>1, <1>2, <1>3 DEF Fresh
<1>6. ~Reached("stage")' => out'.stage = << >>
  BY <1>1, <1>2, <1>3 DEF Fresh
<1>7. out'.checksum = {}
  BY DEF Fresh
<1> QED BY <1>4, <1>5, <1>6, <1>7 DEF Fresh

(* A run that has stopped promises nothing but what it has packed. *)
LEMMA Stopped ==
  ASSUME Watch, Shaped', job'.pc = "idle", \A inv \in out'.rinv : Reads(inv), Shipped',
         out'.checksum # {} => together' /\ out'.checksum = out'.archive
  PROVE  RInv'
<1>1. /\ Fresh' /\ Claims' /\ Bindings' /\ Admitted' /\ Approvals' /\ Filled' /\ Stage'
  BY Ranks DEF Fresh, Claims, Bindings, Admitted, Approvals, Filled, Stage, Reached
<1>2. Runtime'
  BY Ranks DEF Runtime, Reached
<1>3. together' => Packed'
  BY DEF Watch
<1>4. Closed'
  BY <1>3, Ranks DEF Closed, Reached
<1> QED BY <1>1, <1>2, <1>4 DEF RInv

(* A step that refuses before anything is packed. *)
LEMMA Refused ==
  ASSUME RInv, Watch, job.pc # "idle", ~Reached("inventory"),
         job' = [job EXCEPT !.pc = "idle"], UNCHANGED << models, legal, index >>,
         InputsShaped', OutShaped', out'.archive = out.archive, out'.checksum = out.checksum,
         \A inv \in out'.rinv : Reads(inv)
  PROVE  RInv'
<1>1. Shaped'
  BY Moves, AllPcs DEF RInv, Shaped, LegalShaped
<1>2. job'.pc = "idle"
  BY Moves, AllPcs DEF RInv
<1>3. out'.archive = {} /\ out'.checksum = {}
  BY DEF RInv, Fresh
<1>4. Shipped'
  BY <1>3 DEF Shipped
<1> QED BY <1>1, <1>2, <1>3, <1>4, Stopped

(* A step that goes on before anything is packed. *)
LEMMA Unpacked0 ==
  ASSUME RInv, Watch, job.pc # "idle", ~Reached("inventory"),
         job'.pc \in Pcs \ {"idle"}, ~Reached("inventory")',
         out'.archive = out.archive, out'.checksum = out.checksum
  PROVE  Shipped' /\ Closed' /\ out'.archive = {} /\ out'.checksum = {}
<1>1. out'.archive = {} /\ out'.checksum = {}
  BY DEF RInv, Fresh
<1>2. job'.pc # "checksum" /\ ~Reached("verify")'
  BY Ranks DEF Reached
<1>3. together' => Packed'
  BY DEF Watch
<1> QED BY <1>1, <1>2, <1>3 DEF Shipped, Closed

-----------------------------------------------------------------------------
(* The candidate is admitted. *)

LEMMA SidecarSound ==
  ASSUME RInv, Watch, Sidecar
  PROVE  RInv'
<1>1. PICK input : /\ out' = [out EXCEPT !.sidecar = input]
                   /\ \/ job' = [job EXCEPT !.pc = "idle"]
                      \/ /\ job' = [job EXCEPT !.pc = "review"]
                         /\ input = {[manifest |-> models.manifest.edition,
                                      terms |-> models.manifest.terms]}
  <2> DEFINE input == IF legal.declared = {} THEN {}
                      ELSE CandidateInput(Only(legal.declared), models.manifest)
  <2>1. /\ out' = [out EXCEPT !.sidecar = input]
        /\ job' = [job EXCEPT !.pc = IF input # {} THEN "review" ELSE "idle"]
    BY DEF Sidecar, Proceed
  <2>2. input # {} => input = {[manifest |-> models.manifest.edition,
                                terms |-> models.manifest.terms]}
    BY DEF CandidateInput
  <2> HIDE DEF input
  <2> QED BY <2>1, <2>2
<1>2. job.pc = "sidecar" /\ UNCHANGED << models, legal, index, blind, inputs >>
  BY DEF Sidecar, At, Quiet, Alone
<1>3. ~Reached("inventory") /\ job.pc # "idle"
  BY <1>2, Ranks DEF Reached
<1>4. OutShaped' /\ out'.sidecar = input /\ out'.archive = out.archive
      /\ out'.stage = out.stage /\ out'.checksum = out.checksum /\ out'.rinv = out.rinv
      /\ out'.admission = out.admission
      /\ out'.prefix = out.prefix
  BY <1>1 DEF RInv, Shaped, OutShaped
<1>5. CASE job' = [job EXCEPT !.pc = "idle"]
  BY <1>2, <1>3, <1>4, <1>5, Refused DEF RInv, Runtime, Shaped, InputsShaped
<1>6. CASE /\ job' = [job EXCEPT !.pc = "review"]
           /\ input = {[manifest |-> models.manifest.edition, terms |-> models.manifest.terms]}
  <2>1. JobShaped' /\ job'.pc = "review" /\ job'.claim = job.claim
    BY <1>6, Moves, AllPcs DEF RInv
  <2>2. Shaped'
    BY <1>2, <1>4, <2>1, AllPcs DEF RInv, Shaped, InputsShaped, LegalShaped
  <2>3. Shipped' /\ Closed' /\ out'.archive = {} /\ out'.checksum = {}
    BY <1>3, <1>4, <2>1, Ranks, AllPcs, Unpacked0 DEF Reached
  <2>4. Fresh'
    <3>1. job.pc = "sidecar" /\ job'.pc = "review" /\ Rank[job.pc] <= Rank[job'.pc]
      BY <1>2, <2>1, Ranks
    <3>2. Fresh /\ job.pc \in Pcs /\ job'.pc \in Pcs
      BY <3>1, AllPcs DEF RInv
    <3>3. out'.admission = {}
      BY <1>4, <3>1, <3>2 DEF Fresh
    <3> QED BY <1>4, <2>3, <3>1, <3>2, <3>3, FreshStays
  <2>5. Bindings'
    <3>1. /\ One(out'.sidecar)
          /\ Only(out'.sidecar) = [manifest |-> models.manifest.edition,
                                   terms |-> models.manifest.terms]
      BY <1>4, <1>6, OnlyOne DEF One
    <3>2. models'.manifest.edition \in Nat /\ models' = models
      BY <1>2 DEF RInv, Shaped
    <3> QED BY <2>1, <3>1, <3>2, Ranks DEF Bindings, Reached
  <2>6. Claims' /\ Admitted' /\ Approvals' /\ Filled' /\ Stage'
    BY <2>1, Ranks DEF Claims, Admitted, Approvals, Filled, Stage, Reached
  <2>7. Runtime'
    BY <1>2, <1>3, <1>4, <2>1, Ranks DEF RInv, Fresh, Runtime, Reached
  <2> QED BY <2>2, <2>3, <2>4, <2>5, <2>6, <2>7 DEF RInv
<1> QED BY <1>1, <1>5, <1>6

LEMMA LoadReviewSound ==
  ASSUME RInv, Watch, LoadReview
  PROVE  RInv'
<1>1. /\ \/ job' = [job EXCEPT !.pc = "idle"]
         \/ /\ job' = [job EXCEPT !.pc = "load"]
            /\ job.tokens \/ \E r \in legal.review, c \in job.claim : LoadsReview(r, c)
      /\ job.pc = "review" /\ UNCHANGED << models, legal, index, blind, inputs, out >>
  BY DEF LoadReview, Proceed, At, Quiet, Alone
<1>2. ~Reached("inventory") /\ job.pc # "idle"
  BY <1>1, Ranks DEF Reached
<1>3. InputsShaped' /\ OutShaped' /\ out' = out /\ \A inv \in out'.rinv : Reads(inv)
  BY <1>1 DEF RInv, Shaped, InputsShaped, OutShaped, Runtime
<1>4. CASE job' = [job EXCEPT !.pc = "idle"]
  BY <1>1, <1>2, <1>3, <1>4, Refused
<1>5. CASE /\ job' = [job EXCEPT !.pc = "load"]
           /\ job.tokens \/ \E r \in legal.review, c \in job.claim : LoadsReview(r, c)
  <2>1. /\ JobShaped' /\ job'.pc = "load" /\ job'.claim = job.claim
        /\ job'.tokens = job.tokens
    BY <1>5, Moves, AllPcs DEF RInv
  <2>2. Shaped'
    BY <1>1, <1>3, <2>1, AllPcs DEF RInv, Shaped, LegalShaped
  <2>3. Shipped' /\ Closed' /\ out'.archive = {} /\ out'.checksum = {}
    BY <1>2, <1>3, <2>1, Ranks, AllPcs, Unpacked0 DEF Reached
  <2>4. Fresh'
    <3>1. job.pc = "review" /\ job'.pc = "load" /\ Rank[job.pc] <= Rank[job'.pc]
      BY <1>1, <2>1, Ranks
    <3>2. Fresh /\ job.pc \in Pcs /\ job'.pc \in Pcs
      BY <3>1, AllPcs DEF RInv
    <3>3. out'.admission = {}
      BY <1>1, <1>3, <3>1, <3>2 DEF Fresh
    <3> QED BY <1>3, <2>3, <3>1, <3>2, <3>3, FreshStays
  <2>5. Bindings'
    BY <1>1, <2>1, Ranks DEF RInv, Bindings, Reached
  <2>6. job'.tokens \/ \E r \in job'.claim : r.surfaces = Surfaces
    BY <1>5, <2>1 DEF LoadsReview
  <2>7. Claims' /\ Admitted' /\ Approvals' /\ Filled' /\ Stage'
    BY <2>1, <2>6, Ranks DEF Claims, Admitted, Approvals, Filled, Stage, Reached
  <2>8. Runtime'
    BY <1>1, <1>3, <2>1, Ranks DEF Runtime, Reached
  <2> QED BY <2>2, <2>3, <2>4, <2>5, <2>7, <2>8 DEF RInv
<1> QED BY <1>1, <1>4, <1>5

LEMMA LoadManifestSound ==
  ASSUME RInv, Watch, LoadManifest
  PROVE  RInv'
<1>1. /\ \/ job' = [job EXCEPT !.pc = "idle"]
         \/ job' = [job EXCEPT !.pc = "artifact", !.m = {models.manifest}]
      /\ job.pc = "load" /\ UNCHANGED << models, legal, index, blind, inputs, out >>
  BY DEF LoadManifest, Proceed, At, Quiet, Alone
<1>2. ~Reached("inventory") /\ job.pc # "idle"
  BY <1>1, Ranks DEF Reached
<1>3. InputsShaped' /\ OutShaped' /\ out' = out /\ \A inv \in out'.rinv : Reads(inv)
  BY <1>1 DEF RInv, Shaped, InputsShaped, OutShaped, Runtime
<1>4. CASE job' = [job EXCEPT !.pc = "idle"]
  BY <1>1, <1>2, <1>3, <1>4, Refused
<1>5. CASE job' = [job EXCEPT !.pc = "artifact", !.m = {models.manifest}]
  <2>1. /\ JobShaped' /\ job'.pc = "artifact" /\ job'.claim = job.claim
        /\ job'.tokens = job.tokens /\ job'.m = {models.manifest}
    BY <1>5 DEF RInv, Shaped, JobShaped
  <2>2. Shaped'
    BY <1>1, <1>3, <2>1, AllPcs DEF RInv, Shaped, LegalShaped
  <2>3. Shipped' /\ Closed' /\ out'.archive = {} /\ out'.checksum = {}
    BY <1>2, <1>3, <2>1, Ranks, AllPcs, Unpacked0 DEF Reached
  <2>4. Fresh'
    <3>1. job.pc = "load" /\ job'.pc = "artifact" /\ Rank[job.pc] <= Rank[job'.pc]
      BY <1>1, <2>1, Ranks
    <3>2. Fresh /\ job.pc \in Pcs /\ job'.pc \in Pcs
      BY <3>1, AllPcs DEF RInv
    <3>3. out'.admission = {}
      BY <1>1, <1>3, <3>1, <3>2 DEF Fresh
    <3> QED BY <1>3, <2>3, <3>1, <3>2, <3>3, FreshStays
  <2>5. Bindings'
    <3>1. One(job'.m) /\ Only(job'.m) = models.manifest
      BY <2>1, OnlyOne DEF One
    <3>2. models.manifest.edition \in Nat
      BY DEF RInv, Shaped
    <3>3. /\ One(out.sidecar) /\ Only(out.sidecar).manifest \in Nat
          /\ Only(out.sidecar).manifest <= models.manifest.edition
      BY <1>1, Ranks DEF RInv, Bindings, Reached
    <3> QED BY <1>1, <2>1, <3>1, <3>2, <3>3, Ranks DEF Bindings, Reached, WasThere, Loaded
  <2>6. Claims'
    BY <1>1, <2>1, Ranks DEF RInv, Claims, Reached
  <2>7. Admitted' /\ Approvals' /\ Filled' /\ Stage'
    BY <2>1, Ranks DEF Admitted, Approvals, Filled, Stage, Reached
  <2>8. Runtime'
    BY <1>1, <1>3, <2>1, Ranks DEF Runtime, Reached
  <2> QED BY <2>2, <2>3, <2>4, <2>5, <2>6, <2>7, <2>8 DEF RInv
<1> QED BY <1>1, <1>4, <1>5

LEMMA ValidateArtifactSound ==
  ASSUME RInv, Watch, ValidateArtifact
  PROVE  RInv'
<1>1. PICK entry :
        /\ \/ job' = [job EXCEPT !.pc = "idle"] \/ job' = [job EXCEPT !.pc = "admit"]
        /\ out' = [out EXCEPT !.admission = entry]
        /\ entry = out.admission \/ entry = {UnavailableEntry(ProtocolRole)}
        /\ job.pc = "artifact" /\ UNCHANGED << models, legal, index, blind, inputs >>
  <2>1. out = [out EXCEPT !.admission = out.admission]
    BY DEF RInv, Shaped, OutShaped
  <2>2. \/ out' = out \/ out' = [out EXCEPT !.admission = {UnavailableEntry(ProtocolRole)}]
    BY DEF ValidateArtifact
  <2>3. /\ \/ job' = [job EXCEPT !.pc = "idle"] \/ job' = [job EXCEPT !.pc = "admit"]
        /\ job.pc = "artifact" /\ UNCHANGED << models, legal, index, blind, inputs >>
    BY DEF ValidateArtifact, Proceed, At, Quiet, Alone
  <2> QED BY <2>1, <2>2, <2>3
<1>2. ~Reached("inventory") /\ job.pc # "idle"
  BY <1>1, Ranks DEF Reached
<1>3. /\ InputsShaped' /\ OutShaped' /\ out'.sidecar = out.sidecar /\ out'.prefix = out.prefix
      /\ out'.archive = out.archive /\ out'.stage = out.stage
      /\ out'.checksum = out.checksum /\ out'.rinv = out.rinv
      /\ out'.admission = entry /\ \A inv \in out'.rinv : Reads(inv)
  BY <1>1 DEF RInv, Shaped, InputsShaped, OutShaped, Runtime
<1>4. CASE job' = [job EXCEPT !.pc = "idle"]
  BY <1>1, <1>2, <1>3, <1>4, Refused
<1>5. CASE job' = [job EXCEPT !.pc = "admit"]
  <2>1. /\ JobShaped' /\ job'.pc = "admit" /\ job'.claim = job.claim
        /\ job'.tokens = job.tokens /\ job'.m = job.m
    BY <1>5, Moves, AllPcs DEF RInv
  <2>2. Shaped'
    BY <1>1, <1>3, <2>1, AllPcs DEF RInv, Shaped, LegalShaped
  <2>3. Shipped' /\ Closed' /\ out'.archive = {} /\ out'.checksum = {}
    BY <1>2, <1>3, <2>1, Ranks, AllPcs, Unpacked0 DEF Reached
  <2>4. Fresh'
    <3>1. job.pc = "artifact" /\ job'.pc = "admit" /\ Rank[job.pc] <= Rank[job'.pc]
      BY <1>1, <2>1, Ranks
    <3>2. Fresh /\ job.pc \in Pcs /\ job'.pc \in Pcs
      BY <3>1, AllPcs DEF RInv
    <3>3. out'.admission \subseteq {UnavailableEntry(ProtocolRole)}
      BY <1>1, <1>3, <3>1, <3>2 DEF Fresh
    <3> QED BY <1>3, <2>3, <3>1, <3>2, <3>3, FreshStays
  <2>5. Bindings'
    BY <1>1, <1>3, <2>1, Ranks DEF RInv, Bindings, Reached, WasThere, Loaded
  <2>6. Claims'
    BY <1>1, <2>1, Ranks DEF RInv, Claims, Reached
  <2>7. Admitted' /\ Approvals' /\ Filled' /\ Stage'
    BY <2>1, Ranks DEF Admitted, Approvals, Filled, Stage, Reached
  <2>8. Runtime'
    BY <1>1, <1>3, <2>1, Ranks DEF Runtime, Reached
  <2> QED BY <2>2, <2>3, <2>4, <2>5, <2>6, <2>7, <2>8 DEF RInv
<1> QED BY <1>1, <1>4, <1>5

(* The entry of an admission speaks of the manifest that was loaded. *)
LEMMA EntryIsOf ==
  ASSUME NEW m, NEW seen, m.edition \in Nat, m.edition <= seen.edition,
         seen.edition <= models.manifest.edition, seen.edition \in Nat
  PROVE  /\ AdmittedOf(AdmittedEntry(ProtocolRole, m, seen), m)
         /\ AdmittedOf(UnavailableEntry(ProtocolRole), m)
BY DEF AdmittedOf, AdmittedEntry, UnavailableEntry, Eligible

LEMMA AdmitSound ==
  ASSUME RInv, Watch, Admit
  PROVE  RInv'
<1>1. PICK entry :
        /\ out' = [out EXCEPT !.admission = entry]
        /\ \/ job' = [job EXCEPT !.pc = "idle"]
           \/ /\ job' = [job EXCEPT !.pc = "pack"]
              /\ job.tokens \/ \E r \in job.claim : validate_candidate_identities(r, Loaded)
              /\ entry = IF out.admission # {} THEN out.admission
                         ELSE {AdmittedEntry(ProtocolRole, Loaded, models.manifest)}
        /\ job.pc = "admit" /\ UNCHANGED << models, legal, index, blind, inputs >>
  <2> DEFINE ok == job.tokens \/ \E r \in job.claim : validate_candidate_identities(r, Loaded)
             entry == IF ok THEN IF out.admission # {} THEN out.admission
                                 ELSE {AdmittedEntry(ProtocolRole, Loaded, models.manifest)}
                      ELSE {}
  <2>1. out' = [out EXCEPT !.admission = entry]
    BY DEF Admit, Loaded
  <2>2. job' = [job EXCEPT !.pc = IF ok THEN "pack" ELSE "idle"]
    BY DEF Admit, Loaded, Proceed
  <2>3. job.pc = "admit" /\ UNCHANGED << models, legal, index, blind, inputs >>
    BY DEF Admit, At, Quiet, Alone
  <2> QED BY <2>1, <2>2, <2>3
<1>2. ~Reached("inventory") /\ job.pc # "idle"
  BY <1>1, Ranks DEF Reached
<1>3. /\ InputsShaped' /\ OutShaped' /\ out'.sidecar = out.sidecar /\ out'.prefix = out.prefix
      /\ out'.archive = out.archive /\ out'.stage = out.stage
      /\ out'.checksum = out.checksum /\ out'.rinv = out.rinv
      /\ out'.admission = entry /\ \A inv \in out'.rinv : Reads(inv)
  BY <1>1 DEF RInv, Shaped, InputsShaped, OutShaped, Runtime
<1>4. CASE job' = [job EXCEPT !.pc = "idle"]
  BY <1>1, <1>2, <1>3, <1>4, Refused
<1>5. CASE /\ job' = [job EXCEPT !.pc = "pack"]
           /\ job.tokens \/ \E r \in job.claim : validate_candidate_identities(r, Loaded)
           /\ entry = IF out.admission # {} THEN out.admission
                      ELSE {AdmittedEntry(ProtocolRole, Loaded, models.manifest)}
  <2>1. /\ JobShaped' /\ job'.pc = "pack" /\ job'.claim = job.claim
        /\ job'.tokens = job.tokens /\ job'.m = job.m
    BY <1>5, Moves, AllPcs DEF RInv
  <2>2. Shaped'
    BY <1>1, <1>3, <2>1, AllPcs DEF RInv, Shaped, LegalShaped
  <2>3. Shipped' /\ Closed' /\ out'.archive = {} /\ out'.checksum = {}
    BY <1>2, <1>3, <2>1, Ranks, AllPcs, Unpacked0 DEF Reached
  <2>4. Fresh'
    <3>1. job.pc = "admit" /\ job'.pc = "pack" /\ Rank[job.pc] <= Rank[job'.pc]
      BY <1>1, <2>1, Ranks
    <3>2. Fresh /\ job.pc \in Pcs /\ job'.pc \in Pcs
      BY <3>1, AllPcs DEF RInv
    <3> QED BY <1>1, <1>3, <2>3, <3>1, <3>2, FreshStays
  <2>5. Bindings'
    <3>1. /\ One(out.sidecar) /\ Only(out.sidecar).manifest \in Nat
          /\ Only(out.sidecar).manifest <= models.manifest.edition
          /\ One(job.m) /\ WasThere(Loaded) /\ Only(out.sidecar).manifest <= Loaded.edition
      BY <1>1, Ranks DEF RInv, Bindings, Reached
    <3>2. \E e : entry = {e} /\ AdmittedOf(e, Loaded)
      <4>1. /\ AdmittedOf(AdmittedEntry(ProtocolRole, Loaded, models.manifest), Loaded)
            /\ AdmittedOf(UnavailableEntry(ProtocolRole), Loaded)
        BY <3>1, EntryIsOf DEF WasThere, RInv, Shaped
      <4>2. \/ entry = {UnavailableEntry(ProtocolRole)}
            \/ entry = {AdmittedEntry(ProtocolRole, Loaded, models.manifest)}
        BY <1>1, <1>5 DEF RInv, Fresh
      <4> QED BY <4>1, <4>2
    <3>3. One(entry) /\ AdmittedOf(Only(entry), Loaded)
      BY <3>2, OnlyOne DEF One
    <3>4. Only(job'.m) = Loaded /\ models' = models
      BY <1>1, <2>1 DEF Loaded
    <3> QED BY <1>3, <2>1, <3>1, <3>3, <3>4 DEF Bindings, Loaded, WasThere, AdmittedOf
  <2>6. Claims'
    <3>1. job.tokens \/ \E r \in job.claim : r.identity = Identity(Loaded)
      BY <1>5 DEF validate_candidate_identities
    <3>2. job.tokens \/ \E r \in job.claim : r.surfaces = Surfaces
      BY <1>1, Ranks DEF RInv, Claims, Reached
    <3>3. ~Reached("candidate")'
      BY <2>1, Ranks DEF Reached
    <3> QED BY <2>1, <3>1, <3>2, <3>3 DEF Claims, Loaded
  <2>7. Admitted' /\ Approvals' /\ Filled' /\ Stage'
    BY <2>1, Ranks DEF Admitted, Approvals, Filled, Stage, Reached
  <2>8. Runtime'
    BY <1>1, <1>3, <2>1, Ranks DEF Runtime, Reached
  <2> QED BY <2>2, <2>3, <2>4, <2>5, <2>6, <2>7, <2>8 DEF RInv
<1> QED BY <1>1, <1>4, <1>5

-----------------------------------------------------------------------------
(* The runtime is packed, described and approved. *)

LEMMA CandidateStays ==
  ASSUME Claims, Bindings, job.pc \in Pcs, Reached("pack"), job'.pc \in Pcs, models' = models,
         out'.sidecar = out.sidecar, out'.admission = out.admission, job'.claim = job.claim,
         job'.tokens = job.tokens, job'.m = job.m, Reached("candidate")' => Reached("candidate")
  PROVE  Claims' /\ Bindings'
<1>1. Reached("load") /\ Reached("review") /\ Reached("artifact")
  BY Ranks DEF Reached
<1>2. Claims'
  BY <1>1 DEF Claims, Loaded
<1>3. \A e, m : AdmittedOf(e, m)' <=> AdmittedOf(e, m)
  BY DEF AdmittedOf
<1>4. Bindings'
  BY <1>1, <1>3 DEF Bindings, WasThere, Loaded
<1> QED BY <1>2, <1>4

LEMMA RuntimeStays ==
  ASSUME Runtime, job.pc \in Pcs, Reached("upload"), job'.pc \in Pcs \ {"input", "collect"},
         out'.rsha = out.rsha, out'.prefix = out.prefix, out'.rinv = out.rinv,
         out'.qualified = out.qualified, job'.place = job.place, blind \subseteq blind',
         Reached("entries")' => Reached("entries"),
         job'.pc = "evaluate" /\ "prefix" \notin blind' =>
           runtime_content_identity(Prefix) = Only(out.rinv).content
  PROVE  Runtime'
<1>1. Reached("input")
  BY Ranks DEF Reached
<1>2. \A b, x : CameFrom(b, x)' <=> CameFrom(b, x)
  BY DEF CameFrom
<1>3. \A b : Content(b)' = Content(b)
  BY DEF Content
<1>4. SolvedBuild' = SolvedBuild /\ Prefix' = Prefix
  BY DEF SolvedBuild, Prefix
<1> QED BY <1>1, <1>2, <1>3, <1>4 DEF Runtime

LEMMA PackSound ==
  ASSUME RInv, Watch, Pack
  PROVE  RInv'
<1>1. PICK x :
        /\ x = [build |-> x.build, at |-> x.at, mentions |-> x.mentions, caches |-> x.caches]
        /\ x.build = index /\ x.at = job.place /\ x.mentions = job.place
        /\ out' = [out EXCEPT !.rarchive = {index}, !.rsha = {index}, !.prefix = {x}]
        /\ job' = [job EXCEPT !.pc = "input"]
        /\ job.pc = "pack" /\ UNCHANGED << models, legal, index, blind, inputs >>
  <2>0. PICK x : x = [Unpacked(index, job.place) EXCEPT !.caches = TRUE]
    OBVIOUS
  <2>1. /\ x = [build |-> x.build, at |-> x.at, mentions |-> x.mentions, caches |-> x.caches]
        /\ x.build = index /\ x.at = job.place /\ x.mentions = job.place
    BY <2>0 DEF Unpacked
  <2>2. /\ out' = [out EXCEPT !.rarchive = {index}, !.rsha = {index}, !.prefix = {x}]
        /\ job' = [job EXCEPT !.pc = "input"]
        /\ job.pc = "pack" /\ UNCHANGED << models, legal, index, blind, inputs >>
    BY <2>0 DEF Pack, Proceed, At, Quiet, Alone
  <2> QED BY <2>1, <2>2
<1>2. ~Reached("inventory") /\ job.pc # "idle" /\ Reached("pack") /\ ~Reached("input")
  BY <1>1, Ranks DEF Reached
<1>3. /\ InputsShaped' /\ OutShaped' /\ out'.sidecar = out.sidecar /\ out'.prefix = {x}
      /\ out'.archive = out.archive /\ out'.stage = out.stage
      /\ out'.checksum = out.checksum /\ out'.rinv = out.rinv
      /\ out'.admission = out.admission /\ out'.rsha = {index}
  BY <1>1 DEF RInv, Shaped, InputsShaped, OutShaped
<1>4. /\ JobShaped' /\ job'.pc = "input" /\ job'.claim = job.claim
      /\ job'.tokens = job.tokens /\ job'.m = job.m /\ job'.place = job.place
  BY <1>1, Moves, AllPcs DEF RInv
<1>5. Shaped'
  BY <1>1, <1>3, <1>4, AllPcs DEF RInv, Shaped, LegalShaped
<1>6. Shipped' /\ Closed' /\ out'.archive = {} /\ out'.checksum = {}
  BY <1>2, <1>3, <1>4, Ranks, AllPcs, Unpacked0 DEF Reached
<1>7. Fresh'
  BY <1>1, <1>2, <1>3, <1>4, <1>6, Ranks, AllPcs, FreshStays DEF RInv, Shaped
<1>8. Claims' /\ Bindings'
  BY <1>1, <1>2, <1>3, <1>4, Ranks, AllPcs, CandidateStays DEF RInv, Reached
<1>9. Admitted' /\ Approvals' /\ Filled' /\ Stage'
  BY <1>4, Ranks DEF Admitted, Approvals, Filled, Stage, Reached
<1>10. Runtime'
  <2>1. /\ One(out'.rsha) /\ Only(out'.rsha) = index /\ index \in Builds
        /\ One(out'.prefix) /\ Only(out'.prefix) = x
    BY <1>3, OnlyOne DEF One, RInv, Shaped
  <2>2. PICK b \in Builds : b = index
    BY <2>1
  <2>3. CameFrom(b, x)'
    <3>1. /\ x.build = [conda |-> x.build.conda, dists |-> x.build.dists, ort |-> x.build.ort,
                        bridge |-> x.build.bridge, rest |-> x.build.rest]
          /\ \A v, w \in x.build.dists : Id(v) = Id(w) => v = w
          /\ x.build = b
      BY <1>1, <2>2, BuildsAssumption
    <3> QED BY <1>1, <1>4, <3>1 DEF CameFrom
  <2>4. out'.rinv = {}
    BY <1>2, <1>3 DEF RInv, Fresh
  <2>5. SolvedBuild' = b /\ Prefix' = x
    BY <2>1, <2>2 DEF SolvedBuild, Prefix
  <2>6. /\ ~Reached("upload")' /\ ~Reached("entries")'
        /\ job'.pc # "collect" /\ job'.pc # "evaluate"
    BY <1>4, Ranks DEF Reached
  <2>7. CameFrom(SolvedBuild, Prefix)'
    BY <2>3, <2>5
  <2> QED BY <1>1, <1>4, <2>1, <2>2, <2>4, <2>5, <2>6, <2>7 DEF Runtime
<1> QED BY <1>5, <1>6, <1>7, <1>8, <1>9, <1>10 DEF RInv

(* The packages of a prefix can be told apart by source, name and version. *)
LEMMA PackagesOf ==
  ASSUME NEW b \in Builds, NEW x, CameFrom(b, x)
  PROVE  Packages(b, Installed(x))
<1>1. /\ x.build.conda = b.conda /\ x.build.dists \subseteq b.dists \cup Patches
      /\ \A v, w \in x.build.dists : Id(v) = Id(w) => v = w
  BY DEF CameFrom
<1>2. \A w \in Wheels(x) : w \in x.build.dists /\ w \notin b.conda
  BY <1>1 DEF Wheels
<1>3. \A w \in Wheels(x) : w.source = "pip"
  BY <1>1, <1>2, BuildsAssumption, WheelsAssumption
<1>4. \A p \in b.conda : p.source = "conda"
  BY BuildsAssumption
<1>5. \A p, q \in Installed(x) : Id(p) = Id(q) => p = q
  <2> SUFFICES ASSUME NEW p \in Installed(x), NEW q \in Installed(x), Id(p) = Id(q)
               PROVE  p = q
    OBVIOUS
  <2>1. p.source = q.source
    BY DEF Id
  <2>2. CASE p \in b.conda /\ q \in b.conda
    BY <2>2, BuildsAssumption
  <2>3. CASE p \in Wheels(x) /\ q \in Wheels(x)
    BY <1>1, <1>2, <2>3
  <2> QED BY <1>1, <1>3, <1>4, <2>1, <2>2, <2>3 DEF Installed
<1>6. Installed(x) = b.conda \cup Wheels(x)
  BY <1>1 DEF Installed
<1>7. Wheels(x) \subseteq (UNION { c.dists : c \in Builds }) \cup Patches
  BY <1>1, <1>2
<1> QED BY <1>3, <1>5, <1>6, <1>7 DEF Packages

LEMMA SameBuild ==
  ASSUME NEW b, NEW x, x.build = b
  PROVE  Installed(x) = Installed(Unpacked(b, 0))
<1>1. Unpacked(b, 0).build = b
  BY DEF Unpacked
<1> QED BY <1>1 DEF Installed, Wheels

LEMMA GenerateInputSound ==
  ASSUME RInv, Watch, GenerateInput
  PROVE  RInv'
<1>1. PICK document :
        /\ document = generate_runtime_input(Prefix, SolvedLock, legal.supplement)
        /\ out' = [out EXCEPT !.rinput = document]
        /\ \/ job' = [job EXCEPT !.pc = "idle"]
           \/ job' = [job EXCEPT !.pc = "collect"] /\ document # {}
        /\ job.pc = "input" /\ UNCHANGED << models, legal, index, blind, inputs >>
  <2> DEFINE document == generate_runtime_input(Prefix, SolvedLock, legal.supplement)
  <2>1. /\ out' = [out EXCEPT !.rinput = document]
        /\ job' = [job EXCEPT !.pc = IF document # {} THEN "collect" ELSE "idle"]
        /\ job.pc = "input" /\ UNCHANGED << models, legal, index, blind, inputs >>
    BY DEF GenerateInput, Proceed, At, Quiet, Alone
  <2> HIDE DEF document
  <2> QED BY <2>1 DEF document
<1>2. ~Reached("inventory") /\ job.pc # "idle" /\ Reached("pack") /\ Reached("input")
  BY <1>1, Ranks DEF Reached
<1>3. /\ InputsShaped' /\ OutShaped' /\ out'.sidecar = out.sidecar /\ out'.prefix = out.prefix
      /\ out'.archive = out.archive /\ out'.stage = out.stage
      /\ out'.checksum = out.checksum /\ out'.rinv = out.rinv
      /\ out'.admission = out.admission /\ out'.rsha = out.rsha /\ out'.rinput = document
      /\ \A inv \in out'.rinv : Reads(inv)
  BY <1>1 DEF RInv, Shaped, InputsShaped, OutShaped, Runtime
<1>4. CASE job' = [job EXCEPT !.pc = "idle"]
  BY <1>1, <1>2, <1>3, <1>4, Refused
<1>5. CASE job' = [job EXCEPT !.pc = "collect"] /\ document # {}
  <2>1. /\ JobShaped' /\ job'.pc = "collect" /\ job'.claim = job.claim
        /\ job'.tokens = job.tokens /\ job'.m = job.m /\ job'.place = job.place
    BY <1>5, Moves, AllPcs DEF RInv
  <2>2. Shaped'
    BY <1>1, <1>3, <2>1, AllPcs DEF RInv, Shaped, LegalShaped
  <2>3. Shipped' /\ Closed' /\ out'.archive = {} /\ out'.checksum = {}
    BY <1>2, <1>3, <2>1, Ranks, AllPcs, Unpacked0 DEF Reached
  <2>4. Fresh'
    BY <1>1, <1>2, <1>3, <2>1, <2>3, Ranks, AllPcs, FreshStays DEF RInv, Shaped
  <2>5. Claims' /\ Bindings'
    BY <1>1, <1>2, <1>3, <2>1, Ranks, AllPcs, CandidateStays DEF RInv, Reached
  <2>6. Admitted' /\ Approvals' /\ Filled' /\ Stage'
    BY <2>1, Ranks DEF Admitted, Approvals, Filled, Stage, Reached
  <2>7. Runtime'
    <3>1. /\ One(out.rsha) /\ SolvedBuild \in Builds
          /\ One(out.prefix) /\ CameFrom(SolvedBuild, Prefix)
          /\ "prefix" \notin blind => Prefix.build = SolvedBuild
      BY <1>1, <1>2 DEF RInv, Runtime
    <3>2. PICK input : /\ document = {input}
                       /\ input.declared = { Declaration(p, legal.supplement) :
                                               p \in Installed(Prefix) }
      <4>1. PICK declared : declared = { Declaration(p, legal.supplement) :
                                          p \in Installed(Prefix) }
        OBVIOUS
      <4>2. PICK input : input = [lock |-> SolvedLock, declared |-> declared,
                                  components |-> Components(Prefix)]
        OBVIOUS
      <4>3. document = {input}
        BY <1>1, <1>5, <4>1, <4>2 DEF generate_runtime_input
      <4>4. input.declared = declared
        BY <4>2
      <4> QED BY <4>1, <4>3, <4>4
    <3>3. Packages(SolvedBuild, Installed(Prefix))
      BY <3>1, PackagesOf
    <3>4. "prefix" \notin blind => Installed(Prefix) = Installed(Unpacked(SolvedBuild, 0))
      BY <3>1, SameBuild
    <3>5. Declares(SolvedBuild, input)
      BY <3>2, <3>3, <3>4 DEF Declares
    <3>6. One(out'.rinput) /\ Only(out'.rinput) = input
      BY <1>3, <3>2, OnlyOne DEF One
    <3>7. \A b, d : Declares(b, d)' <=> Declares(b, d)
      BY <1>1 DEF Declares
    <3>8. \A b, d : CameFrom(b, d)' <=> CameFrom(b, d)
      BY <2>1 DEF CameFrom
    <3>9. SolvedBuild' = SolvedBuild /\ Prefix' = Prefix
      BY <1>3 DEF SolvedBuild, Prefix
    <3> QED BY <1>1, <1>3, <2>1, <3>1, <3>5, <3>6, <3>7, <3>8, <3>9, Ranks DEF Runtime, Reached
  <2> QED BY <2>2, <2>3, <2>4, <2>5, <2>6, <2>7 DEF RInv
<1> QED BY <1>1, <1>4, <1>5

Declared(D, s) == { Declaration(p, s) : p \in D }

(* The text of a package is that of the package of its name which was declared. *)
TextIn(input, id) == (CHOOSE d \in input.declared : d.id = id).text

LEMMA DeclaredText ==
  ASSUME NEW D, NEW s, NEW input, input.declared = Declared(D, s),
         NEW id, \E d \in input.declared : d.id = id
  PROVE  \E q \in D : Id(q) = id /\ TextIn(input, id) = TextOf(q, s)
<1>1. PICK d : d = CHOOSE e \in input.declared : e.id = id
  OBVIOUS
<1>2. d \in input.declared /\ d.id = id
  BY <1>1
<1>3. PICK q \in D : d = Declaration(q, s)
  BY <1>2 DEF Declared
<1>4. Id(q) = id /\ d.text = TextOf(q, s)
  BY <1>2, <1>3 DEF Declaration
<1> QED BY <1>1, <1>4 DEF TextIn

LEMMA DeclaredWheel ==
  ASSUME NEW D, NEW s, NEW input, input.declared = Declared(D, s),
         NEW w, w.source = "pip",
         \E d \in input.declared : d.id = Id(w) /\ d.metadata = w.metadata
  PROVE  \E q \in D : Id(q) = Id(w) /\ q.metadata = w.metadata
<1>1. PICK d \in input.declared : d.id = Id(w) /\ d.metadata = w.metadata
  OBVIOUS
<1>2. PICK q \in D : d = Declaration(q, s)
  BY <1>1 DEF Declared
<1>3. Id(q) = Id(w)
  BY <1>1, <1>2 DEF Declaration
<1>4. q.source = "pip"
  BY <1>3 DEF Id
<1>5. d.metadata = q.metadata
  BY <1>2, <1>4 DEF Declaration
<1> QED BY <1>1, <1>3, <1>5

(* What an installed package is recorded as is one reading of one package: a package of
   conda is bound by the lock, a wheel by its record. *)
LEMMA OneReading ==
  ASSUME NEW b \in Builds, NEW x, CameFrom(b, x), NEW D, Packages(b, D), NEW s, NEW input,
         input.declared = Declared(D, s), Covers(input, x),
         NEW p \in Installed(x)
  PROVE  \E q \in D : /\ Id(q) = Id(p) /\ q.metadata = p.metadata /\ q.licence = p.licence
                      /\ TextIn(input, Id(p)) = TextOf(q, s)
<1>1. PICK q \in D : Id(q) = Id(p) /\ TextIn(input, Id(p)) = TextOf(q, s)
  <2>1. \E d \in input.declared : d.id = Id(p)
    <3>1. Id(p) \in { d.id : d \in input.declared }
      BY DEF Covers
    <3> QED BY <3>1
  <2> QED BY <2>1, DeclaredText
<1>2. q.source = p.source
  BY <1>1 DEF Id
<1>3. /\ x.build.conda = b.conda
      /\ Installed(x) = b.conda \cup Wheels(x)
      /\ Packages(b, Installed(x))
  BY PackagesOf DEF CameFrom, Installed
<1>4. \A c \in b.conda : c.source = "conda"
  BY BuildsAssumption
<1>5. CASE p \in b.conda
  <2>1. q \in b.conda
    BY <1>2, <1>4, <1>5 DEF Packages
  <2>2. q = p
    BY <1>1, <1>5, <2>1, BuildsAssumption
  <2> QED BY <1>1, <2>2
<1>6. CASE p \notin b.conda
  <2>1. p \in Wheels(x) /\ p.source = "pip"
    BY <1>3, <1>6 DEF Packages
  <2>2. PICK v \in D : Id(v) = Id(p) /\ v.metadata = p.metadata
    <3>1. \E d \in input.declared : d.id = Id(p) /\ d.metadata = p.metadata
      BY <2>1 DEF Covers
    <3> QED BY <2>1, <3>1, DeclaredWheel
  <2>3. v = q
    BY <1>1, <2>2 DEF Packages
  <2>4. /\ q \in (UNION { c.dists : c \in Builds }) \cup Patches
        /\ p \in (UNION { c.dists : c \in Builds }) \cup Patches
    BY <1>2, <1>3, <1>4, <1>6, <2>1 DEF Packages
  <2>5. q.licence = p.licence
    BY <1>1, <1>2, <2>1, <2>2, <2>3, <2>4, WheelsAssumption
  <2> QED BY <1>1, <2>2, <2>3, <2>5
<1> QED BY <1>5, <1>6

Record(p, input) == [ id |-> Id(p), licence |-> p.licence, metadata |-> p.metadata,
                      text |-> TextIn(input, Id(p)) ]

(* The header over a text names every record of that text. *)
LEMMA Aggregated ==
  ASSUME NEW records, NEW r \in records
  PROVE  /\ r.text \in DOMAIN Aggregate(records)
         /\ r.id \in Aggregate(records)[r.text].packages
         /\ r.licence \in Aggregate(records)[r.text].licences
<1>1. PICK same : same = { q \in records : q.text = r.text }
  OBVIOUS
<1>2. PICK header : header = [ packages |-> { q.id : q \in same },
                               licences |-> { q.licence : q \in same } ]
  OBVIOUS
<1>3. r.text \in DOMAIN Aggregate(records) /\ Aggregate(records)[r.text] = header
  BY <1>1, <1>2 DEF Aggregate
<1>4. r \in same
  BY <1>1
<1>5. r.id \in header.packages /\ r.licence \in header.licences
  BY <1>2, <1>4
<1> QED BY <1>3, <1>5

LEMMA Collected ==
  ASSUME NEW x, NEW lock, NEW input, collect_runtime(x, lock, input) # {}
  PROVE  /\ Covers(input, x)
         /\ \E inv : /\ collect_runtime(x, lock, input) = {inv}
                     /\ inv.packages = { Record(p, input) : p \in Installed(x) }
                     /\ inv.content = runtime_content_identity(x)
                     /\ inv.texts = Aggregate({ Record(p, input) : p \in Installed(x) })
<1>1. PICK records : records = { Record(p, input) : p \in Installed(x) }
  OBVIOUS
<1>2. PICK inv : inv = [ lock |-> lock, packages |-> records, components |-> input.components,
                         content |-> runtime_content_identity(x),
                         texts |-> Aggregate(records) ]
  OBVIOUS
<1>3. Covers(input, x) /\ collect_runtime(x, lock, input) = {inv}
  BY <1>1, <1>2 DEF collect_runtime, Record, TextIn
<1>4. /\ inv.packages = records /\ inv.content = runtime_content_identity(x)
      /\ inv.texts = Aggregate(records)
  BY <1>2
<1> QED BY <1>1, <1>3, <1>4

LEMMA InventorySound ==
  ASSUME NEW b \in Builds, NEW x, CameFrom(b, x), NEW input, Declares(b, input),
         NEW inv, Covers(input, x),
         inv.packages = { Record(p, input) : p \in Installed(x) },
         inv.texts = Aggregate({ Record(p, input) : p \in Installed(x) })
  PROVE  /\ Reads(inv)
         /\ "prefix" \notin blind /\ x.build = b => Credits(b, inv)
<1>1. PICK D, s : /\ Packages(b, D)
                  /\ input.declared = Declared(D, s)
                  /\ "prefix" \notin blind => D = Installed(Unpacked(b, 0))
  BY DEF Declares, Declared
<1>2. D \subseteq Universe
  BY <1>1 DEF Packages, Universe
<1>3. \A q : TextOf(q, s) = q.text \/ q.text = NoText
  BY DEF TextOf
<1>4. \A p : /\ Record(p, input).id = Id(p) /\ Record(p, input).licence = p.licence
             /\ Record(p, input).metadata = p.metadata
             /\ Record(p, input).text = TextIn(input, Id(p))
  BY DEF Record
<1>5. Reads(inv)
  <2> SUFFICES ASSUME NEW p \in Installed(x)
               PROVE  \E q \in Universe :
                        /\ Id(q) = Id(p) /\ q.metadata = p.metadata /\ q.licence = p.licence
                        /\ q.text = NoText \/ q.text = TextIn(input, Id(p))
    BY <1>4 DEF Reads
  <2> QED BY <1>1, <1>2, <1>3, OneReading
<1>6. ASSUME "prefix" \notin blind, x.build = b
      PROVE  Credits(b, inv)
  <2> SUFFICES ASSUME NEW p \in Installed(Unpacked(b, 0))
               PROVE  \E t \in DOMAIN inv.texts :
                        /\ Id(p) \in inv.texts[t].packages /\ p.licence \in inv.texts[t].licences
                        /\ p.text = NoText \/ t = p.text
    BY DEF Credits
  <2>1. p \in Installed(x) /\ p \in D
    BY <1>1, <1>6, SameBuild
  <2>2. PICK q \in D : Id(q) = Id(p) /\ TextIn(input, Id(p)) = TextOf(q, s)
    BY <1>1, <2>1, OneReading
  <2>3. q = p
    BY <1>1, <2>1, <2>2 DEF Packages
  <2>4. /\ TextIn(input, Id(p)) \in DOMAIN inv.texts
        /\ Id(p) \in inv.texts[TextIn(input, Id(p))].packages
        /\ p.licence \in inv.texts[TextIn(input, Id(p))].licences
    <3>1. PICK r : r = Record(p, input)
      OBVIOUS
    <3>2. r \in { Record(v, input) : v \in Installed(x) }
      BY <2>1, <3>1
    <3> QED BY <1>4, <3>1, <3>2, Aggregated
  <2> QED BY <1>3, <2>2, <2>3, <2>4
<1> QED BY <1>5, <1>6

LEMMA SameContent ==
  ASSUME NEW b, NEW c, NEW x, CameFrom(c, x), x.build = b
  PROVE  runtime_content_identity(x) = Content(b)
<1>1. /\ Unpacked(b, job.place).build = b /\ Unpacked(b, job.place).at = job.place
      /\ Unpacked(b, job.place).mentions = job.place
  BY DEF Unpacked
<1>2. x.at = job.place /\ x.mentions = job.place
  BY DEF CameFrom
<1> QED BY <1>1, <1>2 DEF Content, runtime_content_identity

LEMMA CollectSound ==
  ASSUME RInv, Watch, Collect
  PROVE  RInv'
<1>1. PICK document :
        /\ document = collect_runtime(Prefix, SolvedLock, Only(out.rinput))
        /\ out' = [out EXCEPT !.rinv = document]
        /\ \/ job' = [job EXCEPT !.pc = "idle"] /\ document = {}
           \/ job' = [job EXCEPT !.pc = "upload"] /\ document # {}
        /\ job.pc = "collect" /\ UNCHANGED << models, legal, index, blind, inputs >>
  <2> DEFINE document == collect_runtime(Prefix, SolvedLock, Only(out.rinput))
  <2>1. /\ out' = [out EXCEPT !.rinv = document]
        /\ job' = [job EXCEPT !.pc = IF document # {} THEN "upload" ELSE "idle"]
        /\ job.pc = "collect" /\ UNCHANGED << models, legal, index, blind, inputs >>
    BY DEF Collect, Proceed, At, Quiet, Alone
  <2> HIDE DEF document
  <2> QED BY <2>1 DEF document
<1>2. ~Reached("inventory") /\ job.pc # "idle" /\ Reached("pack") /\ Reached("input")
  BY <1>1, Ranks DEF Reached
<1>3. /\ InputsShaped' /\ OutShaped' /\ out'.sidecar = out.sidecar /\ out'.prefix = out.prefix
      /\ out'.archive = out.archive /\ out'.stage = out.stage
      /\ out'.checksum = out.checksum /\ out'.rinv = document
      /\ out'.admission = out.admission /\ out'.rsha = out.rsha
  BY <1>1 DEF RInv, Shaped, InputsShaped, OutShaped
<1>4. CASE job' = [job EXCEPT !.pc = "idle"] /\ document = {}
  BY <1>1, <1>2, <1>3, <1>4, Refused
<1>5. CASE job' = [job EXCEPT !.pc = "upload"] /\ document # {}
  <2>1. /\ JobShaped' /\ job'.pc = "upload" /\ job'.claim = job.claim
        /\ job'.tokens = job.tokens /\ job'.m = job.m /\ job'.place = job.place
    BY <1>5, Moves, AllPcs DEF RInv
  <2>2. Shaped'
    BY <1>1, <1>3, <2>1, AllPcs DEF RInv, Shaped, LegalShaped
  <2>3. Shipped' /\ Closed' /\ out'.archive = {} /\ out'.checksum = {}
    BY <1>2, <1>3, <2>1, Ranks, AllPcs, Unpacked0 DEF Reached
  <2>4. Fresh'
    BY <1>1, <1>2, <1>3, <2>1, <2>3, Ranks, AllPcs, FreshStays DEF RInv, Shaped
  <2>5. Claims' /\ Bindings'
    BY <1>1, <1>2, <1>3, <2>1, Ranks, AllPcs, CandidateStays DEF RInv, Reached, Shaped
  <2>6. Admitted' /\ Approvals' /\ Filled' /\ Stage'
    BY <2>1, Ranks DEF Admitted, Approvals, Filled, Stage, Reached
  <2>7. Runtime'
    <3>1. /\ One(out.rsha) /\ SolvedBuild \in Builds
          /\ One(out.prefix) /\ CameFrom(SolvedBuild, Prefix)
          /\ Declares(SolvedBuild, Only(out.rinput))
          /\ "prefix" \notin blind => Prefix.build = SolvedBuild
      BY <1>1, <1>2 DEF RInv, Runtime
    <3>2. PICK inv :
            /\ document = {inv} /\ Covers(Only(out.rinput), Prefix)
            /\ inv.packages = { Record(p, Only(out.rinput)) : p \in Installed(Prefix) }
            /\ inv.content = runtime_content_identity(Prefix)
            /\ inv.texts = Aggregate({ Record(p, Only(out.rinput)) : p \in Installed(Prefix) })
      BY <1>1, <1>5, Collected
    <3>3. /\ Reads(inv)
          /\ "prefix" \notin blind => /\ Credits(SolvedBuild, inv)
                                      /\ inv.content = Content(SolvedBuild)
      BY <3>1, <3>2, InventorySound, SameContent
    <3>4. One(out'.rinv) /\ Only(out'.rinv) = inv
      BY <1>3, <3>2, OnlyOne DEF One
    <3>5. \A b, d : CameFrom(b, d)' <=> CameFrom(b, d)
      BY <2>1 DEF CameFrom
    <3>6. \A b : Content(b)' = Content(b)
      BY <2>1 DEF Content
    <3>7. SolvedBuild' = SolvedBuild /\ Prefix' = Prefix
      BY <1>3 DEF SolvedBuild, Prefix
    <3> QED BY <1>1, <1>3, <2>1, <3>1, <3>2, <3>3, <3>4, <3>5, <3>6, <3>7, Ranks
            DEF Runtime, Reached
  <2> QED BY <2>2, <2>3, <2>4, <2>5, <2>6, <2>7 DEF RInv
<1> QED BY <1>1, <1>4, <1>5

LEMMA UploadSound ==
  ASSUME RInv, Watch, Upload
  PROVE  RInv'
<1>1. /\ job' = [job EXCEPT !.pc = "gate"]
      /\ job.pc = "upload" /\ UNCHANGED << models, legal, index, blind, inputs, out >>
  BY DEF Upload, Proceed, At, Alone
<1>2. ~Reached("inventory") /\ job.pc # "idle" /\ Reached("pack") /\ Reached("upload")
  BY <1>1, Ranks DEF Reached
<1>3. /\ JobShaped' /\ job'.pc = "gate" /\ job'.claim = job.claim
      /\ job'.tokens = job.tokens /\ job'.m = job.m /\ job'.place = job.place
  BY <1>1, Moves, AllPcs DEF RInv
<1>4. Shaped'
  BY <1>1, <1>3, AllPcs DEF RInv, Shaped, LegalShaped, InputsShaped, OutShaped
<1>5. Shipped' /\ Closed' /\ out'.archive = {} /\ out'.checksum = {}
  BY <1>1, <1>2, <1>3, Ranks, AllPcs, Unpacked0 DEF Reached
<1>6. Fresh'
  BY <1>1, <1>2, <1>3, <1>5, Ranks, AllPcs, FreshStays DEF RInv, Shaped
<1>7. Claims' /\ Bindings'
  BY <1>1, <1>2, <1>3, Ranks, AllPcs, CandidateStays DEF RInv, Reached, Shaped
<1>8. Admitted' /\ Approvals' /\ Filled' /\ Stage'
  BY <1>3, Ranks DEF Admitted, Approvals, Filled, Stage, Reached
<1>9. Runtime'
  BY <1>1, <1>2, <1>3, Ranks, AllPcs, RuntimeStays DEF RInv, Reached, Shaped
<1> QED BY <1>4, <1>5, <1>6, <1>7, <1>8, <1>9 DEF RInv

LEMMA GateSound ==
  ASSUME RInv, Watch, Gate
  PROVE  RInv'
<1>1. /\ \/ job' = [job EXCEPT !.pc = "idle"]
         \/ job' = [job EXCEPT !.pc = "content"] /\ Approved
      /\ job.pc = "gate" /\ UNCHANGED << models, legal, index, blind, inputs, out >>
  BY DEF Gate, Proceed, At, Quiet, Alone
<1>2. ~Reached("inventory") /\ job.pc # "idle" /\ Reached("pack") /\ Reached("upload")
  BY <1>1, Ranks DEF Reached
<1>3. InputsShaped' /\ OutShaped' /\ out' = out /\ \A inv \in out'.rinv : Reads(inv)
  BY <1>1 DEF RInv, Shaped, InputsShaped, OutShaped, Runtime
<1>4. CASE job' = [job EXCEPT !.pc = "idle"]
  BY <1>1, <1>2, <1>3, <1>4, Refused
<1>5. CASE job' = [job EXCEPT !.pc = "content"] /\ Approved
  <2>1. /\ JobShaped' /\ job'.pc = "content" /\ job'.claim = job.claim
        /\ job'.tokens = job.tokens /\ job'.m = job.m /\ job'.place = job.place
    BY <1>5, Moves, AllPcs DEF RInv
  <2>2. Shaped'
    BY <1>1, <1>3, <2>1, AllPcs DEF RInv, Shaped, LegalShaped
  <2>3. Shipped' /\ Closed' /\ out'.archive = {} /\ out'.checksum = {}
    BY <1>2, <1>3, <2>1, Ranks, AllPcs, Unpacked0 DEF Reached
  <2>4. Fresh'
    BY <1>1, <1>2, <1>3, <2>1, <2>3, Ranks, AllPcs, FreshStays DEF RInv, Shaped
  <2>5. Claims' /\ Bindings'
    BY <1>1, <1>2, <1>3, <2>1, Ranks, AllPcs, CandidateStays DEF RInv, Reached, Shaped
  <2>6. Admitted' /\ Filled' /\ Stage'
    BY <2>1, Ranks DEF Admitted, Filled, Stage, Reached
  <2>7. Runtime'
    BY <1>1, <1>2, <2>1, Ranks, AllPcs, RuntimeStays DEF RInv, Reached, Shaped
  <2>8. \A a \in legal.approval : a.reviewed /\ out.rinv = {a.inventory}
    <3>1. PICK r \in legal.approval : r.reviewed /\ r.inventory = Only(out.rinv)
      BY <1>5 DEF Approved, validate_runtime_review
    <3>2. \A a \in legal.approval : a = r
      BY DEF RInv, Shaped, LegalShaped
    <3>3. out.rinv = {Only(out.rinv)}
      BY <1>2, OneOnly DEF RInv, Runtime
    <3> QED BY <3>1, <3>2, <3>3
  <2>9. Approvals'
    BY <1>1, <2>8 DEF Approvals
  <2> QED BY <2>2, <2>3, <2>4, <2>5, <2>6, <2>7, <2>9 DEF RInv
<1> QED BY <1>1, <1>4, <1>5

LEMMA VerifyContentSound ==
  ASSUME RInv, Watch, VerifyContent
  PROVE  RInv'
<1>1. /\ \/ job' = [job EXCEPT !.pc = "idle"]
         \/ job' = [job EXCEPT !.pc = "boundary"]
      /\ job.pc = "content" /\ UNCHANGED << models, legal, index, blind, inputs, out >>
  BY DEF VerifyContent, Proceed, At, Quiet, Alone
<1>2. ~Reached("inventory") /\ job.pc # "idle" /\ Reached("pack") /\ Reached("upload")
  BY <1>1, Ranks DEF Reached
<1>3. InputsShaped' /\ OutShaped' /\ out' = out /\ \A inv \in out'.rinv : Reads(inv)
  BY <1>1 DEF RInv, Shaped, InputsShaped, OutShaped, Runtime
<1>4. CASE job' = [job EXCEPT !.pc = "idle"]
  BY <1>1, <1>2, <1>3, <1>4, Refused
<1>5. CASE job' = [job EXCEPT !.pc = "boundary"]
  <2>1. /\ JobShaped' /\ job'.pc = "boundary" /\ job'.claim = job.claim
        /\ job'.tokens = job.tokens /\ job'.m = job.m /\ job'.place = job.place
    BY <1>5, Moves, AllPcs DEF RInv
  <2>2. Shaped'
    BY <1>1, <1>3, <2>1, AllPcs DEF RInv, Shaped, LegalShaped
  <2>3. Shipped' /\ Closed' /\ out'.archive = {} /\ out'.checksum = {}
    BY <1>2, <1>3, <2>1, Ranks, AllPcs, Unpacked0 DEF Reached
  <2>4. Fresh'
    BY <1>1, <1>2, <1>3, <2>1, <2>3, Ranks, AllPcs, FreshStays DEF RInv, Shaped
  <2>5. Claims' /\ Bindings'
    BY <1>1, <1>2, <1>3, <2>1, Ranks, AllPcs, CandidateStays DEF RInv, Reached, Shaped
  <2>6. Admitted' /\ Filled' /\ Stage'
    BY <2>1, Ranks DEF Admitted, Filled, Stage, Reached
  <2>7. Runtime'
    BY <1>1, <1>2, <2>1, Ranks, AllPcs, RuntimeStays DEF RInv, Reached, Shaped
  <2>8. Approvals'
    BY <1>1, <2>1, Ranks DEF RInv, Approvals, Reached
  <2> QED BY <2>2, <2>3, <2>4, <2>5, <2>6, <2>7, <2>8 DEF RInv
<1> QED BY <1>1, <1>4, <1>5

-----------------------------------------------------------------------------
(* The second half of the run. *)

LEMMA ApprovalsStay ==
  ASSUME Approvals, job.pc \in Pcs, Reached("content"), legal' = legal, out'.rinv = out.rinv
  PROVE  Approvals'
BY DEF Approvals

LEMMA AdmittedStays ==
  ASSUME Admitted, Reached("again"), models' = models, blind \subseteq blind',
         out'.admission = out.admission, out'.candlic = out.candlic, job'.m = job.m,
         job'.pc \notin {"map", "metadata"},
         Reached("map")' => Reached("map") /\ inputs'.entries = inputs.entries,
         Reached("metadata")' => Reached("metadata") /\ inputs'.map = inputs.map
  PROVE  Admitted'
<1>1. Loaded' = Loaded
  BY DEF Loaded
<1> QED BY <1>1 DEF Admitted

LEMMA BoundarySound ==
  ASSUME RInv, Watch, Boundary
  PROVE  RInv'
<1>1. /\ \/ job' = [job EXCEPT !.pc = "idle"]
         \/ /\ job' = [job EXCEPT !.pc = "candidate"]
            /\ ~job.tokens /\ Only(out.admission).measurement = "measurable"
      /\ job.pc = "boundary" /\ UNCHANGED << models, legal, index, blind, inputs, out >>
  BY DEF Boundary, Proceed, At, Quiet, Alone
<1>2. /\ ~Reached("inventory") /\ job.pc # "idle" /\ Reached("pack") /\ Reached("upload")
      /\ Reached("content")
  BY <1>1, Ranks DEF Reached
<1>3. InputsShaped' /\ OutShaped' /\ out' = out /\ \A inv \in out'.rinv : Reads(inv)
  BY <1>1 DEF RInv, Shaped, InputsShaped, OutShaped, Runtime
<1>4. CASE job' = [job EXCEPT !.pc = "idle"]
  BY <1>1, <1>2, <1>3, <1>4, Refused
<1>5. CASE /\ job' = [job EXCEPT !.pc = "candidate"]
           /\ ~job.tokens /\ Only(out.admission).measurement = "measurable"
  <2>1. /\ JobShaped' /\ job'.pc = "candidate" /\ job'.claim = job.claim
        /\ job'.tokens = job.tokens /\ job'.m = job.m /\ job'.place = job.place
    BY <1>5, Moves, AllPcs DEF RInv
  <2>2. Shaped'
    BY <1>1, <1>3, <2>1, AllPcs DEF RInv, Shaped, LegalShaped
  <2>3. Shipped' /\ Closed' /\ out'.archive = {} /\ out'.checksum = {}
    BY <1>2, <1>3, <2>1, Ranks, AllPcs, Unpacked0 DEF Reached
  <2>4. Fresh'
    BY <1>1, <1>2, <1>3, <2>1, <2>3, Ranks, AllPcs, FreshStays DEF RInv, Shaped
  <2>5. Claims' /\ Bindings'
    <3>1. Reached("load") /\ Reached("review") /\ Reached("artifact")
      BY <1>1, Ranks DEF Reached
    <3>2. Loaded' = Loaded /\ out' = out /\ models' = models
      BY <1>1, <2>1 DEF Loaded
    <3>3. \A e, m : AdmittedOf(e, m)' <=> AdmittedOf(e, m)
      BY <3>2 DEF AdmittedOf
    <3> QED BY <1>2, <1>5, <2>1, <3>1, <3>2, <3>3 DEF RInv, Claims, Bindings, WasThere
  <2>6. Admitted' /\ Filled' /\ Stage'
    BY <2>1, Ranks DEF Admitted, Filled, Stage, Reached
  <2>7. Runtime'
    BY <1>1, <1>2, <2>1, Ranks, AllPcs, RuntimeStays DEF RInv, Reached, Shaped
  <2>8. Approvals'
    BY <1>1, <1>2, ApprovalsStay DEF RInv, Shaped
  <2> QED BY <2>2, <2>3, <2>4, <2>5, <2>6, <2>7, <2>8 DEF RInv
<1> QED BY <1>1, <1>4, <1>5

(* The declared terms were bound to the manifest of an edition before it was loaded, and
   are compared with one now: so no edition lies between. *)
LEMMA CollectCandidateSound ==
  ASSUME RInv, Watch, CollectCandidate
  PROVE  RInv'
<1>1. PICK evidence :
        /\ evidence = collect_candidate(Only(out.sidecar), models.manifest)
        /\ out' = [out EXCEPT !.candlic = evidence]
        /\ \/ job' = [job EXCEPT !.pc = "idle"]
           \/ job' = [job EXCEPT !.pc = "again"] /\ evidence # {}
        /\ job.pc = "candidate" /\ UNCHANGED << models, legal, index, blind, inputs >>
  <2> DEFINE evidence == collect_candidate(Only(out.sidecar), models.manifest)
  <2>1. /\ out' = [out EXCEPT !.candlic = evidence]
        /\ job' = [job EXCEPT !.pc = IF evidence # {} THEN "again" ELSE "idle"]
        /\ job.pc = "candidate" /\ UNCHANGED << models, legal, index, blind, inputs >>
    BY DEF CollectCandidate, Proceed, At, Quiet, Alone
  <2> HIDE DEF evidence
  <2> QED BY <2>1 DEF evidence
<1>2. /\ ~Reached("inventory") /\ job.pc # "idle" /\ Reached("pack") /\ Reached("upload")
      /\ Reached("content") /\ Reached("candidate")
  BY <1>1, Ranks DEF Reached
<1>3. /\ InputsShaped' /\ OutShaped' /\ out'.sidecar = out.sidecar /\ out'.prefix = out.prefix
      /\ out'.archive = out.archive /\ out'.stage = out.stage
      /\ out'.checksum = out.checksum /\ out'.rinv = out.rinv
      /\ out'.admission = out.admission /\ out'.rsha = out.rsha /\ out'.candlic = evidence
      /\ out'.qualified = out.qualified /\ \A inv \in out'.rinv : Reads(inv)
  BY <1>1 DEF RInv, Shaped, InputsShaped, OutShaped, Runtime
<1>4. CASE job' = [job EXCEPT !.pc = "idle"]
  BY <1>1, <1>2, <1>3, <1>4, Refused
<1>5. CASE job' = [job EXCEPT !.pc = "again"] /\ evidence # {}
  <2>1. /\ JobShaped' /\ job'.pc = "again" /\ job'.claim = job.claim
        /\ job'.tokens = job.tokens /\ job'.m = job.m /\ job'.place = job.place
    BY <1>5, Moves, AllPcs DEF RInv
  <2>2. Shaped'
    BY <1>1, <1>3, <2>1, AllPcs DEF RInv, Shaped, LegalShaped
  <2>3. Shipped' /\ Closed' /\ out'.archive = {} /\ out'.checksum = {}
    BY <1>2, <1>3, <2>1, Ranks, AllPcs, Unpacked0 DEF Reached
  <2>4. Fresh'
    BY <1>1, <1>2, <1>3, <2>1, <2>3, Ranks, AllPcs, FreshStays DEF RInv, Shaped
  <2>5. Claims' /\ Bindings'
    BY <1>1, <1>2, <1>3, <2>1, Ranks, AllPcs, CandidateStays DEF RInv, Reached, Shaped
  <2>6. Admitted'
    <3>1. /\ Only(out.sidecar).manifest \in Nat /\ WasThere(Loaded)
          /\ Only(out.sidecar).manifest <= Loaded.edition
          /\ AdmittedOf(Only(out.admission), Loaded)
          /\ Only(out.admission).measurement = "measurable"
      BY <1>1, <1>2, Ranks DEF RInv, Bindings, Claims, Reached
    <3>2. /\ Only(out.sidecar).manifest = models.manifest.edition
          /\ evidence = EvidenceOf(models.manifest)
      BY <1>1, <1>5 DEF collect_candidate, EvidenceOf
    <3>3. models.manifest.edition \in Nat
      BY DEF RInv, Shaped
    <3>4. Loaded = models.manifest
      BY <3>1, <3>2, <3>3 DEF WasThere
    <3>5. Only(out.admission).manifest = Loaded.edition
      BY <3>1, <3>3, <3>4 DEF AdmittedOf
    <3>6. Loaded' = Loaded /\ models' = models
      BY <1>1, <2>1 DEF Loaded
    <3>7. ~Reached("map")' /\ ~Reached("metadata")'
      BY <2>1, Ranks DEF Reached
    <3> QED BY <1>3, <2>1, <3>2, <3>4, <3>5, <3>6, <3>7 DEF Admitted
  <2>7. Filled' /\ Stage'
    BY <2>1, Ranks DEF Filled, Stage, Reached
  <2>8. Runtime'
    BY <1>1, <1>2, <1>3, <2>1, Ranks, AllPcs, RuntimeStays DEF RInv, Reached, Shaped
  <2>9. Approvals'
    BY <1>1, <1>2, <1>3, ApprovalsStay DEF RInv, Shaped
  <2> QED BY <2>2, <2>3, <2>4, <2>5, <2>6, <2>7, <2>8, <2>9 DEF RInv
<1> QED BY <1>1, <1>4, <1>5

LEMMA CheckRuntimeAgainSound ==
  ASSUME RInv, Watch, CheckRuntimeAgain
  PROVE  RInv'
<1>1. /\ \/ job' = [job EXCEPT !.pc = "idle"]
         \/ /\ job' = [job EXCEPT !.pc = "evaluate"]
            /\ verify_runtime_content(Prefix, Only(out.rinv))
      /\ job.pc = "again" /\ UNCHANGED << models, legal, index, blind, inputs, out >>
  BY DEF CheckRuntimeAgain, Proceed, At, Quiet, Alone
<1>2. /\ ~Reached("inventory") /\ job.pc # "idle" /\ Reached("pack") /\ Reached("upload")
      /\ Reached("content") /\ Reached("candidate") /\ Reached("again")
  BY <1>1, Ranks DEF Reached
<1>3. InputsShaped' /\ OutShaped' /\ out' = out /\ \A inv \in out'.rinv : Reads(inv)
  BY <1>1 DEF RInv, Shaped, InputsShaped, OutShaped, Runtime
<1>4. CASE job' = [job EXCEPT !.pc = "idle"]
  BY <1>1, <1>2, <1>3, <1>4, Refused
<1>5. CASE /\ job' = [job EXCEPT !.pc = "evaluate"]
           /\ verify_runtime_content(Prefix, Only(out.rinv))
  <2>1. /\ JobShaped' /\ job'.pc = "evaluate" /\ job'.claim = job.claim
        /\ job'.tokens = job.tokens /\ job'.m = job.m /\ job'.place = job.place
    BY <1>5, Moves, AllPcs DEF RInv
  <2>2. Shaped'
    BY <1>1, <1>3, <2>1, AllPcs DEF RInv, Shaped, LegalShaped
  <2>3. Shipped' /\ Closed' /\ out'.archive = {} /\ out'.checksum = {}
    BY <1>2, <1>3, <2>1, Ranks, AllPcs, Unpacked0 DEF Reached
  <2>4. Fresh'
    BY <1>1, <1>2, <1>3, <2>1, <2>3, Ranks, AllPcs, FreshStays DEF RInv, Shaped
  <2>5. Claims' /\ Bindings'
    BY <1>1, <1>2, <1>3, <2>1, Ranks, AllPcs, CandidateStays DEF RInv, Reached, Shaped
  <2>6. Admitted'
    BY <1>1, <1>2, <2>1, Ranks, AdmittedStays DEF RInv, Reached
  <2>7. Filled' /\ Stage'
    BY <2>1, Ranks DEF Filled, Stage, Reached
  <2>8. Runtime'
    <3>1. runtime_content_identity(Prefix) = Only(out.rinv).content
      BY <1>5 DEF verify_runtime_content
    <3> QED BY <1>1, <1>2, <2>1, <3>1, Ranks, AllPcs, RuntimeStays DEF RInv, Reached, Shaped
  <2>9. Approvals'
    BY <1>1, <1>2, ApprovalsStay DEF RInv, Shaped
  <2> QED BY <2>2, <2>3, <2>4, <2>5, <2>6, <2>7, <2>8, <2>9 DEF RInv
<1> QED BY <1>1, <1>4, <1>5

LEMMA EvaluateSound ==
  ASSUME RInv, Watch, Evaluate
  PROVE  RInv'
<1>1. PICK content :
        /\ content = runtime_content_identity(Prefix)
        /\ out' = [out EXCEPT !.qualified = {content}]
        /\ \/ job' = [job EXCEPT !.pc = "idle"]
           \/ job' = [job EXCEPT !.pc = "entries"]
        /\ job.pc = "evaluate" /\ UNCHANGED << models, legal, index, blind, inputs >>
  BY DEF Evaluate, Proceed, At, Quiet, Alone
<1>2. /\ ~Reached("inventory") /\ job.pc # "idle" /\ Reached("pack") /\ Reached("upload")
      /\ Reached("content") /\ Reached("candidate") /\ Reached("again") /\ Reached("input")
  BY <1>1, Ranks DEF Reached
<1>3. /\ InputsShaped' /\ OutShaped' /\ out'.sidecar = out.sidecar /\ out'.prefix = out.prefix
      /\ out'.archive = out.archive /\ out'.stage = out.stage
      /\ out'.checksum = out.checksum /\ out'.rinv = out.rinv
      /\ out'.admission = out.admission /\ out'.rsha = out.rsha /\ out'.candlic = out.candlic
      /\ out'.qualified = {content} /\ \A inv \in out'.rinv : Reads(inv)
  BY <1>1 DEF RInv, Shaped, InputsShaped, OutShaped, Runtime
<1>4. CASE job' = [job EXCEPT !.pc = "idle"]
  BY <1>1, <1>2, <1>3, <1>4, Refused
<1>5. CASE job' = [job EXCEPT !.pc = "entries"]
  <2>1. /\ JobShaped' /\ job'.pc = "entries" /\ job'.claim = job.claim
        /\ job'.tokens = job.tokens /\ job'.m = job.m /\ job'.place = job.place
    BY <1>5, Moves, AllPcs DEF RInv
  <2>2. Shaped'
    BY <1>1, <1>3, <2>1, AllPcs DEF RInv, Shaped, LegalShaped
  <2>3. Shipped' /\ Closed' /\ out'.archive = {} /\ out'.checksum = {}
    BY <1>2, <1>3, <2>1, Ranks, AllPcs, Unpacked0 DEF Reached
  <2>4. Fresh'
    BY <1>1, <1>2, <1>3, <2>1, <2>3, Ranks, AllPcs, FreshStays DEF RInv, Shaped
  <2>5. Claims' /\ Bindings'
    BY <1>1, <1>2, <1>3, <2>1, Ranks, AllPcs, CandidateStays DEF RInv, Reached, Shaped
  <2>6. Admitted'
    BY <1>1, <1>2, <1>3, <2>1, Ranks, AdmittedStays DEF RInv, Reached
  <2>7. Filled' /\ Stage'
    BY <2>1, Ranks DEF Filled, Stage, Reached
  <2>8. Runtime'
    <3>1. \A b, d : CameFrom(b, d)' <=> CameFrom(b, d)
      BY <2>1 DEF CameFrom
    <3>2. \A b : Content(b)' = Content(b)
      BY <2>1 DEF Content
    <3>3. SolvedBuild' = SolvedBuild /\ Prefix' = Prefix
      BY <1>3 DEF SolvedBuild, Prefix
    <3>4. "prefix" \notin blind => out'.qualified = {Only(out.rinv).content}
      BY <1>1, <1>3 DEF RInv, Runtime
    <3> QED BY <1>1, <1>2, <1>3, <2>1, <3>1, <3>2, <3>3, <3>4, Ranks
            DEF RInv, Runtime, Reached
  <2>9. Approvals'
    BY <1>1, <1>2, <1>3, ApprovalsStay DEF RInv, Shaped
  <2> QED BY <2>2, <2>3, <2>4, <2>5, <2>6, <2>7, <2>8, <2>9 DEF RInv
<1> QED BY <1>1, <1>4, <1>5

-----------------------------------------------------------------------------
(* The inputs are filled. *)

LEMMA MaterializeEntriesSound ==
  ASSUME RInv, Watch, MaterializeEntries
  PROVE  RInv'
<1>1. PICK entries, map, metadata, filled :
        /\ entries = materialize_candidate_entries(inputs.entries, models.manifest,
                                                   models.manifest)
        /\ map = materialize_artifact_map(inputs.map, models.manifest)
        /\ metadata = materialize_report_metadata(inputs.metadata, Only(out.rsha))
        /\ out' = [out EXCEPT !.filled = filled]
        /\ \/ job' = [job EXCEPT !.pc = "idle"] /\ inputs' = inputs
           \/ /\ job' = [job EXCEPT !.pc = "map"]
              /\ inputs' = [inputs EXCEPT !.entries = entries]
              /\ filled = {[map |-> map, metadata |-> metadata]}
              /\ entries # {} /\ map # {} /\ metadata # {}
        /\ job.pc = "entries" /\ UNCHANGED << models, legal, index, blind >>
  <2> DEFINE entries  == materialize_candidate_entries(inputs.entries, models.manifest,
                                                       models.manifest)
             map      == materialize_artifact_map(inputs.map, models.manifest)
             metadata == materialize_report_metadata(inputs.metadata, Only(out.rsha))
             ok       == entries # {} /\ map # {} /\ metadata # {}
             filled   == IF ok THEN {[map |-> map, metadata |-> metadata]} ELSE {}
  <2>1. /\ out' = [out EXCEPT !.filled = filled]
        /\ job' = [job EXCEPT !.pc = IF ok THEN "map" ELSE "idle"]
        /\ inputs' = IF ok THEN [inputs EXCEPT !.entries = entries] ELSE inputs
        /\ job.pc = "entries" /\ UNCHANGED << models, legal, index, blind >>
    BY DEF MaterializeEntries, Proceed, At, Alone
  <2>2. ok => filled = {[map |-> map, metadata |-> metadata]}
    OBVIOUS
  <2> HIDE DEF filled, entries, map, metadata
  <2> QED BY <2>1, <2>2 DEF entries, map, metadata
<1>2. /\ ~Reached("inventory") /\ job.pc # "idle" /\ Reached("pack") /\ Reached("upload")
      /\ Reached("content") /\ Reached("candidate") /\ Reached("again") /\ Reached("input")
      /\ Reached("entries")
  BY <1>1, Ranks DEF Reached
<1>3. /\ OutShaped' /\ out'.sidecar = out.sidecar /\ out'.prefix = out.prefix
      /\ out'.archive = out.archive /\ out'.stage = out.stage
      /\ out'.checksum = out.checksum /\ out'.rinv = out.rinv
      /\ out'.admission = out.admission /\ out'.rsha = out.rsha /\ out'.candlic = out.candlic
      /\ out'.qualified = out.qualified /\ out'.filled = filled
      /\ \A inv \in out'.rinv : Reads(inv)
  BY <1>1 DEF RInv, Shaped, OutShaped, Runtime
<1>4. CASE job' = [job EXCEPT !.pc = "idle"] /\ inputs' = inputs
  <2>1. InputsShaped'
    BY <1>4 DEF RInv, Shaped, InputsShaped
  <2> QED BY <1>1, <1>2, <1>3, <1>4, <2>1, Refused
<1>5. CASE /\ job' = [job EXCEPT !.pc = "map"]
           /\ inputs' = [inputs EXCEPT !.entries = entries]
           /\ filled = {[map |-> map, metadata |-> metadata]}
           /\ entries # {} /\ map # {} /\ metadata # {}
  <2>1. /\ JobShaped' /\ job'.pc = "map" /\ job'.claim = job.claim
        /\ job'.tokens = job.tokens /\ job'.m = job.m /\ job'.place = job.place
    BY <1>5, Moves, AllPcs DEF RInv
  <2>2. InputsShaped' /\ inputs'.entries = entries
    BY <1>5 DEF RInv, Shaped, InputsShaped
  <2>3. Shaped'
    BY <1>1, <1>3, <2>1, <2>2, AllPcs DEF RInv, Shaped, LegalShaped
  <2>4. Shipped' /\ Closed' /\ out'.archive = {} /\ out'.checksum = {}
    BY <1>2, <1>3, <2>1, Ranks, AllPcs, Unpacked0 DEF Reached
  <2>5. Fresh'
    BY <1>1, <1>2, <1>3, <2>1, <2>4, Ranks, AllPcs, FreshStays DEF RInv, Shaped
  <2>6. Claims' /\ Bindings'
    BY <1>1, <1>2, <1>3, <2>1, Ranks, AllPcs, CandidateStays DEF RInv, Reached, Shaped
  <2>7. Only(out'.filled).map = map /\ Only(out'.filled).metadata = metadata
    <3>1. PICK f : f = [map |-> map, metadata |-> metadata]
      OBVIOUS
    <3>2. Only(out'.filled) = f
      <4>1. out'.filled = {f}
        BY <1>3, <1>5, <3>1
      <4> QED BY <4>1, OnlyOne
    <3>3. f.map = map /\ f.metadata = metadata
      BY <3>1
    <3> QED BY <3>2, <3>3
  <2>8. Admitted'
    <3>1. entries = EntriesOf(models.manifest) /\ map = {models.manifest.platform}
      BY <1>1, <1>5 DEF materialize_candidate_entries, materialize_artifact_map, EntriesOf
    <3>2. Loaded' = Loaded
      BY <2>1 DEF Loaded
    <3>3. Reached("map")' /\ ~Reached("metadata")'
      BY <2>1, Ranks DEF Reached
    <3> QED BY <1>1, <1>2, <1>3, <2>1, <2>2, <2>7, <3>1, <3>2, <3>3 DEF RInv, Admitted
  <2>9. Filled'
    <3>1. metadata = {SolvedBuild}
      BY <1>1, <1>5 DEF materialize_report_metadata, SolvedBuild
    <3>2. out.rsha = {SolvedBuild}
      BY <1>2, OneOnly DEF RInv, Runtime, SolvedBuild
    <3>3. ~Reached("stage")'
      BY <2>1, Ranks DEF Reached
    <3> QED BY <1>3, <2>1, <2>7, <3>1, <3>2, <3>3 DEF Filled
  <2>10. Stage'
    BY <2>1 DEF Stage
  <2>11. Runtime'
    BY <1>1, <1>2, <1>3, <2>1, Ranks, AllPcs, RuntimeStays DEF RInv, Reached, Shaped
  <2>12. Approvals'
    BY <1>1, <1>2, <1>3, ApprovalsStay DEF RInv, Shaped
  <2> QED BY <2>3, <2>4, <2>5, <2>6, <2>8, <2>9, <2>10, <2>11, <2>12 DEF RInv
<1> QED BY <1>1, <1>4, <1>5

LEMMA MaterializeMapSound ==
  ASSUME RInv, Watch, MaterializeMap
  PROVE  RInv'
<1>1. /\ inputs' = [inputs EXCEPT !.map = Only(out.filled).map]
      /\ job' = [job EXCEPT !.pc = "metadata"]
      /\ job.pc = "map" /\ UNCHANGED << models, legal, index, blind, out >>
  BY DEF MaterializeMap, Proceed, At, Alone
<1>2. /\ ~Reached("inventory") /\ job.pc # "idle" /\ Reached("pack") /\ Reached("upload")
      /\ Reached("content") /\ Reached("candidate") /\ Reached("again") /\ Reached("input")
      /\ Reached("entries") /\ Reached("map")
  BY <1>1, Ranks DEF Reached
<1>3. /\ JobShaped' /\ job'.pc = "metadata" /\ job'.claim = job.claim
      /\ job'.tokens = job.tokens /\ job'.m = job.m /\ job'.place = job.place
  BY <1>1, Moves, AllPcs DEF RInv
<1>4. /\ InputsShaped' /\ inputs'.entries = inputs.entries
      /\ inputs'.map = Only(out.filled).map
  BY <1>1 DEF RInv, Shaped, InputsShaped
<1>5. Shaped'
  BY <1>1, <1>3, <1>4, AllPcs DEF RInv, Shaped, LegalShaped, OutShaped
<1>6. Shipped' /\ Closed' /\ out'.archive = {} /\ out'.checksum = {}
  BY <1>1, <1>2, <1>3, Ranks, AllPcs, Unpacked0 DEF Reached
<1>7. Fresh'
  BY <1>1, <1>2, <1>3, <1>6, Ranks, AllPcs, FreshStays DEF RInv, Shaped
<1>8. Claims' /\ Bindings'
  BY <1>1, <1>2, <1>3, Ranks, AllPcs, CandidateStays DEF RInv, Reached, Shaped
<1>9. Admitted'
  <2>1. Loaded' = Loaded
    BY <1>3 DEF Loaded
  <2> QED BY <1>1, <1>2, <1>3, <1>4, <2>1 DEF RInv, Admitted
<1>10. Filled' /\ Stage'
  BY <1>1, <1>3, Ranks DEF RInv, Filled, Stage, Reached
<1>11. Runtime'
  BY <1>1, <1>2, <1>3, Ranks, AllPcs, RuntimeStays DEF RInv, Reached, Shaped
<1>12. Approvals'
  BY <1>1, <1>2, ApprovalsStay DEF RInv, Shaped
<1> QED BY <1>5, <1>6, <1>7, <1>8, <1>9, <1>10, <1>11, <1>12 DEF RInv

LEMMA MaterializeMetadataSound ==
  ASSUME RInv, Watch, MaterializeMetadata
  PROVE  RInv'
<1>1. /\ inputs' = [inputs EXCEPT !.metadata = Only(out.filled).metadata]
      /\ job' = [job EXCEPT !.pc = "stage", !.i = 1]
      /\ job.pc = "metadata" /\ UNCHANGED << models, legal, index, blind, out >>
  BY DEF MaterializeMetadata, At, Alone
<1>2. /\ ~Reached("inventory") /\ job.pc # "idle" /\ Reached("pack") /\ Reached("upload")
      /\ Reached("content") /\ Reached("candidate") /\ Reached("again") /\ Reached("input")
      /\ Reached("entries") /\ Reached("map") /\ Reached("metadata") /\ ~Reached("stage")
  BY <1>1, Ranks DEF Reached
<1>3. /\ JobShaped' /\ job'.pc = "stage" /\ job'.claim = job.claim /\ job'.i = 1
      /\ job'.tokens = job.tokens /\ job'.m = job.m /\ job'.place = job.place
  BY <1>1 DEF RInv, Shaped, JobShaped
<1>4. /\ InputsShaped' /\ inputs'.entries = inputs.entries /\ inputs'.map = inputs.map
      /\ inputs'.metadata = Only(out.filled).metadata
  BY <1>1 DEF RInv, Shaped, InputsShaped
<1>5. Shaped'
  BY <1>1, <1>3, <1>4, AllPcs DEF RInv, Shaped, LegalShaped, OutShaped
<1>6. Shipped' /\ Closed' /\ out'.archive = {} /\ out'.checksum = {}
  BY <1>1, <1>2, <1>3, Ranks, AllPcs, Unpacked0 DEF Reached
<1>7. Fresh'
  BY <1>1, <1>2, <1>3, <1>6, Ranks, AllPcs, FreshStays DEF RInv, Shaped
<1>8. Claims' /\ Bindings'
  BY <1>1, <1>2, <1>3, Ranks, AllPcs, CandidateStays DEF RInv, Reached, Shaped
<1>9. Admitted'
  BY <1>1, <1>2, <1>3, <1>4, AdmittedStays DEF RInv
<1>10. Filled'
  BY <1>1, <1>3, <1>4, Ranks DEF RInv, Filled, Reached
<1>11. Stage'
  <2>1. out'.stage = << >>
    BY <1>1, <1>2 DEF RInv, Fresh
  <2> QED BY <1>3, <2>1 DEF Stage
<1>12. Runtime'
  BY <1>1, <1>2, <1>3, Ranks, AllPcs, RuntimeStays DEF RInv, Reached, Shaped
<1>13. Approvals'
  BY <1>1, <1>2, ApprovalsStay DEF RInv, Shaped
<1> QED BY <1>5, <1>6, <1>7, <1>8, <1>9, <1>10, <1>11, <1>12, <1>13 DEF RInv

-----------------------------------------------------------------------------
(* The package. *)

LEMMA AllFiles ==
  /\ Files = { "manifest", "artifact", "terms", "credits", "review",
               "entries", "map", "metadata", "runtime" }
  /\ Len(StageOrder) = 9
  /\ \A k \in 1..9 : StageOrder[k] \in Files
<1>1. Files = { "manifest", "artifact", "terms", "credits", "review",
                "entries", "map", "metadata", "runtime" }
  BY DEF Files, StageOrder
<1>2. Len(StageOrder) = 9
  BY DEF StageOrder
<1>3. \A k \in 1..9 : StageOrder[k] \in Files
  BY DEF Files
<1> QED BY <1>1, <1>2, <1>3

(* What has been staged is still as it was read, or the manifest has changed since. *)
LEMMA StagedStays ==
  ASSUME NEW f \in Files, Staged(f), out'.stage[f] = out.stage[f], out'.rsha = out.rsha,
         out'.candlic = out.candlic, out'.rinv = out.rinv, inputs' = inputs,
         legal'.approval = legal.approval, job'.m = job.m, blind \subseteq blind'
  PROVE  Staged(f)'
<1>1. Loaded' = Loaded
  BY DEF Loaded
<1> QED BY <1>1, AllFiles DEF Staged, Source

(* One more file in the stage. *)
LEMMA StageGrows ==
  ASSUME Stage, job.pc = "stage", job.i \in 1..9, job'.i = job.i + 1, job'.m = job.m,
         blind' = blind, out'.rsha = out.rsha, out'.candlic = out.candlic,
         out'.rinv = out.rinv, inputs' = inputs, legal'.approval = legal.approval,
         NEW file, file = StageOrder[job.i], NEW content,
         out'.stage = [f \in DOMAIN out.stage \cup {file} |->
                         IF f = file THEN content ELSE out.stage[f]],
         file = "manifest" /\ "models" \notin blind => content = Loaded,
         file = "runtime" => content = out.rsha,
         file \notin {"manifest", "artifact", "runtime"} => content = Source(file)
  PROVE  Stage'
<1>1. file \in Files
  BY AllFiles
<1>2. job'.i \in 1..10 /\ \A k \in 1..(job'.i - 1) : k \in 1..(job.i - 1) \/ k = job.i
  OBVIOUS
<1>3. ASSUME NEW k \in 1..(job'.i - 1)
      PROVE  StageOrder[k] \in DOMAIN out'.stage
  <2>1. StageOrder[k] \in DOMAIN out.stage \/ StageOrder[k] = file
    BY <1>2 DEF Stage
  <2> QED BY <2>1
<1>4. Staged(file)'
  <2>1. out'.stage[file] = content
    OBVIOUS
  <2>2. Loaded' = Loaded
    BY DEF Loaded
  <2> QED BY <1>1, <2>1, <2>2, AllFiles DEF Staged, Source
<1>5. ASSUME NEW f \in DOMAIN out.stage \cap Files, f # file
      PROVE  Staged(f)'
  <2>1. Staged(f)
    BY <1>5 DEF Stage
  <2>2. out'.stage[f] = out.stage[f]
    BY <1>5
  <2> QED BY <1>5, <2>1, <2>2, StagedStays
<1>6. \A f \in DOMAIN out'.stage \cap Files : f = file \/ f \in DOMAIN out.stage \cap Files
  OBVIOUS
<1> QED BY <1>2, <1>3, <1>4, <1>5, <1>6 DEF Stage

LEMMA SpecificationOf ==
  ASSUME Specification # {}
  PROVE  /\ Only(Specification).status = Only(out.admission).status
         /\ Only(Specification).runtime = out.rsha
<1>1. PICK spec : spec = [status |-> Only(out.admission).status,
                          why |-> Only(out.admission).why, runtime |-> out.rsha]
  OBVIOUS
<1>2. Specification = {spec}
  BY <1>1 DEF Specification, load_spec
<1>3. Only(Specification) = spec
  BY <1>2, OnlyOne
<1> QED BY <1>1, <1>3

LEMMA StageFileSound ==
  ASSUME RInv, Watch, StageFile
  PROVE  RInv'
<1>a. PICK file, content : file = StageOrder[job.i] /\ content = Source(file)
  OBVIOUS
<1>b. PICK stage : stage = [f \in DOMAIN out.stage \cup {file} |->
                              IF f = file THEN content ELSE out.stage[f]]
  OBVIOUS
<1>1. /\ \/ job' = [job EXCEPT !.pc = "idle"] /\ out' = out
         \/ /\ ~CopyRefused(file, content, Only(Specification))
            /\ job' = [job EXCEPT !.i = job.i + 1]
            /\ out' = [out EXCEPT !.stage = stage]
      /\ job.i <= Len(StageOrder) /\ Specification # {}
      /\ job.pc = "stage" /\ UNCHANGED << models, legal, index, blind, inputs >>
  BY <1>a, <1>b DEF StageFile, Proceed, At, Quiet, Alone
<1>2. /\ ~Reached("inventory") /\ job.pc # "idle" /\ Reached("pack") /\ Reached("upload")
      /\ Reached("content") /\ Reached("candidate") /\ Reached("again") /\ Reached("input")
      /\ Reached("entries") /\ Reached("map") /\ Reached("metadata") /\ Reached("stage")
  BY <1>1, Ranks DEF Reached
<1>3. CASE job' = [job EXCEPT !.pc = "idle"] /\ out' = out
  <2>1. InputsShaped' /\ OutShaped' /\ \A inv \in out'.rinv : Reads(inv)
    BY <1>1, <1>3 DEF RInv, Shaped, InputsShaped, OutShaped, Runtime
  <2> QED BY <1>1, <1>2, <1>3, <2>1, Refused
<1>4. CASE /\ ~CopyRefused(file, content, Only(Specification))
           /\ job' = [job EXCEPT !.i = job.i + 1]
           /\ out' = [out EXCEPT !.stage = stage]
  <2>1. /\ JobShaped' /\ job'.pc = "stage" /\ job'.claim = job.claim /\ job'.i = job.i + 1
        /\ job'.tokens = job.tokens /\ job'.m = job.m /\ job'.place = job.place
    BY <1>1, <1>4 DEF RInv, Shaped, JobShaped
  <2>2. /\ InputsShaped' /\ OutShaped' /\ out'.sidecar = out.sidecar /\ out'.prefix = out.prefix
        /\ out'.archive = out.archive /\ out'.stage = stage
        /\ out'.checksum = out.checksum /\ out'.rinv = out.rinv
        /\ out'.admission = out.admission /\ out'.rsha = out.rsha /\ out'.candlic = out.candlic
        /\ out'.qualified = out.qualified
    BY <1>1, <1>4 DEF RInv, Shaped, OutShaped, InputsShaped
  <2>3. Shaped'
    BY <1>1, <2>1, <2>2, AllPcs DEF RInv, Shaped, LegalShaped
  <2>4. Shipped' /\ Closed' /\ out'.archive = {} /\ out'.checksum = {}
    BY <1>2, <2>1, <2>2, Ranks, AllPcs, Unpacked0 DEF Reached
  <2>5. Fresh'
    BY <1>1, <1>2, <2>1, <2>2, <2>4, Ranks, AllPcs, FreshStays DEF RInv, Shaped
  <2>6. Claims' /\ Bindings'
    BY <1>1, <1>2, <2>1, <2>2, Ranks, AllPcs, CandidateStays DEF RInv, Reached, Shaped
  <2>7. Admitted'
    BY <1>1, <1>2, <2>1, <2>2, AdmittedStays DEF RInv
  <2>8. Filled'
    BY <1>1, <1>2, <2>1, <2>2 DEF RInv, Filled
  <2>9. Stage'
    <3>1. job.i \in 1..9
      BY <1>1, AllFiles DEF RInv, Stage
    <3>2. "models" \notin blind => models.manifest = Loaded
      BY <1>2 DEF RInv, Admitted
    <3>3. file = "manifest" /\ "models" \notin blind => content = Loaded
      BY <1>a, <3>2 DEF Source
    <3>4. file = "runtime" => content = out.rsha
      BY <1>1, <1>4, SpecificationOf DEF CopyRefused
    <3> QED BY <1>1, <1>a, <1>b, <2>1, <2>2, <3>1, <3>3, <3>4, StageGrows DEF RInv
  <2>10. Runtime'
    BY <1>1, <1>2, <2>1, <2>2, Ranks, AllPcs, RuntimeStays DEF RInv, Reached, Shaped
  <2>11. Approvals'
    BY <1>1, <1>2, <2>2, ApprovalsStay DEF RInv, Shaped
  <2> QED BY <2>3, <2>4, <2>5, <2>6, <2>7, <2>8, <2>9, <2>10, <2>11 DEF RInv
<1> QED BY <1>1, <1>3, <1>4

(* What is packed is what was admitted, reviewed and verified. *)
LEMMA ArchiveIsRight ==
  ASSUME RInv, job.pc = "stage", job.i > Len(StageOrder), Bound(out.stage),
         Specification # {}, NEW a, a.spec = Only(Specification), a.files = out.stage
  PROVE  LET f == a.files IN
         /\ a.spec.status = "eligible" /\ "models" \notin blind =>
              /\ Verdicts(f["manifest"]) = {"yes"}
              /\ \E r \in job.claim :
                   r.surfaces = Surfaces /\ r.identity = Identity(f["manifest"])
         /\ f["manifest"].bytes = f["artifact"]
         /\ f["metadata"] = f["runtime"]
         /\ "models" \notin blind =>
              /\ \A e \in out.admission :
                   e.artifact = f["artifact"] /\ e.manifest = f["manifest"].edition
              /\ \A c \in f["terms"] :
                   c.manifest = f["manifest"].edition /\ c.terms = f["manifest"].terms
              /\ f["entries"] = {[artifact |-> f["artifact"], manifest |-> f["manifest"].edition]}
              /\ f["map"] = {f["manifest"].platform}
         /\ \A r \in f["review"] : r.reviewed /\ f["credits"] = {r.inventory}
         /\ "prefix" \notin blind =>
              /\ \A b \in f["runtime"], r \in f["review"] :
                   r.inventory.content = Content(b) /\ out.qualified = {Content(b)}
              /\ \A b \in f["runtime"], inv \in f["credits"] : Credits(b, inv)
<1>1. PICK f : f = out.stage
  OBVIOUS
<1>2. /\ Reached("load") /\ Reached("pack") /\ Reached("candidate") /\ Reached("again")
      /\ Reached("map") /\ Reached("metadata") /\ Reached("input") /\ Reached("upload")
      /\ Reached("entries") /\ Reached("content") /\ Reached("stage")
  BY Ranks DEF Reached
<1>3. \A k \in 1..9 : StageOrder[k] \in DOMAIN out.stage
  <2>1. job.i = 10
    BY AllFiles DEF RInv, Stage
  <2> QED BY <2>1 DEF RInv, Stage
<1>4. \A file \in Files : Staged(file)
  <2> SUFFICES ASSUME NEW file \in Files PROVE Staged(file)
    OBVIOUS
  <2>1. PICK k \in 1..9 : file = StageOrder[k]
    BY DEF Files
  <2>2. file \in DOMAIN out.stage \cap Files
    BY <1>3, <2>1
  <2> QED BY <2>2 DEF RInv, Stage
<1>5. /\ "models" \notin blind => f["manifest"] = Loaded
      /\ f["terms"] = out.candlic /\ f["credits"] = out.rinv /\ f["review"] = legal.approval
      /\ f["entries"] = inputs.entries /\ f["map"] = inputs.map
      /\ f["metadata"] = inputs.metadata /\ f["runtime"] = out.rsha
  BY <1>1, <1>4, AllFiles DEF Staged, Source
<1>6. f["manifest"].bytes = f["artifact"]
  BY <1>1 DEF Bound
<1>7. f["metadata"] = f["runtime"]
  BY <1>2, <1>5 DEF RInv, Filled
<1>8. /\ ~job.tokens /\ Only(out.admission).measurement = "measurable"
      /\ \E r \in job.claim : r.surfaces = Surfaces
      /\ \E r \in job.claim : r.identity = Identity(Loaded)
  BY <1>2 DEF RInv, Claims
<1>9. /\ One(out.admission) /\ AdmittedOf(Only(out.admission), Loaded)
  BY <1>2 DEF RInv, Bindings
<1>10. ASSUME a.spec.status = "eligible", "models" \notin blind
       PROVE  /\ Verdicts(f["manifest"]) = {"yes"}
              /\ \E r \in job.claim :
                   r.surfaces = Surfaces /\ r.identity = Identity(f["manifest"])
  <2>1. Only(out.admission).status = "eligible"
    BY <1>10, SpecificationOf
  <2>2. Verdicts(Loaded) = {"yes"}
    BY <1>8, <1>9, <2>1 DEF AdmittedOf
  <2>3. \A r, s \in job.claim : r = s
    BY DEF RInv, Shaped
  <2> QED BY <1>5, <1>8, <1>10, <2>2, <2>3
<1>11. ASSUME "models" \notin blind
       PROVE  /\ \A e \in out.admission :
                   e.artifact = f["artifact"] /\ e.manifest = f["manifest"].edition
              /\ \A c \in f["terms"] :
                   c.manifest = f["manifest"].edition /\ c.terms = f["manifest"].terms
              /\ f["entries"] = {[artifact |-> f["artifact"], manifest |-> f["manifest"].edition]}
              /\ f["map"] = {f["manifest"].platform}
  <2>1. /\ Only(out.admission).manifest = Loaded.edition
        /\ out.candlic = EvidenceOf(Loaded) /\ inputs.entries = EntriesOf(Loaded)
        /\ inputs.map = {Loaded.platform}
    BY <1>2, <1>11 DEF RInv, Admitted
  <2>2. f["manifest"] = Loaded /\ f["artifact"] = Loaded.bytes
    BY <1>5, <1>6, <1>11
  <2>3. Only(out.admission).artifact = Loaded.bytes
    BY <1>8, <1>9 DEF AdmittedOf
  <2>4. out.admission = {Only(out.admission)}
    BY <1>9, OneOnly
  <2>5. \A c \in EvidenceOf(Loaded) : c.manifest = Loaded.edition /\ c.terms = Loaded.terms
    BY DEF EvidenceOf
  <2>6. f["entries"] = {[artifact |-> f["artifact"], manifest |-> f["manifest"].edition]}
    BY <1>5, <2>1, <2>2 DEF EntriesOf
  <2> QED BY <1>5, <2>1, <2>2, <2>3, <2>4, <2>5, <2>6
<1>12. \A r \in f["review"] : r.reviewed /\ f["credits"] = {r.inventory}
  BY <1>2, <1>5 DEF RInv, Approvals
<1>13. ASSUME "prefix" \notin blind
       PROVE  /\ \A b \in f["runtime"], r \in f["review"] :
                   r.inventory.content = Content(b) /\ out.qualified = {Content(b)}
              /\ \A b \in f["runtime"], inv \in f["credits"] : Credits(b, inv)
  <2>1. /\ One(out.rsha) /\ One(out.rinv)
        /\ Only(out.rinv).content = Content(SolvedBuild)
        /\ Credits(SolvedBuild, Only(out.rinv))
        /\ out.qualified = {Only(out.rinv).content}
    BY <1>2, <1>13 DEF RInv, Runtime
  <2>2. out.rsha = {SolvedBuild} /\ out.rinv = {Only(out.rinv)}
    BY <2>1, OneOnly DEF SolvedBuild
  <2>3. \A r \in f["review"] : r.inventory = Only(out.rinv)
    BY <1>5, <1>12, <2>2
  <2> QED BY <1>5, <2>1, <2>2, <2>3
<1> QED BY <1>1, <1>6, <1>7, <1>10, <1>11, <1>12, <1>13

LEMMA WriteArchiveSound ==
  ASSUME RInv, Watch, WriteArchive
  PROVE  RInv'
<1>1. PICK a :
        /\ a = [spec |-> Only(Specification), files |-> out.stage]
        /\ \/ job' = [job EXCEPT !.pc = "idle"] /\ out' = out
           \/ /\ job' = [job EXCEPT !.pc = "inventory"]
              /\ out' = [out EXCEPT !.archive = {a}] /\ Bound(out.stage)
        /\ job.i > Len(StageOrder)
        /\ job.pc = "stage" /\ UNCHANGED << models, legal, index, blind, inputs >>
  BY DEF WriteArchive, Archive, Proceed, At, Quiet, Alone
<1>2. /\ ~Reached("inventory") /\ job.pc # "idle" /\ Reached("pack") /\ Reached("upload")
      /\ Reached("content") /\ Reached("candidate") /\ Reached("again") /\ Reached("input")
      /\ Reached("entries") /\ Reached("map") /\ Reached("metadata") /\ Reached("stage")
  BY <1>1, Ranks DEF Reached
<1>3. CASE job' = [job EXCEPT !.pc = "idle"] /\ out' = out
  <2>1. InputsShaped' /\ OutShaped' /\ \A inv \in out'.rinv : Reads(inv)
    BY <1>1, <1>3 DEF RInv, Shaped, InputsShaped, OutShaped, Runtime
  <2> QED BY <1>1, <1>2, <1>3, <2>1, Refused
<1>4. CASE /\ job' = [job EXCEPT !.pc = "inventory"]
           /\ out' = [out EXCEPT !.archive = {a}] /\ Bound(out.stage)
  <2>1. /\ JobShaped' /\ job'.pc = "inventory" /\ job'.claim = job.claim
        /\ job'.tokens = job.tokens /\ job'.m = job.m /\ job'.place = job.place
    BY <1>4, Moves, AllPcs DEF RInv
  <2>2. /\ InputsShaped' /\ OutShaped' /\ out'.sidecar = out.sidecar /\ out'.prefix = out.prefix
        /\ out'.archive = {a} /\ out'.checksum = out.checksum /\ out'.rinv = out.rinv
        /\ out'.admission = out.admission /\ out'.rsha = out.rsha /\ out'.candlic = out.candlic
        /\ out'.qualified = out.qualified
    BY <1>1, <1>4 DEF RInv, Shaped, OutShaped, InputsShaped
  <2>3. Shaped'
    BY <1>1, <2>1, <2>2, AllPcs DEF RInv, Shaped, LegalShaped
  <2>4. Specification # {}
    <3>1. Only(out.admission).measurement = "measurable"
      BY <1>2 DEF RInv, Claims
    <3> QED BY <3>1 DEF Specification, load_spec
  <2>5. Shipped'
    <3>1. a.spec = Only(Specification) /\ a.files = out.stage
      BY <1>1
    <3>2. \A b : Content(b)' = Content(b)
      BY <2>1 DEF Content
    <3>3. blind' = blind
      BY <1>1
    <3> QED BY <1>1, <1>4, <2>1, <2>2, <2>4, <3>1, <3>2, <3>3, ArchiveIsRight DEF Shipped
  <2>6. Fresh'
    BY <1>1, <1>2, <2>1, <2>2, Ranks, AllPcs, FreshStays DEF RInv, Shaped
  <2>7. Closed'
    <3>1. out'.checksum = {} /\ One(out'.archive)
      BY <1>2, <2>2 DEF RInv, Fresh, One
    <3>2. together' => Packed'
      BY DEF Watch
    <3> QED BY <2>1, <3>1, <3>2, Ranks DEF Closed, Reached
  <2>8. Claims' /\ Bindings'
    BY <1>1, <1>2, <2>1, <2>2, Ranks, AllPcs, CandidateStays DEF RInv, Reached, Shaped
  <2>9. Admitted'
    BY <1>1, <1>2, <2>1, <2>2, AdmittedStays DEF RInv
  <2>10. Filled' /\ Stage'
    BY <1>1, <1>2, <2>1, <2>2 DEF RInv, Filled, Stage
  <2>11. Runtime'
    BY <1>1, <1>2, <2>1, <2>2, Ranks, AllPcs, RuntimeStays DEF RInv, Reached, Shaped
  <2>12. Approvals'
    BY <1>1, <1>2, <2>2, ApprovalsStay DEF RInv, Shaped
  <2> QED BY <2>3, <2>5, <2>6, <2>7, <2>8, <2>9, <2>10, <2>11, <2>12 DEF RInv
<1> QED BY <1>1, <1>3, <1>4

LEMMA WriteInventorySound ==
  ASSUME RInv, Watch, WriteInventory
  PROVE  RInv'
<1>1. /\ job' = [job EXCEPT !.pc = "verify"]
      /\ out' = [out EXCEPT !.inventory = {InventoryOf(Only(out.archive))}]
      /\ job.pc = "inventory" /\ UNCHANGED << models, legal, index, blind, inputs >>
  BY DEF WriteInventory, Proceed, At, Quiet, Alone
<1>2. /\ Reached("inventory") /\ job.pc # "idle" /\ Reached("pack") /\ Reached("upload")
      /\ Reached("content") /\ Reached("candidate") /\ Reached("again") /\ Reached("input")
      /\ Reached("entries") /\ Reached("map") /\ Reached("metadata") /\ Reached("stage")
  BY <1>1, Ranks DEF Reached
<1>3. /\ JobShaped' /\ job'.pc = "verify" /\ job'.claim = job.claim
      /\ job'.tokens = job.tokens /\ job'.m = job.m /\ job'.place = job.place
  BY <1>1, Moves, AllPcs DEF RInv
<1>4. /\ InputsShaped' /\ OutShaped' /\ out'.sidecar = out.sidecar /\ out'.prefix = out.prefix
      /\ out'.archive = out.archive /\ out'.checksum = out.checksum /\ out'.rinv = out.rinv
      /\ out'.admission = out.admission /\ out'.rsha = out.rsha /\ out'.candlic = out.candlic
      /\ out'.qualified = out.qualified
      /\ out'.inventory = {InventoryOf(Only(out.archive))}
  BY <1>1 DEF RInv, Shaped, OutShaped, InputsShaped
<1>5. Shaped'
  BY <1>1, <1>3, <1>4, AllPcs DEF RInv, Shaped, LegalShaped
<1>6. Shipped'
  BY <1>1, <1>3, <1>4, ShippedStays DEF RInv
<1>7. Fresh'
  BY <1>1, <1>2, <1>3, <1>4, Ranks, AllPcs, FreshStays DEF RInv, Shaped
<1>8. Closed'
  <2>1. out'.checksum = {} /\ One(out.archive)
    BY <1>2, <1>4 DEF RInv, Fresh, Closed
  <2>2. together' => Packed'
    BY DEF Watch
  <2>3. out'.inventory = { InventoryOf(a) : a \in out'.archive }
    <3>1. PICK a : a = Only(out.archive)
      OBVIOUS
    <3>2. out'.archive = {a}
      BY <1>4, <2>1, <3>1, OneOnly
    <3> QED BY <1>4, <3>1, <3>2
  <2> QED BY <1>3, <1>4, <2>1, <2>2, <2>3 DEF Closed
<1>9. Claims' /\ Bindings'
  BY <1>1, <1>2, <1>3, <1>4, Ranks, AllPcs, CandidateStays DEF RInv, Reached, Shaped
<1>10. Admitted'
  BY <1>1, <1>2, <1>3, <1>4, AdmittedStays DEF RInv
<1>11. Filled' /\ Stage'
  BY <1>1, <1>2, <1>3, <1>4 DEF RInv, Filled, Stage
<1>12. Runtime'
  BY <1>1, <1>2, <1>3, <1>4, Ranks, AllPcs, RuntimeStays DEF RInv, Reached, Shaped
<1>13. Approvals'
  BY <1>1, <1>2, <1>4, ApprovalsStay DEF RInv, Shaped
<1> QED BY <1>5, <1>6, <1>7, <1>8, <1>9, <1>10, <1>11, <1>12, <1>13 DEF RInv

LEMMA VerifySound ==
  ASSUME RInv, Watch, Verify
  PROVE  RInv'
<1>1. /\ \/ job' = [job EXCEPT !.pc = "idle"]
         \/ /\ job' = [job EXCEPT !.pc = "checksum"]
            /\ SourcesMatch(Sources, Only(out.inventory))
      /\ job.pc = "verify" /\ UNCHANGED << models, legal, index, blind, inputs, out >>
  BY DEF Verify, verify_package, Proceed, At, Quiet, Alone
<1>2. /\ Reached("inventory") /\ job.pc # "idle" /\ Reached("pack") /\ Reached("upload")
      /\ Reached("content") /\ Reached("candidate") /\ Reached("again") /\ Reached("input")
      /\ Reached("entries") /\ Reached("map") /\ Reached("metadata") /\ Reached("stage")
      /\ Reached("verify")
  BY <1>1, Ranks DEF Reached
<1>3. PICK pc \in {"idle", "checksum"} : job' = [job EXCEPT !.pc = pc]
  BY <1>1
<1>4. /\ JobShaped' /\ job'.pc = pc /\ job'.claim = job.claim
      /\ job'.tokens = job.tokens /\ job'.m = job.m /\ job'.place = job.place
  BY <1>3, Moves, AllPcs DEF RInv
<1>5. Shaped'
  BY <1>1, <1>4, AllPcs DEF RInv, Shaped, LegalShaped, InputsShaped, OutShaped
<1>6. Shipped'
  BY <1>1, <1>4, ShippedStays DEF RInv
<1>7. out.checksum = {} /\ One(out.archive)
  BY <1>2 DEF RInv, Fresh, Closed
<1>8. CASE pc = "idle"
  <2>1. \A inv \in out'.rinv : Reads(inv)
    BY <1>1 DEF RInv, Runtime
  <2>2. out'.checksum = {}
    BY <1>1, <1>7
  <2> QED BY <1>4, <1>5, <1>6, <1>8, <2>1, <2>2, Stopped
<1>9. CASE pc = "checksum"
  <2>1. job'.pc = "checksum" /\ SourcesMatch(Sources, Only(out.inventory))
    <3>1. job.pc # "checksum" /\ job'.pc # "idle"
      BY <1>1, <1>4, <1>9
    <3>2. job' # [job EXCEPT !.pc = "idle"]
      BY <3>1, Moves, AllPcs DEF RInv
    <3> QED BY <1>1, <1>4, <1>9, <3>2
  <2>2. Standing
    <3>1. PICK a : out.archive = {a}
      BY <1>7 DEF One
    <3>2. PICK inventory : inventory = InventoryOf(a)
      OBVIOUS
    <3>3. out.inventory = {inventory}
      BY <1>2, <3>1, <3>2 DEF RInv, Closed
    <3>4. Only(out.inventory) = inventory /\ inventory.files = a.files
      BY <3>2, <3>3, OnlyOne DEF InventoryOf
    <3> QED BY <2>1, <3>1, <3>4 DEF Standing, SourcesMatch
  <2>3. together' /\ Packed'
    <3>1. Sources' = Sources
      BY <1>1 DEF Sources, Source
    <3>2. Standing' /\ Packed'
      BY <1>1, <1>7, <2>2, <3>1 DEF Standing, Packed, One
    <3> QED BY <3>2 DEF Watch
  <2>4. Closed'
    BY <1>1, <1>2, <1>4, <1>7, <2>3 DEF RInv, Closed
  <2>5. Fresh'
    BY <1>1, <1>2, <1>7, <2>1, Ranks DEF Fresh, Reached
  <2>6. Claims' /\ Bindings'
    BY <1>1, <1>2, <1>4, <2>1, Ranks, AllPcs, CandidateStays DEF RInv, Reached, Shaped
  <2>7. Admitted'
    BY <1>1, <1>2, <1>4, <2>1, AdmittedStays DEF RInv
  <2>8. Filled' /\ Stage'
    BY <1>1, <1>2, <2>1 DEF RInv, Filled, Stage
  <2>9. Runtime'
    BY <1>1, <1>2, <1>4, <2>1, Ranks, AllPcs, RuntimeStays DEF RInv, Reached, Shaped
  <2>10. Approvals'
    BY <1>1, <1>2, ApprovalsStay DEF RInv, Shaped
  <2> QED BY <1>5, <1>6, <2>4, <2>5, <2>6, <2>7, <2>8, <2>9, <2>10 DEF RInv
<1> QED BY <1>8, <1>9

LEMMA ChecksumSound ==
  ASSUME RInv, Watch, Checksum
  PROVE  RInv'
<1>1. PICK checksum :
        /\ checksum \in {{}, out.archive}
        /\ out' = [out EXCEPT !.checksum = checksum]
        /\ job' = [job EXCEPT !.pc = "idle"]
        /\ job.pc = "checksum" /\ UNCHANGED << models, legal, index, blind, inputs >>
  <2>1. job.pc = "checksum" /\ UNCHANGED << models, legal, index, blind, inputs >>
    BY DEF Checksum, At, Quiet, Alone
  <2>2. out.checksum = {}
    BY <2>1 DEF RInv, Fresh
  <2>3. out = [out EXCEPT !.checksum = {}]
    BY <2>2 DEF RInv, Shaped, OutShaped
  <2>4. out' = [out EXCEPT !.checksum = out.archive] \/ out' = out
    BY DEF Checksum
  <2>5. job' = [job EXCEPT !.pc = "idle"]
    BY DEF Checksum, Proceed
  <2> QED BY <2>1, <2>3, <2>4, <2>5
<1>2. Reached("inventory")
  BY <1>1, Ranks DEF Reached
<1>3. /\ JobShaped' /\ job'.pc = "idle" /\ job'.claim = job.claim /\ job'.place = job.place
  BY <1>1, Moves, AllPcs DEF RInv
<1>4. /\ InputsShaped' /\ OutShaped' /\ out'.archive = out.archive /\ out'.checksum = checksum
      /\ out'.rinv = out.rinv /\ out'.admission = out.admission
      /\ out'.qualified = out.qualified
  BY <1>1 DEF RInv, Shaped, OutShaped, InputsShaped
<1>5. Shaped'
  BY <1>1, <1>3, <1>4, AllPcs DEF RInv, Shaped, LegalShaped
<1>6. Shipped'
  BY <1>1, <1>3, <1>4, ShippedStays DEF RInv
<1>7. together'
  BY <1>1, <1>2, <1>4 DEF RInv, Closed, Watch, Packed
<1>8. \A inv \in out'.rinv : Reads(inv)
  BY <1>4 DEF RInv, Runtime
<1> QED BY <1>1, <1>3, <1>4, <1>5, <1>6, <1>7, <1>8, Stopped

-----------------------------------------------------------------------------
(* What comes between. *)

(* The models are left alone, or move on, unseen if their last check is past. *)
MovesOn ==
  \/ models' = models
  \/ /\ \/ models'.manifest = models.manifest
        \/ models'.manifest.edition = models.manifest.edition + 1
     /\ Reached("again") => "models" \in blind'

(* Nothing that the run has behind it is touched but the runtime. *)
LEMMA Besides ==
  ASSUME RInv, Watch, Shaped', Runtime', Fresh', MovesOn, job' = job, inputs' = inputs,
         legal'.approval = legal.approval, blind \subseteq blind',
         out'.sidecar = out.sidecar, out'.admission = out.admission, out'.rsha = out.rsha,
         out'.rinv = out.rinv, out'.candlic = out.candlic, out'.qualified = out.qualified,
         out'.filled = out.filled, out'.stage = out.stage, out'.archive = out.archive,
         out'.inventory = out.inventory, out'.checksum = out.checksum
  PROVE  RInv'
<1>1. /\ Loaded' = Loaded /\ \A pc : Reached(pc)' <=> Reached(pc)
      /\ models.manifest.edition \in Nat
  BY DEF Loaded, Reached, RInv, Shaped
<1>2. Claims'
  BY <1>1 DEF RInv, Claims
<1>3. /\ models.manifest.edition <= models'.manifest.edition
      /\ models'.manifest.edition \in Nat
      /\ models'.manifest.edition = models.manifest.edition => models'.manifest = models.manifest
  BY <1>1 DEF MovesOn
<1>4. Bindings'
  <2>1. \A m : WasThere(m) => WasThere(m)'
    BY <1>1, <1>3 DEF WasThere
  <2>2. \A e, m : AdmittedOf(e, m) => AdmittedOf(e, m)' \/ ~(m.edition \in Nat)
    BY <1>1, <1>3 DEF AdmittedOf
  <2>3. Reached("review") => /\ One(out.sidecar) /\ Only(out.sidecar).manifest \in Nat
                             /\ Only(out.sidecar).manifest <= models'.manifest.edition
    BY <1>1, <1>3 DEF RInv, Bindings
  <2>4. Reached("artifact") =>
          One(job.m) /\ WasThere(Loaded)' /\ Only(out.sidecar).manifest <= Loaded.edition
    BY <1>1, <2>1 DEF RInv, Bindings
  <2>5. Reached("pack") => One(out.admission) /\ AdmittedOf(Only(out.admission), Loaded)'
    <3>1. ASSUME Reached("pack")
          PROVE  One(out.admission) /\ AdmittedOf(Only(out.admission), Loaded)'
      <4>1. Reached("artifact")
        BY <3>1, Ranks DEF Reached, RInv, Shaped
      <4>2. WasThere(Loaded)
        BY <4>1 DEF RInv, Bindings
      <4>3. Loaded.edition \in Nat
        BY <4>2 DEF WasThere
      <4>4. One(out.admission) /\ AdmittedOf(Only(out.admission), Loaded)
        BY <3>1 DEF RInv, Bindings
      <4> QED BY <1>1, <2>2, <4>3, <4>4
    <3> QED BY <3>1
  <2> QED BY <1>1, <2>3, <2>4, <2>5 DEF Bindings
<1>5. Admitted'
  BY <1>1 DEF RInv, Admitted, MovesOn
<1>6. Approvals' /\ Filled'
  BY <1>1 DEF RInv, Approvals, Filled
<1>7. Stage'
  <2>1. ASSUME NEW f \in Files, Staged(f)
        PROVE  Staged(f)'
    BY <2>1, StagedStays
  <2> QED BY <2>1 DEF RInv, Stage
<1>8. Shipped'
  BY ShippedStays DEF RInv
<1>9. Closed'
  <2>1. together => together'
    BY DEF RInv, Closed, Watch, Packed
  <2>2. together' => Packed'
    BY DEF Watch
  <2> QED BY <1>1, <2>1, <2>2 DEF RInv, Closed
<1> QED BY <1>2, <1>4, <1>5, <1>6, <1>7, <1>8, <1>9 DEF RInv

(* The run itself sees nothing of it. *)
LEMMA Elsewhere ==
  ASSUME RInv, Watch, MovesOn, UNCHANGED << job, out, inputs >>, LegalShaped',
         models'.manifest.edition \in Nat, index' \in Builds,
         legal'.approval = legal.approval, blind \subseteq blind'
  PROVE  RInv'
<1>1. Shaped'
  BY DEF RInv, Shaped, JobShaped, OutShaped, InputsShaped
<1>2. Fresh'
  BY DEF RInv, Fresh, Reached
<1>3. Runtime'
  <2>1. \A b, x : CameFrom(b, x)' <=> CameFrom(b, x)
    BY DEF CameFrom
  <2>2. \A b : Content(b)' = Content(b)
    BY DEF Content
  <2>3. SolvedBuild' = SolvedBuild /\ Prefix' = Prefix
    BY DEF SolvedBuild, Prefix
  <2>4. \A b, d : Declares(b, d) => Declares(b, d)'
    BY DEF Declares
  <2> QED BY <2>1, <2>2, <2>3, <2>4 DEF RInv, Runtime, Reached
<1> QED BY <1>1, <1>2, <1>3, Besides

LEMMA ChangeModelsSound ==
  ASSUME RInv, Watch, NEW manifest, NEW artifact, ChangeModels(manifest, artifact),
         manifest = models.manifest \/ manifest.edition = models.manifest.edition + 1
  PROVE  RInv'
<1>1. /\ models'.manifest = manifest
      /\ blind' = IF job.pc \in AfterEvidence THEN blind \cup {"models"} ELSE blind
      /\ UNCHANGED << legal, index, inputs, job, out >>
  <2>1. models' = [manifest |-> manifest, artifact |-> artifact]
    BY DEF ChangeModels
  <2> QED BY <2>1 DEF ChangeModels
<1>2. Reached("again") => job.pc \in AfterEvidence
  BY Ranks, AllPcs DEF RInv, Shaped, Reached, AfterEvidence
<1>3. MovesOn /\ blind \subseteq blind'
  BY <1>1, <1>2 DEF MovesOn
<1>4. models'.manifest.edition \in Nat /\ index' \in Builds /\ LegalShaped'
  BY <1>1 DEF RInv, Shaped, LegalShaped
<1> QED BY <1>1, <1>3, <1>4, Elsewhere

LEMMA ModelsSound ==
  ASSUME RInv, Watch, ArtifactReplaced \/ ArtifactRemoved \/ ManifestReplaced
  PROVE  RInv'
<1>1. CASE ArtifactReplaced \/ ArtifactRemoved
  BY <1>1, ChangeModelsSound DEF ArtifactReplaced, ArtifactRemoved
<1>2. CASE ManifestReplaced
  <2>1. PICK platform, terms :
          ChangeModels(Export(models.manifest.edition + 1, models.artifact, platform, terms,
                              models.manifest.role), models.artifact)
    BY <1>2 DEF ManifestReplaced
  <2>2. PICK m : m = Export(models.manifest.edition + 1, models.artifact, platform, terms,
                            models.manifest.role)
    OBVIOUS
  <2>3. m.edition = models.manifest.edition + 1
    BY <2>2 DEF Export
  <2> QED BY <2>1, <2>2, <2>3, ChangeModelsSound
<1> QED BY <1>1, <1>2

LEMMA UpgradedSound ==
  ASSUME RInv, Watch, Upgraded
  PROVE  RInv'
<1>1. index' \in Builds /\ UNCHANGED << models, legal, inputs, job, out, blind >>
  BY DEF Upgraded
<1>2. MovesOn /\ LegalShaped' /\ models'.manifest.edition \in Nat
  BY <1>1 DEF MovesOn, RInv, Shaped, LegalShaped
<1> QED BY <1>1, <1>2, Elsewhere

LEMMA HalfReviewedSound ==
  ASSUME RInv, Watch, HalfReviewed
  PROVE  RInv'
<1>1. PICK review : /\ legal' = [legal EXCEPT !.review = {review}]
                    /\ UNCHANGED << models, index, inputs, job, out, blind >>
  BY DEF HalfReviewed
<1>2. /\ LegalShaped' /\ legal'.approval = legal.approval
  BY <1>1 DEF RInv, Shaped, LegalShaped
<1>3. MovesOn /\ models'.manifest.edition \in Nat /\ index' \in Builds
  BY <1>1 DEF MovesOn, RInv, Shaped
<1> QED BY <1>1, <1>2, <1>3, Elsewhere

LEMMA PrefixTouchedSound ==
  ASSUME RInv, Watch, PrefixTouched
  PROVE  RInv'
<1>0. PICK w \in Patches :
        /\ out' = [out EXCEPT !.prefix =
                     {[Prefix EXCEPT !.build.dists = { v \in @ : v.name # w.name } \cup {w}]}]
        /\ blind' = IF job.pc \in {"input", "collect", "evaluate"}
                    THEN blind \cup {"prefix"} ELSE blind
        /\ job.pc # "idle" /\ out.prefix # {}
        /\ UNCHANGED << models, legal, index, inputs, job >>
  BY DEF PrefixTouched, At
<1>1. PICK x :
        /\ x = [Prefix EXCEPT !.build.dists = { v \in @ : v.name # w.name } \cup {w}]
        /\ out' = [out EXCEPT !.prefix = {x}]
        /\ blind' = IF job.pc \in {"input", "collect", "evaluate"}
                    THEN blind \cup {"prefix"} ELSE blind
        /\ job.pc # "idle" /\ out.prefix # {}
        /\ UNCHANGED << models, legal, index, inputs, job >>
  BY <1>0
<1>2. Reached("input") /\ job.pc # "sidecar"
  <2>1. Reached("input")
    BY <1>1 DEF RInv, Fresh
  <2> QED BY <2>1, Ranks DEF Reached
<1>3. /\ OutShaped' /\ out'.prefix = {x}
      /\ out'.sidecar = out.sidecar /\ out'.admission = out.admission /\ out'.rsha = out.rsha
      /\ out'.rinv = out.rinv /\ out'.candlic = out.candlic /\ out'.qualified = out.qualified
      /\ out'.filled = out.filled /\ out'.stage = out.stage /\ out'.archive = out.archive
      /\ out'.inventory = out.inventory /\ out'.checksum = out.checksum
      /\ out'.rinput = out.rinput
  BY <1>1 DEF RInv, Shaped, OutShaped
<1>4. Shaped'
  BY <1>1, <1>3 DEF RInv, Shaped, JobShaped, LegalShaped, InputsShaped
<1>5. Fresh'
  BY <1>1, <1>2, <1>3 DEF RInv, Fresh, Reached
<1>6. Runtime'
  <2>1. /\ One(out.rsha) /\ SolvedBuild \in Builds
        /\ One(out.prefix) /\ CameFrom(SolvedBuild, Prefix)
    BY <1>2 DEF RInv, Runtime
  <2>2. CameFrom(SolvedBuild, x)
    <3>1. PICK p, b, dists : p = Prefix /\ b = Prefix.build
                             /\ dists = { v \in b.dists : v.name # w.name } \cup {w}
      OBVIOUS
    <3>2. PICK c : c = [b EXCEPT !.dists = dists]
      OBVIOUS
    <3>3. /\ p = [build |-> b, at |-> job.place, mentions |-> job.place, caches |-> p.caches]
          /\ b = [conda |-> b.conda, dists |-> b.dists, ort |-> b.ort, bridge |-> b.bridge,
                  rest |-> b.rest]
          /\ b.conda = SolvedBuild.conda /\ b.dists \subseteq SolvedBuild.dists \cup Patches
          /\ \A u, v \in b.dists : Id(u) = Id(v) => u = v
      BY <2>1, <3>1 DEF CameFrom
    <3>4. c = [conda |-> b.conda, dists |-> dists, ort |-> b.ort, bridge |-> b.bridge,
               rest |-> b.rest]
      BY <3>2, <3>3
    <3>5. x = [build |-> c, at |-> job.place, mentions |-> job.place, caches |-> p.caches]
      BY <1>1, <3>1, <3>2, <3>3
    <3>6. dists \subseteq SolvedBuild.dists \cup Patches
      BY <1>1, <3>1, <3>3
    <3>7. \A u, v \in dists : Id(u) = Id(v) => u = v
      <4>1. \A v \in dists : v = w \/ (v \in b.dists /\ v.name # w.name)
        BY <3>1
      <4>2. \A u, v : Id(u) = Id(v) => u.name = v.name
        BY DEF Id
      <4> QED BY <3>3, <4>1, <4>2
    <3> QED BY <3>3, <3>4, <3>5, <3>6, <3>7 DEF CameFrom
  <2>3. One(out'.prefix) /\ Prefix' = x
    BY <1>3, OnlyOne DEF One, Prefix
  <2>4. SolvedBuild' = SolvedBuild
    BY <1>3 DEF SolvedBuild
  <2>5. \A b, d : CameFrom(b, d)' <=> CameFrom(b, d)
    BY <1>1 DEF CameFrom
  <2>6. \A b : Content(b)' = Content(b)
    BY <1>1 DEF Content
  <2>7. \A b, d : Declares(b, d) => Declares(b, d)'
    BY <1>1 DEF Declares
  <2>8. CameFrom(SolvedBuild, Prefix)'
    BY <2>2, <2>3, <2>4, <2>5
  <2>9. \A pc : Reached(pc)' <=> Reached(pc)
    BY <1>1 DEF Reached
  <2> QED BY <1>1, <1>2, <1>3, <2>1, <2>3, <2>4, <2>6, <2>7, <2>8, <2>9 DEF RInv, Runtime
<1> QED BY <1>1, <1>3, <1>4, <1>5, <1>6, Besides DEF MovesOn

LEMMA RepackedSound ==
  ASSUME RInv, Watch, Repacked
  PROVE  RInv'
<1>1. PICK build : /\ out' = [out EXCEPT !.rarchive = {build}]
                   /\ job.pc # "idle" /\ out.rarchive # {}
                   /\ UNCHANGED << models, legal, index, inputs, job, blind >>
  BY DEF Repacked, At
<1>2. job.pc # "sidecar"
  BY <1>1 DEF RInv, Fresh, Nothing
<1>3. /\ OutShaped' /\ out'.prefix = out.prefix
      /\ out'.sidecar = out.sidecar /\ out'.admission = out.admission /\ out'.rsha = out.rsha
      /\ out'.rinv = out.rinv /\ out'.candlic = out.candlic /\ out'.qualified = out.qualified
      /\ out'.filled = out.filled /\ out'.stage = out.stage /\ out'.archive = out.archive
      /\ out'.inventory = out.inventory /\ out'.checksum = out.checksum
      /\ out'.rinput = out.rinput
  BY <1>1 DEF RInv, Shaped, OutShaped
<1>4. Shaped'
  BY <1>1, <1>3 DEF RInv, Shaped, JobShaped, LegalShaped, InputsShaped
<1>5. Fresh'
  BY <1>1, <1>2, <1>3 DEF RInv, Fresh, Reached
<1>6. Runtime'
  <2>1. SolvedBuild' = SolvedBuild /\ Prefix' = Prefix
    BY <1>3 DEF SolvedBuild, Prefix
  <2>2. \A b, d : CameFrom(b, d)' <=> CameFrom(b, d)
    BY <1>1 DEF CameFrom
  <2>3. \A b : Content(b)' = Content(b)
    BY <1>1 DEF Content
  <2>4. \A b, d : Declares(b, d) => Declares(b, d)'
    BY <1>1 DEF Declares
  <2> QED BY <1>1, <1>3, <2>1, <2>2, <2>3, <2>4 DEF RInv, Runtime, Reached
<1> QED BY <1>1, <1>3, <1>4, <1>5, <1>6, Besides DEF MovesOn

-----------------------------------------------------------------------------
(* Between two runs. *)

LEMMA NoRun ==
  ASSUME RInv, Watch, Shaped', job'.pc = "idle", job'.claim = job.claim,
         job'.place = job.place, out' = out, blind \subseteq blind'
  PROVE  RInv'
<1>1. \A inv \in out'.rinv : Reads(inv)
  BY DEF RInv, Runtime
<1>2. Shipped'
  BY ShippedStays DEF RInv
<1>3. out'.checksum # {} => together' /\ out'.checksum = out'.archive
  BY DEF RInv, Closed, Watch, Packed
<1> QED BY <1>1, <1>2, <1>3, Stopped

LEMMA SignsSound ==
  ASSUME RInv, Watch, SignReview \/ Declare \/ Supply \/ Approve
  PROVE  RInv'
<1>1. PICK value :
        /\ \/ legal' = [legal EXCEPT !.review = {value}]
           \/ legal' = [legal EXCEPT !.declared = value]
           \/ legal' = [legal EXCEPT !.supplement = value]
           \/ legal' = [legal EXCEPT !.approval = {value}]
        /\ job.pc = "idle" /\ UNCHANGED << models, index, inputs, job, out, blind >>
  BY DEF SignReview, Declare, Supply, Approve, Signs, At
<1>2. LegalShaped'
  BY <1>1 DEF RInv, Shaped, LegalShaped
<1>3. Shaped'
  BY <1>1, <1>2 DEF RInv, Shaped, JobShaped, OutShaped, InputsShaped
<1> QED BY <1>1, <1>3, NoRun

LEMMA ExportAnewSound ==
  ASSUME RInv, Watch, ExportAnew
  PROVE  RInv'
<1>1. PICK m : /\ m = Export(models.manifest.edition + 1, models.manifest.edition + 1, "linux",
                             models.manifest.terms, models.manifest.role)
               /\ models' = [manifest |-> m, artifact |-> models.manifest.edition + 1]
               /\ job.pc = "idle" /\ UNCHANGED << legal, index, inputs, job, out, blind >>
  BY DEF ExportAnew, At
<1>2. models'.manifest.edition = models.manifest.edition + 1
  BY <1>1 DEF Export
<1>3. Shaped'
  BY <1>1, <1>2 DEF RInv, Shaped, JobShaped, OutShaped, InputsShaped, LegalShaped
<1> QED BY <1>1, <1>3, NoRun

LEMMA KilledSound ==
  ASSUME RInv, Watch, Killed
  PROVE  RInv'
<1>1. /\ job' = [job EXCEPT !.pc = "idle"]
      /\ UNCHANGED << models, legal, index, inputs, out, blind >>
  BY DEF Killed
<1>2. JobShaped' /\ job'.pc = "idle" /\ job'.claim = job.claim /\ job'.place = job.place
  BY <1>1, Moves, AllPcs DEF RInv
<1>3. Shaped'
  BY <1>1, <1>2, AllPcs DEF RInv, Shaped, OutShaped, InputsShaped, LegalShaped
<1> QED BY <1>1, <1>2, <1>3, NoRun

LEMMA StartSound ==
  ASSUME RInv, Watch, NEW fresh, NEW place, NEW tokens, NEW allowMissing,
         Start(fresh, place, tokens, allowMissing)
  PROVE  RInv'
<1>1. /\ JobShaped' /\ job'.pc = "sidecar" /\ job'.claim = legal.review
  <2>1. job' = [ pc |-> "sidecar", place |-> place, claim |-> legal.review,
                 rclaim |-> legal.approval, tokens |-> tokens, allowMissing |-> allowMissing,
                 m |-> {}, i |-> 0 ]
    BY DEF Start
  <2> QED BY <2>1 DEF JobShaped
<1>2. /\ out' = Nothing /\ UNCHANGED << models, legal, index >>
      /\ inputs' = Clean \/ inputs' = inputs
  BY DEF Start
<1>3. /\ OutShaped' /\ out'.archive = {} /\ out'.prefix = {} /\ out'.rinv = {}
      /\ out'.admission = {} /\ out'.checksum = {} /\ out'.stage = << >>
  BY <1>2 DEF OutShaped, Nothing
<1>4. InputsShaped'
  BY <1>2 DEF RInv, Shaped, InputsShaped, Clean
<1>5. Shaped'
  BY <1>1, <1>2, <1>3, <1>4, AllPcs DEF RInv, Shaped, LegalShaped
<1>6. Fresh'
  BY <1>1, <1>2, <1>3 DEF Fresh
<1>7. /\ Claims' /\ Bindings' /\ Admitted' /\ Approvals' /\ Filled' /\ Stage'
  BY <1>1, Ranks DEF Claims, Bindings, Admitted, Approvals, Filled, Stage, Reached
<1>8. Runtime'
  BY <1>1, <1>3, Ranks DEF Runtime, Reached
<1>9. Shipped'
  BY <1>3 DEF Shipped
<1>10. Closed'
  <2>1. together' => Packed'
    BY DEF Watch
  <2> QED BY <1>1, <1>3, <2>1, Ranks DEF Closed, Reached
<1> QED BY <1>5, <1>6, <1>7, <1>8, <1>9, <1>10 DEF RInv

-----------------------------------------------------------------------------
(* The invariant is inductive. *)

LEMMA InitSound == Init => RInv
<1> SUFFICES ASSUME Init PROVE RInv
  OBVIOUS
<1>1. PICK m : /\ models = [manifest |-> m, artifact |-> 1] /\ m.edition = 1
               /\ index \in Builds
  <2>1. PICK terms, role : models = [manifest |-> Export(1, 1, "linux", terms, role),
                                     artifact |-> 1]
    BY DEF Init
  <2>2. PICK m : m = Export(1, 1, "linux", terms, role)
    OBVIOUS
  <2>3. m.edition = 1
    BY <2>2 DEF Export
  <2> QED BY <2>1, <2>2, <2>3 DEF Init
<1>2. /\ legal = [review |-> {}, declared |-> {}, approval |-> {}, supplement |-> << >>]
      /\ inputs = Clean /\ out = Nothing /\ together = FALSE
      /\ job = [pc |-> "idle", place |-> 0, claim |-> {}, rclaim |-> {}, tokens |-> FALSE,
                allowMissing |-> FALSE, m |-> {}, i |-> 0]
  BY DEF Init
<1>3. /\ JobShaped /\ InputsShaped /\ LegalShaped /\ job.pc = "idle" /\ job.claim = {}
  BY <1>2 DEF JobShaped, InputsShaped, Clean, LegalShaped
<1>4. OutShaped /\ out.archive = {} /\ out.rinv = {} /\ out.checksum = {}
  BY <1>2 DEF OutShaped, Nothing
<1>5. Shaped
  BY <1>1, <1>3, <1>4, AllPcs DEF Shaped
<1>6. /\ Fresh /\ Claims /\ Bindings /\ Admitted /\ Approvals /\ Filled /\ Stage
  BY <1>3, Ranks DEF Fresh, Claims, Bindings, Admitted, Approvals, Filled, Stage, Reached
<1>7. Runtime
  BY <1>3, <1>4, Ranks DEF Runtime, Reached
<1>8. Shipped
  BY <1>4 DEF Shipped
<1>9. Closed
  BY <1>2, <1>3, <1>4, Ranks DEF Closed, Reached
<1> QED BY <1>5, <1>6, <1>7, <1>8, <1>9 DEF RInv

LEMMA NothingChanges ==
  ASSUME RInv, UNCHANGED vars
  PROVE  RInv'
<1>1. Shaped'
  BY DEF vars, RInv, Shaped, JobShaped, OutShaped, InputsShaped, LegalShaped
<1>2. /\ Loaded' = Loaded /\ SolvedBuild' = SolvedBuild /\ Prefix' = Prefix
      /\ \A pc : Reached(pc)' <=> Reached(pc)
  BY DEF vars, Loaded, SolvedBuild, Prefix, Reached
<1>3. /\ \A m : WasThere(m)' <=> WasThere(m)
      /\ \A e, m : AdmittedOf(e, m)' <=> AdmittedOf(e, m)
      /\ \A b, x : CameFrom(b, x)' <=> CameFrom(b, x)
      /\ \A b : Content(b)' = Content(b)
      /\ \A b, d : Declares(b, d) => Declares(b, d)'
  BY DEF vars, WasThere, AdmittedOf, CameFrom, Content, Declares
<1>4. Fresh' /\ Claims' /\ Bindings' /\ Admitted'
  BY <1>2, <1>3 DEF vars, RInv, Fresh, Claims, Bindings, Admitted
<1>5. Runtime'
  BY <1>2, <1>3 DEF vars, RInv, Runtime
<1>6. Approvals' /\ Filled'
  BY <1>2 DEF vars, RInv, Approvals, Filled
<1>7. Stage'
  <2>1. ASSUME NEW f \in Files, Staged(f)
        PROVE  Staged(f)'
    BY <2>1, StagedStays DEF vars
  <2> QED BY <2>1 DEF vars, RInv, Stage
<1>8. Shipped'
  BY ShippedStays DEF vars, RInv
<1>9. Closed'
  BY <1>2 DEF vars, RInv, Closed, Packed
<1> QED BY <1>1, <1>4, <1>5, <1>6, <1>7, <1>8, <1>9 DEF RInv

LEMMA RunStepSound ==
  ASSUME RInv, Watch, RunStep
  PROVE  RInv'
<1>1. CASE FirstHalf
  BY <1>1, SidecarSound, LoadReviewSound, LoadManifestSound, ValidateArtifactSound, AdmitSound,
     PackSound, GenerateInputSound, CollectSound, UploadSound, GateSound, VerifyContentSound
     DEF FirstHalf
<1>2. CASE SecondHalf
  BY <1>2, BoundarySound, CollectCandidateSound, CheckRuntimeAgainSound, EvaluateSound,
     MaterializeEntriesSound, MaterializeMapSound, MaterializeMetadataSound, StageFileSound,
     WriteArchiveSound, WriteInventorySound, VerifySound, ChecksumSound
     DEF SecondHalf
<1> QED BY <1>1, <1>2 DEF RunStep

LEMMA NextSound ==
  ASSUME RInv, [Next]_vars
  PROVE  RInv'
<1>1. CASE RunStep /\ Watch
  BY <1>1, RunStepSound
<1>2. CASE People /\ Watch
  <2>1. CASE Answer
    BY <1>2, <2>1, SignsSound, ExportAnewSound DEF Answer
  <2>2. CASE Rerun
    BY <1>2, <2>2, StartSound DEF Rerun
  <2> QED BY <1>2, <2>1, <2>2 DEF People
<1>3. CASE Comes /\ Watch
  <2>1. CASE OddRun
    BY <1>3, <2>1, StartSound DEF OddRun
  <2>2. CASE ~OddRun
    BY <1>3, <2>2, ModelsSound, UpgradedSound, PrefixTouchedSound, RepackedSound,
       HalfReviewedSound, KilledSound DEF Comes
  <2> QED BY <2>1, <2>2
<1>4. CASE UNCHANGED vars
  BY <1>4, NothingChanges
<1> QED BY <1>1, <1>2, <1>3, <1>4 DEF Next

\* The invariant holds in every state of the lane, between its steps and between its runs.
THEOREM AlwaysRInv == Spec => []RInv
<1>1. RInv /\ [Next]_vars => RInv'
  BY NextSound
<1> QED BY <1>1, InitSound, PTL DEF Spec

-----------------------------------------------------------------------------
(* What the lane promises. *)

\* A candidate leaves as one that may be shipped only if all its terms permit it and one
\* review of every surface names this very candidate: admission.py loads the review before
\* the manifest, and the licence evidence is compared with the manifest of the export, so
\* no other edition can come between.
THEOREM EligibleReviewed == Spec => []EligibleWasReviewed
<1>1. RInv => EligibleWasReviewed
  BY DEF RInv, Shipped, EligibleWasReviewed
<1> QED BY <1>1, AlwaysRInv, PTL

\* The files of one archive are of one candidate and one runtime, and there is a checksum
\* only of an archive all of whose files stood on disk together (package.py).
THEOREM CarriesAdmitted == Spec => []CarriesWhatWasAdmitted
<1>1. ASSUME RInv
      PROVE  CarriesWhatWasAdmitted
  <2>1. ASSUME NEW f \in Carried
        PROVE  \E a \in out.archive : f = a.files
    BY DEF Carried
  <2> QED BY <1>1, <2>1 DEF RInv, Shipped, Closed, CarriesWhatWasAdmitted
<1> QED BY <1>1, AlwaysRInv, PTL

\* The runtime that is carried is the one whose inventory a human approved and in which the
\* candidate was verified (licenses.py, ci-p25-6-qualify.sh).
THEOREM RuntimeReviewed == Spec => []RuntimeIsReviewed
<1>1. ASSUME RInv
      PROVE  RuntimeIsReviewed
  <2>1. ASSUME NEW f \in Carried
        PROVE  \E a \in out.archive : f = a.files
    BY DEF Carried
  <2> QED BY <1>1, <2>1 DEF RInv, Shipped, RuntimeIsReviewed, Content
<1> QED BY <1>1, AlwaysRInv, PTL

\* Every package of the carried runtime stands over its own licence text, and no record of
\* an inventory joins what was read of two packages (licenses.py, collect_runtime).
THEOREM PackagesCredited == Spec => []EveryPackageCredited
<1>1. ASSUME RInv
      PROVE  EveryPackageCredited
  <2>1. ASSUME NEW f \in Carried
        PROVE  \E a \in out.archive : f = a.files
    BY DEF Carried
  <2>2. ASSUME NEW f \in Carried, "prefix" \notin blind,
               NEW b \in f["runtime"], NEW inv \in f["credits"]
        PROVE  Credits(b, inv)
    BY <1>1, <2>1, <2>2 DEF RInv, Shipped
  <2>3. ASSUME NEW inv \in out.rinv
        PROVE  Reads(inv)
    BY <1>1 DEF RInv, Runtime
  <2> QED BY <2>2, <2>3 DEF Credits, Reads, Universe, EveryPackageCredited
<1> QED BY <1>1, AlwaysRInv, PTL
=============================================================================
