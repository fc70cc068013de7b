--------------------------- MODULE RuntimeLicences ---------------------------
(***************************************************************************)
(* licenses.py, the runtime half: from an unpacked conda environment to an *)
(* inventory of its packages that a human approves, and back from the      *)
(* approved inventory to an environment that may be carried.               *)
(*                                                                         *)
(* A build is what the solver and conda-pack produce; a prefix is a build  *)
(* unpacked at a place.  A hash is the value itself, so two documents have *)
(* one hash exactly when they are equal.  An operator that may refuse      *)
(* returns a set: empty, or the one document it produces.                  *)
(***************************************************************************)
EXTENDS FiniteSets

\* A package is a record of source ("conda" or "pip"), name, version, licence, metadata
\* (the bytes of its record) and text (the licence text that it brings).
NoText  == "no text"
Unknown == "unknown"
Id(p)   == << p.source, p.name, p.version >>

\* conda-unpack rewrites the place that the files mention; Python leaves caches behind.
Unpacked(build, place) ==
  [build |-> build, at |-> place, mentions |-> place, caches |-> FALSE]

Lock(build) == { Id(p) : p \in build.conda }

\* A dist-info of a package that conda installed is not a package of its own.
Wheels(prefix) ==
  { w \in prefix.build.dists :
      \A c \in prefix.build.conda : << c.name, c.version >> # << w.name, w.version >> }

Installed(prefix) == prefix.build.conda \cup Wheels(prefix)

\* ONNX Runtime and the native bridge are no packages; their payloads are hashed.
Components(prefix) == [ort |-> prefix.build.ort, bridge |-> prefix.build.bridge]

\* Every package is in the lock and every entry of the lock is there; no licence is guessed.
Readable(prefix, lock) ==
  /\ Lock(prefix.build) = lock
  /\ \A p \in Installed(prefix) : p.licence # Unknown

-----------------------------------------------------------------------------
(* generate-runtime-input: where the licence text of each package comes from. *)

Bare(prefix) == { Id(p) : p \in { q \in Installed(prefix) : q.text = NoText } }

TextOf(p, supplement) == IF p.text # NoText THEN p.text ELSE supplement[Id(p)]

\* Only a wheel's own record is bound: conda's packages are bound by the lock.
Declaration(p, supplement) ==
  [ id       |-> Id(p),
    metadata |-> IF p.source = "pip" THEN p.metadata ELSE "by the lock",
    text     |-> TextOf(p, supplement) ]

\* A package without a text must be in the supplement, and nothing else may be.
generate_runtime_input(prefix, lock, supplement) ==
  IF ~Readable(prefix, lock) \/ Bare(prefix) # DOMAIN supplement THEN {}
  ELSE { [ lock       |-> lock,
           declared   |-> { Declaration(p, supplement) : p \in Installed(prefix) },
           components |-> Components(prefix) ] }

-----------------------------------------------------------------------------
(* runtime: the inventory and the texts that are carried. *)

\* conda-meta and the caches are not part of what is compared; the prefix's own place is
\* replaced wherever a file mentions it.
\* Bug variant: files that mention the prefix are compared as they are.
runtime_content_identity_KeepsPlace(prefix) ==
  [ dists |-> prefix.build.dists, ort |-> prefix.build.ort, bridge |-> prefix.build.bridge,
    rest |-> prefix.build.rest, mentions |-> prefix.mentions ]
runtime_content_identity(prefix) ==
  [ dists    |-> prefix.build.dists,
    ort      |-> prefix.build.ort,
    bridge   |-> prefix.build.bridge,
    rest     |-> prefix.build.rest,
    mentions |-> IF prefix.mentions = prefix.at THEN "the prefix" ELSE prefix.mentions ]

\* The declarations are those of exactly the installed packages, and every wheel is the
\* one that was declared.
Covers(input, prefix) ==
  /\ { d.id : d \in input.declared } = { Id(p) : p \in Installed(prefix) }
  /\ \A w \in Wheels(prefix) : \E d \in input.declared :
       d.id = Id(w) /\ d.metadata = w.metadata

\* One text may be that of many packages: the header over it names all of them.
\* Bug variant: only the first one's licence is named.
Aggregate_FirstOnly(records) ==
  [ t \in { r.text : r \in records } |->
      LET first == CHOOSE r \in records : r.text = t
      IN  [ packages |-> { r.id : r \in { s \in records : s.text = t } },
            licences |-> { first.licence } ] ]
Aggregate(records) ==
  [ t \in { r.text : r \in records } |->
      LET same == { r \in records : r.text = t }
      IN  [ packages |-> { r.id : r \in same },
            licences |-> { r.licence : r \in same } ] ]

collect_runtime(prefix, lock, input) ==
  IF \/ ~Readable(prefix, lock) \/ input.lock # lock
     \/ input.components # Components(prefix)
     \/ ~Covers(input, prefix)
  THEN {}
  ELSE LET records == { [ id       |-> Id(p),
                          licence  |-> p.licence,
                          metadata |-> p.metadata,
                          text     |-> (CHOOSE d \in input.declared : d.id = Id(p)).text ] :
                          p \in Installed(prefix) }
       IN  { [ lock       |-> lock,
               packages   |-> records,
               components |-> input.components,
               content    |-> runtime_content_identity(prefix),
               texts      |-> Aggregate(records) ] }

-----------------------------------------------------------------------------
(* The two halves of the human gate. *)

\* The review is the file the operator named, and it approves this very inventory.
\* Bug variant: the review is not compared with the inventory.
validate_runtime_review_AnyInventory(review, claim, inventory) ==
  review = claim /\ review.reviewed
validate_runtime_review(review, claim, inventory) ==
  /\ review = claim
  /\ review.reviewed
  /\ review.inventory = inventory

verify_runtime_content(prefix, inventory) ==
  /\ runtime_content_identity(prefix) = inventory.content
  /\ Components(prefix) = inventory.components
=============================================================================
