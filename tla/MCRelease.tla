------------------------------ MODULE MCRelease ------------------------------
(* Instances of Release small enough for TLC. *)
EXTENDS Release

Clear   == [s \in Surfaces |-> [commercial |-> "yes", redistribution |-> "yes"]]
Unclear == [Clear EXCEPT !["backbone"].redistribution = "unknown"]
MCTermSets == {Clear, Unclear}

\* Two packages with one text under two names of its licence, and one without a text.
Package(source, name, licence, metadata, text) ==
  [ source |-> source, name |-> name, version |-> 1, licence |-> licence,
    metadata |-> metadata, text |-> text ]
Zlib    == Package("conda", "zlib", "Zlib", "z", "zlib text")
Numpy   == Package("conda", "numpy", "BSD-3-Clause", "n", "bsd text")
Pynvml  == Package("pip", "pynvml", "BSD", "p", "bsd text")
Rebuilt == Package("pip", "pynvml", "BSD", "q", "other text")
Bare1   == Package("conda", "tzdata", "CC0", "t", NoText)

Build(conda, dists) ==
  [conda |-> conda, dists |-> dists, ort |-> "ort", bridge |-> "bridge", rest |-> "rest"]
MCBuilds  == { Build({Numpy, Bare1}, {Numpy, Pynvml}),
               Build({Numpy, Zlib}, {Numpy, Pynvml}) }
MCPatches == {Rebuilt}
=============================================================================
