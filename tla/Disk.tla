--------------------------------- MODULE Disk ---------------------------------
(***************************************************************************)
(* The POSIX file system under the bake-off tools (external to src/): what *)
(* mkdir, link, os.replace and fsync of a directory do, and what survives  *)
(* when the machine loses power.  A path is a sequence of names; a         *)
(* directory tree maps the paths that exist to their contents.             *)
(*   seen   the tree every process sees                                    *)
(*   kept   the entries an fsync of their directory has made durable       *)
(* The tools write a whole temporary file and fsync it before they name    *)
(* it, so a name never shows part of a file.                               *)
(***************************************************************************)
EXTENDS Integers, Sequences, SequencesExt

Dir == [kind |-> "dir"]

Write(tree, path, content) ==
  [p \in DOMAIN tree \cup {path} |-> IF p = path THEN content ELSE tree[p]]

Without(tree, path) == [p \in DOMAIN tree \ {path} |-> tree[p]]

Exists(tree, path) == path \in DOMAIN tree

Durable(tree) == [seen |-> tree, kept |-> tree]

(* A path is reachable when every directory above it is. *)
Reachable(tree, path) == \A n \in 1..Len(path) - 1 : SubSeq(path, 1, n) \in DOMAIN tree

Pruned(tree) == [p \in {q \in DOMAIN tree : Reachable(tree, q)} |-> tree[p]]

Children(tree, dir) == {p \in DOMAIN tree : Len(p) = Len(dir) + 1 /\ Front(p) = dir}

-----------------------------------------------------------------------------
(* mkdir, os.replace and (when nothing has the name yet) os.link. *)
Named(disk, path, content) == [disk EXCEPT !.seen = Write(@, path, content)]

Unnamed(disk, path) == [disk EXCEPT !.seen = Without(@, path)]

(* fsync of a directory makes its entries durable, not those above or below. *)
Synced(disk, dir) ==
  LET entry   == {p \in DOMAIN disk.seen \cup DOMAIN disk.kept :
                    Len(p) = Len(dir) + 1 /\ Front(p) = dir}
      present == (DOMAIN disk.kept \ entry) \cup (entry \cap DOMAIN disk.seen)
  IN  [disk EXCEPT !.kept =
         [p \in present |-> IF p \in entry THEN disk.seen[p] ELSE disk.kept[p]]]

SameEntry(disk, path) ==
  /\ path \in DOMAIN disk.seen /\ path \in DOMAIN disk.kept
  /\ disk.seen[path] = disk.kept[path]

Unsettled(disk) ==
  {p \in DOMAIN disk.seen \cup DOMAIN disk.kept : ~SameEntry(disk, p)}

(* After a power loss an entry that was not synced shows its old or its new *)
(* state, independently of the others; what lost its directory is gone.     *)
AfterPowerLoss(disk) ==
  LET Settled(new) ==
        LET from(p) == IF p \in new THEN disk.seen ELSE disk.kept
            there   == {p \in DOMAIN disk.seen \cup DOMAIN disk.kept : p \in DOMAIN from(p)}
        IN  [p \in there |-> from(p)[p]]
  IN  {Durable(Pruned(Settled(new))) : new \in SUBSET Unsettled(disk)}
=============================================================================
