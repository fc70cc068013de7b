------------------------- MODULE ArtifactStoreProofs -------------------------
(***************************************************************************)
(* The artifact store for any number of runners, cells, files, attempts,   *)
(* failures, crashes and power losses under a durable run root: every      *)
(* reference that a pointer shows or a caller was given loads, for ever.   *)
(* That nobody is shut out holds wherever power may fail.                  *)
(***************************************************************************)
EXTENDS ArtifactStore, SequenceTheorems, TLAPS

-----------------------------------------------------------------------------
(* Paths: what lies in what, and which ones are the same. *)

Names ==
  {"artifacts", "root", "identity", "cells", "attempts", "manifests", "committed"}
    \cup Cells \cup Nat \cup Files
Path == Seq(Names)
Level(n) == {p \in Path : Len(p) = n}

FilePath(c, a, f) == AttemptDir(c, a) \o <<f>>

(* What a generation consists of: the entries that only its own attempt      *)
(* makes, and the directories they lie in.                                   *)
Own(c, a) == {ManifestPath(c, a)} \cup {FilePath(c, a, f) : f \in Files}
Dirs(c, a) == {CellDir(c), Attempts(c), Manifests(c), AttemptDir(c, a)}

Under(d, x) == d \o <<x>>
Above(p, n) == SubSeq(p, 1, n)

LEMMA Extended ==
  ASSUME NEW n \in Nat, NEW m \in Nat, m = n + 1, NEW d \in Level(n), NEW x \in Names
  PROVE  Under(d, x) \in Level(m) /\ Front(Under(d, x)) = d /\ Last(Under(d, x)) = x
<1> DEFINE p == d \o <<x>>
<1>1. <<x>> \in Seq(Names) /\ Len(<<x>>) = 1 /\ <<x>>[1] = x /\ d \in Seq(Names) /\ Len(d) = n
  BY DEF Level, Path
<1>2. /\ p \in Seq(Names) /\ Len(p) = n + 1 /\ p[n + 1] = x
      /\ \A i \in 1..n : p[i] = d[i]
  BY <1>1, ConcatProperties
<1>3. Front(p) \in Seq(Names) /\ Len(Front(p)) = n
      /\ \A i \in 1..n : Front(p)[i] = p[i]
  <2>1. \A i \in 1..Len(p) - 1 : p[i] \in Names
    BY <1>2, ElementOfSeq
  <2> HIDE DEF p
  <2> QED BY <1>2, <2>1, SubSeqProperties DEF Front
<1> HIDE DEF p
<1>4. Front(p) = d
  BY <1>1, <1>2, <1>3, SeqEqual
<1> QED BY <1>1, <1>2, <1>4 DEF Last, p, Under, Level, Path

LEMMA ReachableStep ==
  ASSUME NEW tree, NEW n \in Nat, NEW d \in Level(n), NEW x \in Names,
         d \in DOMAIN tree, Reachable(tree, d)
  PROVE  Reachable(tree, Under(d, x))
<1> DEFINE p == d \o <<x>>
<1>1. <<x>> \in Seq(Names) /\ Len(<<x>>) = 1 /\ d \in Seq(Names) /\ Len(d) = n
  BY DEF Level, Path
<1>2. p \in Seq(Names) /\ Len(p) = n + 1
  BY <1>1, ConcatProperties
<1>3. \A i \in 1..n : Above(p, i) = Above(d, i)
  BY <1>1, SubSeqOfConcat1 DEF Above
<1>4. Above(d, n) = d
  BY <1>1, SubSeqFull DEF Above
<1>5. \A i \in 1..n - 1 : Above(d, i) \in DOMAIN tree
  BY <1>1 DEF Reachable, Above
<1> HIDE DEF p
<1>6. \A i \in 1..Len(p) - 1 : Above(p, i) \in DOMAIN tree
  BY <1>2, <1>3, <1>4, <1>5
<1> QED BY <1>6 DEF Reachable, Above, Under, p

LEMMA PathsUnder ==
  /\ Root = Under(Parent, "root")
  /\ Identity = Under(Root, "identity") /\ CellsDir = Under(Root, "cells")
  /\ \A c, a, f :
       /\ CellDir(c) = Under(CellsDir, c)
       /\ Attempts(c) = Under(CellDir(c), "attempts")
       /\ Manifests(c) = Under(CellDir(c), "manifests")
       /\ Pointer(c) = Under(CellDir(c), "committed")
       /\ AttemptDir(c, a) = Under(Attempts(c), a)
       /\ ManifestPath(c, a) = Under(Manifests(c), a)
       /\ FilePath(c, a, f) = Under(AttemptDir(c, a), f)
BY DEF Root, Identity, CellsDir, CellDir, Attempts, Manifests, Pointer, AttemptDir, ManifestPath,
       FilePath, Under

LEMMA TopPaths ==
  /\ Parent \in Level(1)
  /\ Root \in Level(2) /\ Front(Root) = Parent
  /\ Identity \in Level(3) /\ Front(Identity) = Root /\ Last(Identity) = "identity"
  /\ CellsDir \in Level(3) /\ Front(CellsDir) = Root /\ Last(CellsDir) = "cells"
<1>1. Parent \in Level(1)
  BY DEF Parent, Path, Names, Level
<1>2. "root" \in Names /\ "identity" \in Names /\ "cells" \in Names
  BY DEF Names
<1>3. Root \in Level(2) /\ Front(Root) = Parent
  BY <1>1, <1>2, Extended, PathsUnder
<1> QED BY <1>1, <1>2, <1>3, Extended, PathsUnder

LEMMA CellPaths ==
  ASSUME NEW c \in Cells, NEW a \in Nat
  PROVE  /\ CellDir(c) \in Level(4)
         /\ Front(CellDir(c)) = CellsDir /\ Last(CellDir(c)) = c
         /\ Attempts(c) \in Level(5)
         /\ Front(Attempts(c)) = CellDir(c) /\ Last(Attempts(c)) = "attempts"
         /\ Manifests(c) \in Level(5)
         /\ Front(Manifests(c)) = CellDir(c) /\ Last(Manifests(c)) = "manifests"
         /\ Pointer(c) \in Level(5)
         /\ Front(Pointer(c)) = CellDir(c) /\ Last(Pointer(c)) = "committed"
         /\ AttemptDir(c, a) \in Level(6)
         /\ Front(AttemptDir(c, a)) = Attempts(c) /\ Last(AttemptDir(c, a)) = a
         /\ ManifestPath(c, a) \in Level(6)
         /\ Front(ManifestPath(c, a)) = Manifests(c) /\ Last(ManifestPath(c, a)) = a
         /\ \A f \in Files :
              /\ FilePath(c, a, f) \in Level(7)
              /\ Front(FilePath(c, a, f)) = AttemptDir(c, a) /\ Last(FilePath(c, a, f)) = f
<1> DEFINE OneMore(n, m) ==
             \A d \in Level(n), x \in Names :
               /\ Under(d, x) \in Level(m)
               /\ Front(Under(d, x)) = d /\ Last(Under(d, x)) = x
<1>0. OneMore(3, 4) /\ OneMore(4, 5) /\ OneMore(5, 6) /\ OneMore(6, 7)
  BY Extended
<1>1. /\ c \in Names /\ a \in Names /\ \A f \in Files : f \in Names
      /\ "attempts" \in Names /\ "manifests" \in Names /\ "committed" \in Names
  BY DEF Names
<1>9. /\ CellDir(c) = Under(CellsDir, c)
      /\ Attempts(c) = Under(CellDir(c), "attempts")
      /\ Manifests(c) = Under(CellDir(c), "manifests")
      /\ Pointer(c) = Under(CellDir(c), "committed")
      /\ AttemptDir(c, a) = Under(Attempts(c), a)
      /\ ManifestPath(c, a) = Under(Manifests(c), a)
  BY PathsUnder
<1>2. CellDir(c) \in Level(4) /\ Front(CellDir(c)) = CellsDir /\ Last(CellDir(c)) = c
  BY <1>1, <1>9, TopPaths, <1>0
<1>10. \A x \in Names : /\ Under(CellDir(c), x) \in Level(5)
                      /\ Front(Under(CellDir(c), x)) = CellDir(c)
                      /\ Last(Under(CellDir(c), x)) = x
  BY <1>0, <1>2
<1>3. /\ Attempts(c) \in Level(5)
      /\ Front(Attempts(c)) = CellDir(c) /\ Last(Attempts(c)) = "attempts"
  BY <1>1, <1>10, <1>9
<1>4. /\ Manifests(c) \in Level(5)
      /\ Front(Manifests(c)) = CellDir(c) /\ Last(Manifests(c)) = "manifests"
  BY <1>1, <1>10, <1>9
<1>5. /\ Pointer(c) \in Level(5)
      /\ Front(Pointer(c)) = CellDir(c) /\ Last(Pointer(c)) = "committed"
  BY <1>1, <1>10, <1>9
<1>6. /\ AttemptDir(c, a) \in Level(6)
      /\ Front(AttemptDir(c, a)) = Attempts(c) /\ Last(AttemptDir(c, a)) = a
  BY <1>1, <1>3, <1>9, <1>0
<1>7. /\ ManifestPath(c, a) \in Level(6)
      /\ Front(ManifestPath(c, a)) = Manifests(c) /\ Last(ManifestPath(c, a)) = a
  BY <1>1, <1>4, <1>9, <1>0
<1>8. ASSUME NEW f \in Files
      PROVE  /\ FilePath(c, a, f) \in Level(7)
             /\ Front(FilePath(c, a, f)) = AttemptDir(c, a) /\ Last(FilePath(c, a, f)) = f
  <2>1. FilePath(c, a, f) = Under(AttemptDir(c, a), f)
    BY PathsUnder
  <2>2. f \in Names /\ AttemptDir(c, a) \in Level(6)
    BY <1>1, <1>6
  <2> QED BY <1>0, <2>1, <2>2
<1> QED BY <1>2, <1>3, <1>4, <1>5, <1>6, <1>7, <1>8

(* Two generations have nothing of their own in common, and what is of one's *)
(* own is neither a directory nor a pointer nor at the top of the store.     *)
LEMMA Apart ==
  ASSUME NEW c \in Cells, NEW a \in Nat
  PROVE  /\ \A p \in Own(c, a) :
              /\ p \in Path /\ Len(p) \in {6, 7}
              /\ p \notin {Parent, Root, Identity, CellsDir}
              /\ \A d \in Cells, b \in Nat :
                   p \notin Dirs(d, b) /\ p # Pointer(d) /\ (p \in Own(d, b) => c = d /\ a = b)
         /\ \A d \in Cells :
              /\ Pointer(d) \notin Own(c, a) \cup Dirs(c, a)
              /\ Pointer(d) \notin {Parent, Root, Identity, CellsDir}
              /\ Pointer(d) = Pointer(c) => c = d
         /\ \A p \in Dirs(c, a) : p \notin {Parent, Root, Identity, CellsDir}
<1>1. \A f \in Files : Len(FilePath(c, a, f)) = 7 /\ FilePath(c, a, f) \in Path
  BY CellPaths DEF Level
<1>2. \A d \in Cells, b \in Nat : \A p \in Own(d, b) :
        /\ p \in Path
        /\ \/ p = ManifestPath(d, b) /\ Len(p) = 6
           \/ Len(p) = 7 /\ Front(p) = AttemptDir(d, b)
  BY CellPaths DEF Own, Level
<1>3. \A d \in Cells, b \in Nat :
        /\ ManifestPath(c, a) = ManifestPath(d, b) => c = d /\ a = b
        /\ AttemptDir(c, a) = AttemptDir(d, b) => c = d /\ a = b
  BY CellPaths DEF Level
<1>4. \A d \in Cells, b \in Nat : ManifestPath(c, a) # AttemptDir(d, b)
  <2> TAKE d \in Cells, b \in Nat
  <2>1. Front(ManifestPath(c, a)) = Manifests(c) /\ Front(AttemptDir(d, b)) = Attempts(d)
    BY CellPaths DEF Level
  <2>2. Last(Manifests(c)) = "manifests" /\ Last(Attempts(d)) = "attempts"
    BY CellPaths DEF Level
  <2> QED BY <2>1, <2>2
<1>5. \A d \in Cells, b \in Nat : \A p \in Dirs(d, b) :
        Len(p) \in {4, 5} \/ (p = AttemptDir(d, b) /\ Len(p) = 6)
  BY CellPaths DEF Dirs, Level
<1>6. \A p \in {Parent, Root, Identity, CellsDir} : Len(p) \in {1, 2, 3}
  BY TopPaths DEF Level
<1>7. \A d \in Cells : Len(Pointer(d)) = 5 /\ Front(Pointer(d)) = CellDir(d)
                       /\ Last(Pointer(d)) = "committed" /\ Last(CellDir(d)) = d
  BY CellPaths DEF Level
<1>8. ASSUME NEW p \in Own(c, a), NEW d \in Cells, NEW b \in Nat
      PROVE  p \notin Dirs(d, b) /\ p # Pointer(d) /\ (p \in Own(d, b) => c = d /\ a = b)
  <2>1. p \notin Dirs(d, b) /\ p # Pointer(d)
    BY <1>2, <1>4, <1>5, <1>7
  <2>2. ASSUME p \in Own(d, b) PROVE c = d /\ a = b
    <3>1. \/ p = ManifestPath(d, b) /\ Len(p) = 6
          \/ Len(p) = 7 /\ Front(p) = AttemptDir(d, b)
      BY <2>2, <1>2
    <3> QED BY <1>2, <1>3, <3>1
  <2> QED BY <2>1, <2>2
<1>9. ASSUME NEW d \in Cells
      PROVE  /\ Pointer(d) \notin Own(c, a) \cup Dirs(c, a)
             /\ Pointer(d) \notin {Parent, Root, Identity, CellsDir}
             /\ Pointer(d) = Pointer(c) => c = d
  <2>1. Pointer(d) \notin Own(c, a)
    BY <1>2, <1>7
  <2>2. Pointer(d) \notin Dirs(c, a)
    <3>1. /\ Len(CellDir(c)) = 4 /\ Len(AttemptDir(c, a)) = 6
          /\ Last(Attempts(c)) = "attempts" /\ Last(Manifests(c)) = "manifests"
      BY CellPaths DEF Level
    <3> QED BY <1>7, <3>1 DEF Dirs
  <2> QED BY <1>6, <1>7, <2>1, <2>2
<1> QED BY <1>2, <1>5, <1>6, <1>8, <1>9
-----------------------------------------------------------------------------
(* The file system. *)
WellFormed(d) ==
  /\ d = [seen |-> d.seen, kept |-> d.kept]
  /\ DOMAIN d.kept \subseteq DOMAIN d.seen

(* Naming an entry changes that one, in the seen tree only. *)
LEMMA NamedDisk ==
  ASSUME NEW d, WellFormed(d), NEW p, NEW x, NEW e, e = Named(d, p, x)
  PROVE  /\ WellFormed(e) /\ e.kept = d.kept
         /\ DOMAIN e.seen = DOMAIN d.seen \cup {p}
         /\ e.seen[p] = x
         /\ \A q \in DOMAIN d.seen : q # p => e.seen[q] = d.seen[q]
         /\ \A q : (SameEntry(d, q) /\ q # p) => SameEntry(e, q)
<1>1. e = [seen |-> Write(d.seen, p, x), kept |-> d.kept]
  BY DEF WellFormed, Named
<1>2. /\ DOMAIN e.seen = DOMAIN d.seen \cup {p} /\ e.seen[p] = x
      /\ \A q \in DOMAIN d.seen : q # p => e.seen[q] = d.seen[q]
  BY <1>1 DEF Write
<1> QED BY <1>1, <1>2 DEF WellFormed, SameEntry

(* An fsync settles the entries of its directory and unsettles none. *)
LEMMA SyncedDisk ==
  ASSUME NEW d, WellFormed(d), NEW dir, NEW e, e = Synced(d, dir)
  PROVE  /\ WellFormed(e) /\ e.seen = d.seen
         /\ \A q : SameEntry(d, q) => SameEntry(e, q)
         /\ \A q \in DOMAIN d.seen :
              (Len(q) = Len(dir) + 1 /\ Front(q) = dir) => SameEntry(e, q)
         /\ DOMAIN d.kept \subseteq DOMAIN e.kept
         /\ \A q \in DOMAIN e.kept :
              e.kept[q] = d.seen[q] \/ (q \in DOMAIN d.kept /\ e.kept[q] = d.kept[q])
<1> DEFINE entry   == {q \in DOMAIN d.seen \cup DOMAIN d.kept :
                         Len(q) = Len(dir) + 1 /\ Front(q) = dir}
           present == (DOMAIN d.kept \ entry) \cup (entry \cap DOMAIN d.seen)
           kept    == [q \in present |-> IF q \in entry THEN d.seen[q] ELSE d.kept[q]]
<1>1. e = [seen |-> d.seen, kept |-> kept]
  BY DEF WellFormed, Synced
<1>2. /\ DOMAIN e.kept = present
      /\ \A q \in present : e.kept[q] = IF q \in entry THEN d.seen[q] ELSE d.kept[q]
  BY <1>1
<1>3. \A q \in DOMAIN d.seen :
        (Len(q) = Len(dir) + 1 /\ Front(q) = dir) => q \in entry /\ q \in present
  OBVIOUS
<1>4. present \subseteq DOMAIN d.seen /\ \A q \in present : q \notin entry => q \in DOMAIN d.kept
  BY DEF WellFormed
<1>5. \A q \in DOMAIN d.kept : q \in present
  BY DEF WellFormed
<1> HIDE DEF entry, present, kept
<1>6. e.seen = d.seen
  BY <1>1
<1> QED BY <1>1, <1>2, <1>3, <1>4, <1>5, <1>6 DEF WellFormed, SameEntry

(* The same, by what is settled and by what is kept. *)
LEMMA SyncedSettles ==
  ASSUME NEW d, WellFormed(d), NEW dir, NEW e, e = Synced(d, dir)
  PROVE  /\ e.seen = d.seen
         /\ \A q : SameEntry(d, q) => SameEntry(e, q)
         /\ \A q \in DOMAIN d.seen :
              (Len(q) = Len(dir) + 1 /\ Front(q) = dir) => SameEntry(e, q)
BY SyncedDisk

LEMMA SyncedKeeps ==
  ASSUME NEW d, WellFormed(d), NEW dir, NEW e, e = Synced(d, dir)
  PROVE  /\ WellFormed(e) /\ e.seen = d.seen
         /\ \A q \in DOMAIN e.kept :
              e.kept[q] = d.seen[q] \/ (q \in DOMAIN d.kept /\ e.kept[q] = d.kept[q])
<1>1. WellFormed(e) /\ e.seen = d.seen
  BY SyncedDisk
<1>2. ASSUME NEW q \in DOMAIN e.kept
      PROVE  e.kept[q] = d.seen[q] \/ (q \in DOMAIN d.kept /\ e.kept[q] = d.kept[q])
  BY SyncedDisk
<1> QED BY <1>1, <1>2

(* After a power loss there is nothing new, every entry has its old or its   *)
(* new content, and what was settled below settled directories is as it was. *)
LEMMA PowerLossDisk ==
  ASSUME NEW d, WellFormed(d), NEW e \in AfterPowerLoss(d)
  PROVE  /\ WellFormed(e) /\ e.kept = e.seen
         /\ DOMAIN e.seen \subseteq DOMAIN d.seen
         /\ \A q \in DOMAIN e.seen :
              \/ e.seen[q] = d.seen[q]
              \/ q \in DOMAIN d.kept /\ e.seen[q] = d.kept[q]
         /\ \A q : (SameEntry(d, q) /\ q \in DOMAIN e.seen) => e.seen[q] = d.seen[q]
         /\ \A q \in DOMAIN d.kept : Reachable(d.kept, q) => q \in DOMAIN e.seen
<1> DEFINE From(new, q) == IF q \in new THEN d.seen ELSE d.kept
           There(new) == {q \in DOMAIN d.seen \cup DOMAIN d.kept : q \in DOMAIN From(new, q)}
           Tree(new)  == [q \in There(new) |-> From(new, q)[q]]
<1>1. PICK new \in SUBSET Unsettled(d) : e = Durable(Pruned(Tree(new)))
  BY DEF AfterPowerLoss
<1> DEFINE t == Tree(new)
<1>2. /\ DOMAIN t \subseteq DOMAIN d.seen
      /\ DOMAIN d.kept \subseteq DOMAIN t
  BY DEF WellFormed
<1>3. \A q \in DOMAIN t :
        /\ t[q] = d.seen[q] \/ (q \in DOMAIN d.kept /\ t[q] = d.kept[q])
        /\ SameEntry(d, q) => t[q] = d.seen[q]
  BY DEF WellFormed, SameEntry
<1>4. \A q : Reachable(d.kept, q) => Reachable(t, q)
  BY <1>2 DEF Reachable
<1> HIDE DEF t
<1>5. /\ e = [seen |-> Pruned(t), kept |-> Pruned(t)]
      /\ DOMAIN Pruned(t) = {q \in DOMAIN t : Reachable(t, q)}
      /\ \A q \in DOMAIN Pruned(t) : Pruned(t)[q] = t[q]
  BY <1>1 DEF Durable, Pruned, t
<1> QED BY <1>2, <1>3, <1>4, <1>5 DEF WellFormed

(* A step of somebody else: it takes nothing away, unsettles nothing of the  *)
(* generation, and neither makes nor changes an entry of its own.            *)
Leaves(d, e, c, a) ==
  /\ DOMAIN d.seen \subseteq DOMAIN e.seen
  /\ \A p \in Own(c, a) \cup Dirs(c, a) : SameEntry(d, p) => SameEntry(e, p)
  /\ \A p \in Own(c, a) :
       /\ p \in DOMAIN e.seen => p \in DOMAIN d.seen
       /\ p \in DOMAIN d.seen => e.seen[p] = d.seen[p]

LEMMA NamedLeaves ==
  ASSUME NEW d, WellFormed(d), NEW p, NEW x, NEW e, e = Named(d, p, x),
         NEW c, NEW a, p \notin Own(c, a), p \in Dirs(c, a) => p \notin DOMAIN d.seen
  PROVE  Leaves(d, e, c, a)
<1>1. \A q \in Own(c, a) \cup Dirs(c, a) : SameEntry(d, q) => q # p
  BY DEF SameEntry
<1> QED BY <1>1, NamedDisk DEF Leaves

LEMMA SyncedLeaves ==
  ASSUME NEW d, WellFormed(d), NEW dir, NEW e, e = Synced(d, dir), NEW c, NEW a
  PROVE  Leaves(d, e, c, a)
BY SyncedDisk DEF Leaves

-----------------------------------------------------------------------------
(* The inductive invariant.                                                  *)

(* What an attempt is between two methods of it: all that it made is settled *)
(* and its manifest does not exist.                                          *)
DirsSettled(d, c, a) == \A p \in Dirs(c, a) : SameEntry(d, p)

FilesSettled(d, c, a) ==
  \A f \in Files : FilePath(c, a, f) \in DOMAIN d.seen => SameEntry(d, FilePath(c, a, f))

Unpublished(d, c, a) == ManifestPath(c, a) \notin DOMAIN d.seen

Ready(d, c, a) == DirsSettled(d, c, a) /\ FilesSettled(d, c, a) /\ Unpublished(d, c, a)

(* What a generation is once its manifest is durable. *)
Generation(d, c, a, files) ==
  /\ Identity \in DOMAIN d.seen
  /\ DirsSettled(d, c, a) /\ FilesSettled(d, c, a)
  /\ FilesOf(d.seen, c, a) = files
  /\ SameEntry(d, ManifestPath(c, a))
  /\ d.seen[ManifestPath(c, a)] = Manifest(c, a, files)

(* What is left of each method, with what its steps so far have established. *)
CreateCells == Create(CellsDir, Dir, << >>)

OpenOK(d, todo) ==
  \/ todo = OpenScript
  \/ todo = <<Create(Root, Dir, <<Sync(Parent)>>), LookForIdentity, CreateCells, Sync(Root)>>
  \/ todo = <<Sync(Parent), LookForIdentity, CreateCells, Sync(Root)>>
  \/ todo = <<LookForIdentity, CreateCells, Sync(Root)>>
  \/ todo = <<ListRoot, CreateCells, Sync(Root)>>
  \/ todo = <<Create(Identity, IdentityFile, <<Sync(Root)>>), CreateCells, Sync(Root)>>
  \/ /\ Identity \in DOMAIN d.seen
     /\ \/ todo = <<Sync(Root), CreateCells, Sync(Root)>>
        \/ todo = <<CreateCells, Sync(Root)>>
        \/ todo = <<Sync(Root)>>
        \/ todo = << >>

BeginOK(d, c, a, todo) ==
  LET MakeAttempts  == Create(Attempts(c), Dir, << >>)
      MakeManifests == Create(Manifests(c), Dir, << >>)
      MakeAttempt   == Create(AttemptDir(c, a), Dir, << >>)
      there(p)      == p \in DOMAIN d.seen
  IN  \/ todo = BeginScript(c, a)
      \/ /\ there(CellDir(c))
         /\ todo = <<MakeAttempts, MakeManifests, MakeAttempt,
                     Sync(CellsDir), Sync(CellDir(c)), Sync(Attempts(c))>>
      \/ /\ there(CellDir(c)) /\ there(Attempts(c))
         /\ todo = <<MakeManifests, MakeAttempt,
                     Sync(CellsDir), Sync(CellDir(c)), Sync(Attempts(c))>>
      \/ /\ there(CellDir(c)) /\ there(Attempts(c)) /\ there(Manifests(c))
         /\ todo = <<MakeAttempt, Sync(CellsDir), Sync(CellDir(c)), Sync(Attempts(c))>>
      \/ /\ there(CellDir(c)) /\ there(Attempts(c)) /\ there(Manifests(c))
         /\ there(AttemptDir(c, a))
         /\ todo = <<Sync(CellsDir), Sync(CellDir(c)), Sync(Attempts(c))>>
      \/ /\ SameEntry(d, CellDir(c)) /\ there(Attempts(c)) /\ there(Manifests(c))
         /\ there(AttemptDir(c, a))
         /\ todo = <<Sync(CellDir(c)), Sync(Attempts(c))>>
      \/ /\ SameEntry(d, CellDir(c)) /\ SameEntry(d, Attempts(c)) /\ SameEntry(d, Manifests(c))
         /\ there(AttemptDir(c, a))
         /\ todo = <<Sync(Attempts(c))>>
      \/ /\ DirsSettled(d, c, a)
         /\ todo = << >>

StageOK(d, c, a, todo) ==
  /\ DirsSettled(d, c, a) /\ Unpublished(d, c, a)
  /\ \/ /\ FilesSettled(d, c, a)
        /\ \E f \in Files, v \in Payloads : todo = StageScript(c, a, f, v)
     \/ todo = <<Sync(AttemptDir(c, a))>>
     \/ FilesSettled(d, c, a) /\ todo = << >>

CommitOK(d, c, a, todo, answer, refs) ==
  LET files == FilesOf(d.seen, c, a)
      m     == Manifest(c, a, files)
      point == Replace(Pointer(c), Ref(m))
      sync  == Sync(CellDir(c))
  IN  /\ answer = Ref(m)
      /\ DirsSettled(d, c, a) /\ FilesSettled(d, c, a)
      /\ \/ Unpublished(d, c, a) /\ todo = CommitScript(m)
         \/ /\ ManifestPath(c, a) \in DOMAIN d.seen
            /\ d.seen[ManifestPath(c, a)] = m
            /\ todo = <<Sync(Manifests(c)), point, sync>>
         \/ Generation(d, c, a, files) /\ todo = <<point, sync>>
         \/ answer \in refs /\ todo = <<sync>>
         \/ answer \in refs /\ todo = << >>

(* Steps of a method that is none of the store's: they write elsewhere. *)
Elsewhere(p) ==
  /\ p \notin {Parent, Root, Identity, CellsDir}
  /\ \A c \in Cells, a \in Nat : p \notin Own(c, a) \cup Dirs(c, a) \cup {Pointer(c)}

ForeignOK(todo) ==
  \/ \E p, x, d : Elsewhere(p) /\ todo = <<Create(p, x, <<Sync(d)>>)>>
  \/ \E p, x, d : Elsewhere(p) /\ todo = <<Replace(p, x), Sync(d)>>
  \/ \E d : todo = <<Sync(d)>>
  \/ todo = << >>

(* A runner: its attempt at, its call k, its store's state s. *)
AttemptOK(at, n, refs) ==
  at # NoAttempt =>
    /\ DOMAIN at = {"kind", "cell", "id", "closed", "ref"} /\ at.kind = "attempt"
    /\ at.cell \in Cells /\ at.id \in 1..n /\ at.closed \in BOOLEAN
    /\ at.ref # NoRef => at.ref \in refs

RunnerOK(d, s, at, k, refs) ==
  LET open == at # NoAttempt /\ ~at.closed /\ s = "open"
  IN  /\ s \in {"none", "opening", "open", "closed", "refused"}
      /\ s \in {"none", "opening", "refused"} => at = NoAttempt
      /\ s = "open" => Identity \in DOMAIN d.seen
      /\ k = [method |-> k.method, todo |-> k.todo, answer |-> k.answer]
      /\ k.method \in {"none", "open", "begin", "stage", "commit", "create", "save"}
      /\ k.method = "open" <=> s = "opening"
      /\ k.method \in {"begin", "stage", "commit"} => open
      /\ k.method = "none" => k = NoCall
      /\ k.method = "open" => OpenOK(d, k.todo)
      /\ k.method = "begin" => /\ BeginOK(d, at.cell, at.id, k.todo)
                               /\ \A p \in Own(at.cell, at.id) : p \notin DOMAIN d.seen
      /\ k.method = "stage" => StageOK(d, at.cell, at.id, k.todo)
      /\ k.method = "commit" => CommitOK(d, at.cell, at.id, k.todo, k.answer, refs)
      /\ k.method \in {"create", "save"} => ForeignOK(k.todo)
      /\ (open /\ k.method \in {"none", "create", "save"}) => Ready(d, at.cell, at.id)

DiskOK(d, refs) ==
  /\ d = [seen |-> d.seen, kept |-> d.kept]
  /\ DOMAIN d.kept \subseteq DOMAIN d.seen
  /\ CellsDir \in DOMAIN d.seen => Identity \in DOMAIN d.seen
  /\ \A c \in Cells :
       /\ Pointer(c) \in DOMAIN d.seen => d.seen[Pointer(c)] \in refs
       /\ Pointer(c) \in DOMAIN d.kept => d.kept[Pointer(c)] \in refs

(* Nobody stages into an attempt any more. *)
Sealed(c, a) ==
  \A r \in Runners :
    (AttemptOpen(r) /\ attempt[r].cell = c /\ attempt[r].id = a) => call[r].method = "commit"

KnownRef(ref) ==
  \E c \in Cells, a \in 1..begun :
    /\ ref = Ref(Manifest(c, a, ref.sha.files))
    /\ Generation(disk, c, a, ref.sha.files)
    /\ Sealed(c, a)

Fresh ==
  \A c \in Cells, a \in Nat : a > begun => \A p \in Own(c, a) : p \notin DOMAIN disk.seen

Distinct ==
  \A r, s \in Runners :
    (r # s /\ attempt[r] # NoAttempt /\ attempt[s] # NoAttempt) => attempt[r].id # attempt[s].id

IInv ==
  /\ begun \in 0..MaxAttempts /\ trouble \in 0..MaxTrouble
  /\ lock \in Runners \cup {Nobody}
  /\ lock # Nobody => store[lock] = "open"
  /\ store = [r \in Runners |-> store[r]]
  /\ attempt = [r \in Runners |-> attempt[r]]
  /\ call = [r \in Runners |-> call[r]]
  /\ DiskOK(disk, known)
  /\ Fresh /\ Distinct
  /\ \A r \in Runners : /\ AttemptOK(attempt[r], begun, known)
                        /\ RunnerOK(disk, store[r], attempt[r], call[r], known)
  /\ \A ref \in known : KnownRef(ref)

-----------------------------------------------------------------------------
(* What a step of somebody else leaves as it was. *)
LEMMA SameFiles ==
  ASSUME NEW t, NEW u, NEW c, NEW a,
         \A f \in Files : FilePath(c, a, f) \in DOMAIN t <=> FilePath(c, a, f) \in DOMAIN u,
         \A f \in Files : FilePath(c, a, f) \in DOMAIN t
                            => u[FilePath(c, a, f)] = t[FilePath(c, a, f)]
  PROVE  FilesOf(u, c, a) = FilesOf(t, c, a)
<1> DEFINE names(tree) == {f \in Files : FilePath(c, a, f) \in DOMAIN tree}
<1>1. names(u) = names(t)
  OBVIOUS
<1>2. \A f \in names(t) : u[FilePath(c, a, f)] = t[FilePath(c, a, f)]
  OBVIOUS
<1>3. /\ FilesOf(t, c, a) = [f \in names(t) |-> t[FilePath(c, a, f)]]
      /\ FilesOf(u, c, a) = [f \in names(u) |-> u[FilePath(c, a, f)]]
  BY DEF FilesOf, FilePath, Exists
<1> HIDE DEF names
<1> QED BY <1>1, <1>2, <1>3

LEMMA LeavesFiles ==
  ASSUME NEW d, NEW e, NEW c, NEW a, Leaves(d, e, c, a)
  PROVE  /\ FilesOf(e.seen, c, a) = FilesOf(d.seen, c, a)
         /\ FilesSettled(d, c, a) => FilesSettled(e, c, a)
         /\ DirsSettled(d, c, a) => DirsSettled(e, c, a)
         /\ Unpublished(d, c, a) => Unpublished(e, c, a)
<1>1. ManifestPath(c, a) \in Own(c, a) /\ \A f \in Files : FilePath(c, a, f) \in Own(c, a)
  BY DEF Own
<1>2. FilesOf(e.seen, c, a) = FilesOf(d.seen, c, a)
  <2>1. \A f \in Files :
          FilePath(c, a, f) \in DOMAIN d.seen <=> FilePath(c, a, f) \in DOMAIN e.seen
    BY <1>1 DEF Leaves
  <2>2. \A f \in Files : FilePath(c, a, f) \in DOMAIN d.seen
          => e.seen[FilePath(c, a, f)] = d.seen[FilePath(c, a, f)]
    BY <1>1 DEF Leaves
  <2> QED BY <2>1, <2>2, SameFiles
<1> QED BY <1>1, <1>2 DEF Leaves, FilesSettled, DirsSettled, Unpublished

LEMMA GenerationLeft ==
  ASSUME NEW d, NEW e, NEW c, NEW a, NEW files, Leaves(d, e, c, a),
         Generation(d, c, a, files)
  PROVE  Generation(e, c, a, files)
<1>1. ManifestPath(c, a) \in Own(c, a)
  BY DEF Own
<1>2. /\ SameEntry(e, ManifestPath(c, a))
      /\ e.seen[ManifestPath(c, a)] = d.seen[ManifestPath(c, a)]
  BY <1>1 DEF Generation, Leaves, SameEntry
<1>3. Identity \in DOMAIN e.seen
  BY DEF Generation, Leaves
<1> QED BY <1>2, <1>3, LeavesFiles DEF Generation

LEMMA RunnerLeft ==
  ASSUME NEW d, NEW e, NEW s, NEW at, NEW k, NEW refs, NEW more,
         RunnerOK(d, s, at, k, refs), refs \subseteq more,
         DOMAIN d.seen \subseteq DOMAIN e.seen,
         at # NoAttempt => Leaves(d, e, at.cell, at.id)
  PROVE  RunnerOK(e, s, at, k, more)
<1> DEFINE open == at # NoAttempt /\ ~at.closed /\ s = "open"
           c    == at.cell
           a    == at.id
<1>1. k.method = "open" => OpenOK(e, k.todo)
  BY DEF RunnerOK, OpenOK
<1>2. ASSUME k.method = "begin"
      PROVE  BeginOK(e, c, a, k.todo) /\ \A p \in Own(c, a) : p \notin DOMAIN e.seen
  <2>1. Leaves(d, e, c, a) /\ BeginOK(d, c, a, k.todo)
        /\ \A p \in Own(c, a) : p \notin DOMAIN d.seen
    BY <1>2 DEF RunnerOK
  <2>2. \A p \in Dirs(c, a) : p \in DOMAIN d.seen => p \in DOMAIN e.seen
    BY <2>1 DEF Leaves
  <2>3. CellDir(c) \in Dirs(c, a) /\ Attempts(c) \in Dirs(c, a) /\ Manifests(c) \in Dirs(c, a)
        /\ AttemptDir(c, a) \in Dirs(c, a)
    BY DEF Dirs
  <2>4. \A p \in Dirs(c, a) : SameEntry(d, p) => SameEntry(e, p)
    BY <2>1 DEF Leaves
  <2>5. DirsSettled(d, c, a) => DirsSettled(e, c, a)
    BY <2>4 DEF DirsSettled
  <2>6. BeginOK(e, c, a, k.todo)
    BY <2>1, <2>2, <2>3, <2>4, <2>5 DEF BeginOK
  <2> QED BY <2>1, <2>6 DEF Leaves
<1>3. ASSUME k.method = "stage" PROVE StageOK(e, c, a, k.todo)
  <2>1. Leaves(d, e, c, a) /\ StageOK(d, c, a, k.todo)
    BY <1>3 DEF RunnerOK
  <2> QED BY <2>1, LeavesFiles DEF StageOK
<1>4. ASSUME k.method = "commit" PROVE CommitOK(e, c, a, k.todo, k.answer, more)
  <2>1. Leaves(d, e, c, a) /\ CommitOK(d, c, a, k.todo, k.answer, refs)
    BY <1>4 DEF RunnerOK
  <2>2. /\ FilesOf(e.seen, c, a) = FilesOf(d.seen, c, a)
        /\ FilesSettled(d, c, a) => FilesSettled(e, c, a)
        /\ DirsSettled(d, c, a) => DirsSettled(e, c, a)
        /\ Unpublished(d, c, a) => Unpublished(e, c, a)
    BY <2>1, LeavesFiles
  <2>3. Generation(d, c, a, FilesOf(d.seen, c, a)) => Generation(e, c, a, FilesOf(d.seen, c, a))
    BY <2>1, GenerationLeft
  <2>4. ManifestPath(c, a) \in DOMAIN d.seen =>
          /\ ManifestPath(c, a) \in DOMAIN e.seen
          /\ e.seen[ManifestPath(c, a)] = d.seen[ManifestPath(c, a)]
    BY <2>1 DEF Leaves, Own
  <2> QED BY <2>1, <2>2, <2>3, <2>4 DEF CommitOK
<1>5. (open /\ k.method \in {"none", "create", "save"}) => Ready(e, c, a)
  <2>1. (open /\ k.method \in {"none", "create", "save"})
           => Ready(d, c, a) /\ Leaves(d, e, c, a)
    BY DEF RunnerOK
  <2> QED BY <2>1, LeavesFiles DEF Ready
<1> QED BY <1>1, <1>2, <1>3, <1>4, <1>5 DEF RunnerOK

-----------------------------------------------------------------------------
(* A power loss under a durable run root takes nothing of a generation.      *)
LEMMA StoreReachable ==
  ASSUME NEW tree, {Parent, Root, Identity, CellsDir} \subseteq DOMAIN tree
  PROVE  /\ Reachable(tree, Root) /\ Reachable(tree, Identity) /\ Reachable(tree, CellsDir)
         /\ \A c \in Cells, a \in Nat :
              Dirs(c, a) \subseteq DOMAIN tree =>
                \A p \in Own(c, a) \cup Dirs(c, a) : Reachable(tree, p)
<1>1. Parent \in Level(1) /\ Root \in Level(2) /\ CellsDir \in Level(3)
  BY TopPaths
<1>2. /\ \A n \in Nat : \A p \in Level(n), x \in Names :
           p \in DOMAIN tree /\ Reachable(tree, p) => Reachable(tree, Under(p, x))
  BY ReachableStep
<1>3. "root" \in Names /\ "identity" \in Names /\ "cells" \in Names
      /\ "attempts" \in Names /\ "manifests" \in Names
  BY DEF Names
<1>4. Reachable(tree, Parent)
  <2>1. Len(Parent) = 1
    BY <1>1 DEF Level
  <2>2. \A n \in 1..Len(Parent) - 1 : FALSE
    BY <2>1
  <2> QED BY <2>2 DEF Reachable
<1>5. Reachable(tree, Root)
  <2>1. Reachable(tree, Under(Parent, "root"))
    BY <1>1, <1>2, <1>3, <1>4
  <2> QED BY <2>1, PathsUnder
<1>6. Reachable(tree, Identity) /\ Reachable(tree, CellsDir)
  <2>1. Reachable(tree, Under(Root, "identity")) /\ Reachable(tree, Under(Root, "cells"))
    BY <1>1, <1>2, <1>3, <1>5
  <2> QED BY <2>1, PathsUnder
<1>7. ASSUME NEW c \in Cells, NEW a \in Nat, Dirs(c, a) \subseteq DOMAIN tree
      PROVE  \A p \in Own(c, a) \cup Dirs(c, a) : Reachable(tree, p)
  <2>1. /\ CellDir(c) \in DOMAIN tree /\ Attempts(c) \in DOMAIN tree
        /\ Manifests(c) \in DOMAIN tree /\ AttemptDir(c, a) \in DOMAIN tree
    BY <1>7 DEF Dirs
  <2>2. /\ CellDir(c) \in Level(4) /\ Attempts(c) \in Level(5) /\ Manifests(c) \in Level(5)
        /\ AttemptDir(c, a) \in Level(6)
    BY CellPaths
  <2>3. c \in Names /\ a \in Names /\ \A f \in Files : f \in Names
    BY DEF Names
  <2>4. Reachable(tree, CellDir(c))
    <3>1. Reachable(tree, Under(CellsDir, c))
      BY <1>1, <1>2, <1>6, <2>3
    <3> QED BY <3>1, PathsUnder
  <2>5. Reachable(tree, Attempts(c)) /\ Reachable(tree, Manifests(c))
    <3>1. \A x \in Names : Reachable(tree, Under(CellDir(c), x))
      BY <1>2, <2>1, <2>2, <2>4
    <3>2. Reachable(tree, Under(CellDir(c), "attempts"))
          /\ Reachable(tree, Under(CellDir(c), "manifests"))
      BY <1>3, <3>1
    <3> QED BY <3>2, PathsUnder
  <2>6. Reachable(tree, AttemptDir(c, a)) /\ Reachable(tree, ManifestPath(c, a))
    <3>1. Reachable(tree, Under(Attempts(c), a)) /\ Reachable(tree, Under(Manifests(c), a))
      BY <1>2, <2>1, <2>2, <2>3, <2>5
    <3> QED BY <3>1, PathsUnder
  <2>7. \A f \in Files : Reachable(tree, FilePath(c, a, f))
    <3>1. \A f \in Files : Reachable(tree, Under(AttemptDir(c, a), f))
      BY <1>2, <2>1, <2>2, <2>3, <2>6
    <3> QED BY <3>1, PathsUnder
  <2> QED BY <2>4, <2>5, <2>6, <2>7 DEF Own, Dirs
<1> QED BY <1>5, <1>6, <1>7

LEMMA GenerationSurvives ==
  ASSUME NEW d, WellFormed(d), NEW e \in AfterPowerLoss(d),
         {Parent, Root, Identity, CellsDir} \subseteq DOMAIN d.kept,
         NEW c \in Cells, NEW a \in Nat, NEW files, Generation(d, c, a, files)
  PROVE  Generation(e, c, a, files)
<1>1. /\ DOMAIN e.seen \subseteq DOMAIN d.seen /\ e.kept = e.seen
      /\ \A q : (SameEntry(d, q) /\ q \in DOMAIN e.seen) => e.seen[q] = d.seen[q]
      /\ \A q \in DOMAIN d.kept : Reachable(d.kept, q) => q \in DOMAIN e.seen
  BY PowerLossDisk
<1>2. Dirs(c, a) \subseteq DOMAIN d.kept
  BY DEF Generation, DirsSettled, SameEntry
<1>3. Reachable(d.kept, Identity)
      /\ \A p \in Own(c, a) \cup Dirs(c, a) : Reachable(d.kept, p)
  BY <1>2, StoreReachable
<1>4. \A p \in Own(c, a) \cup Dirs(c, a) :
        SameEntry(d, p) => SameEntry(e, p) /\ e.seen[p] = d.seen[p]
  BY <1>1, <1>3 DEF SameEntry
<1>5. Identity \in DOMAIN e.seen
  BY <1>1, <1>3
<1>6. ManifestPath(c, a) \in Own(c, a) /\ \A f \in Files : FilePath(c, a, f) \in Own(c, a)
  BY DEF Own
<1>7. DirsSettled(e, c, a)
  BY <1>4 DEF Generation, DirsSettled
<1>8. /\ SameEntry(e, ManifestPath(c, a))
      /\ e.seen[ManifestPath(c, a)] = Manifest(c, a, files)
  BY <1>4, <1>6 DEF Generation
<1>9. \A f \in Files : FilePath(c, a, f) \in DOMAIN d.seen
        => SameEntry(e, FilePath(c, a, f)) /\ e.seen[FilePath(c, a, f)] = d.seen[FilePath(c, a, f)]
  BY <1>4, <1>6 DEF Generation, FilesSettled
<1>10. FilesSettled(e, c, a)
  BY <1>1, <1>9 DEF FilesSettled
<1>11. FilesOf(e.seen, c, a) = FilesOf(d.seen, c, a)
  <2>1. \A f \in Files :
          FilePath(c, a, f) \in DOMAIN d.seen <=> FilePath(c, a, f) \in DOMAIN e.seen
    BY <1>1, <1>9 DEF SameEntry
  <2> QED BY <1>9, <2>1, SameFiles
<1> QED BY <1>5, <1>7, <1>8, <1>10, <1>11 DEF Generation

(* What EverythingLoads asks of a reference. *)
LEMMA GenerationLoads ==
  ASSUME NEW d, NEW c, NEW a, NEW files, Generation(d, c, a, files)
  PROVE  Loads(d.seen, Ref(Manifest(c, a, files)))
<1> DEFINE ref == Ref(Manifest(c, a, files))
<1>1. ref.cell = c /\ ref.attempt = a /\ ref.sha = Manifest(c, a, files)
      /\ ref.sha.files = files
  BY DEF Ref, Manifest
<1>2. AttemptDir(c, a) \in DOMAIN d.seen /\ ManifestPath(c, a) \in DOMAIN d.seen
  BY DEF Generation, DirsSettled, Dirs, SameEntry
<1> HIDE DEF ref
<1>3. Loads(d.seen, ref)
  BY <1>1, <1>2 DEF Generation, Loads, Exists
<1> QED BY <1>3 DEF ref

-----------------------------------------------------------------------------
(* A step of one runner keeps the invariant when it keeps that runner's part *)
(* of it and leaves the generations of the others, and those that a          *)
(* reference names, as they are.                                             *)
OnlyMoves(r) ==
  /\ store' = [q \in Runners |-> store'[q]]
  /\ attempt' = [q \in Runners |-> attempt'[q]]
  /\ call' = [q \in Runners |-> call'[q]]
  /\ \A q \in Runners : q # r => /\ store'[q] = store[q]
                                 /\ attempt'[q] = attempt[q]
                                 /\ call'[q] = call[q]

Counted ==
  /\ begun' \in begun..MaxAttempts /\ trouble' \in 0..MaxTrouble
  /\ known \subseteq known'

Locks(r) ==
  /\ lock' \in Runners \cup {Nobody}
  /\ lock' # Nobody => (lock' = lock /\ lock # r) \/ (lock' = r /\ store'[r] = "open")

(* Only the generation the runner works on may change, and not once a        *)
(* reference names it.                                                       *)
Respects(r) ==
  /\ DOMAIN disk.seen \subseteq DOMAIN disk'.seen
  /\ \A c \in Cells, a \in Nat :
       \/ Leaves(disk, disk', c, a)
       \/ attempt[r] # NoAttempt /\ attempt[r].cell = c /\ attempt[r].id = a
  /\ \A ref \in known : Leaves(disk, disk', ref.cell, ref.attempt)

Keeps(r) ==
  /\ AttemptOK(attempt'[r], begun', known')
  /\ RunnerOK(disk', store'[r], attempt'[r], call'[r], known')
  /\ attempt'[r] # NoAttempt =>
       \/ attempt[r] # NoAttempt /\ attempt'[r].id = attempt[r].id
       \/ attempt'[r].id > begun
  /\ \A ref \in known :
       (/\ attempt'[r] # NoAttempt /\ ~attempt'[r].closed /\ store'[r] = "open"
        /\ attempt'[r].cell = ref.cell /\ attempt'[r].id = ref.attempt)
         => call'[r].method = "commit"

LEMMA RefFields ==
  ASSUME NEW ref, NEW c, NEW a, NEW files, ref = Ref(Manifest(c, a, files))
  PROVE  ref.cell = c /\ ref.attempt = a /\ ref.sha = Manifest(c, a, files)
         /\ ref.sha.files = files /\ ref.kind = "ref"
BY DEF Ref, Manifest

LEMMA RunnerMoves ==
  ASSUME IInv, NEW r \in Runners, OnlyMoves(r), Counted, Locks(r), Respects(r),
         DiskOK(disk', known'), Keeps(r),
         \A ref \in known' \ known : KnownRef(ref)'
  PROVE  IInv'
<1>1. /\ begun \in Nat /\ begun' \in Nat /\ begun <= begun' /\ begun' \in 0..MaxAttempts
      /\ \A n \in 1..begun : n \in Nat /\ n \in 1..begun'
  BY TroubleAssumption DEF IInv, Counted
<1>2. lock' \in Runners \cup {Nobody} /\ (lock' # Nobody => store'[lock'] = "open")
  BY DEF IInv, Locks, OnlyMoves
<1>3. Fresh'
  <2> SUFFICES ASSUME NEW c \in Cells, NEW a \in Nat, a > begun', NEW p \in Own(c, a)
               PROVE  p \notin DOMAIN disk'.seen
    BY DEF Fresh
  <2>1. a > begun
    BY <1>1
  <2>2. p \notin DOMAIN disk.seen
    BY <2>1 DEF IInv, Fresh
  <2>3. ~(attempt[r] # NoAttempt /\ attempt[r].cell = c /\ attempt[r].id = a)
    BY <1>1, <2>1 DEF IInv, AttemptOK
  <2>4. Leaves(disk, disk', c, a)
    BY <2>3 DEF Respects
  <2> QED BY <2>2, <2>4 DEF Leaves
<1>4. Distinct'
  <2> SUFFICES ASSUME NEW q \in Runners, NEW s \in Runners, q # s,
                      attempt'[q] # NoAttempt, attempt'[s] # NoAttempt
               PROVE  attempt'[q].id # attempt'[s].id
    BY DEF Distinct
  <2>1. \A o \in Runners : (o # r /\ attempt'[o] # NoAttempt) =>
          /\ attempt'[o].id # attempt'[r].id \/ attempt'[r] = NoAttempt
          /\ attempt'[o] = attempt[o]
    <3> SUFFICES ASSUME NEW o \in Runners, o # r, attempt'[o] # NoAttempt,
                        attempt'[r] # NoAttempt
                 PROVE  attempt'[o].id # attempt'[r].id
      BY DEF OnlyMoves
    <3>1. attempt'[o] = attempt[o] /\ attempt[o].id \in 1..begun
      BY DEF OnlyMoves, IInv, AttemptOK
    <3>2. CASE attempt[r] # NoAttempt /\ attempt'[r].id = attempt[r].id
      BY <3>1, <3>2 DEF IInv, Distinct
    <3>3. CASE attempt'[r].id > begun
      BY <1>1, <3>1, <3>3
    <3> QED BY <3>2, <3>3 DEF Keeps
  <2> QED BY <2>1 DEF IInv, Distinct
<1>5. ASSUME NEW q \in Runners
      PROVE  /\ AttemptOK(attempt'[q], begun', known')
             /\ RunnerOK(disk', store'[q], attempt'[q], call'[q], known')
  <2>1. CASE q = r
    BY <2>1 DEF Keeps
  <2>2. CASE q # r
    <3>1. store'[q] = store[q] /\ attempt'[q] = attempt[q] /\ call'[q] = call[q]
      BY <2>2 DEF OnlyMoves
    <3>2. AttemptOK(attempt[q], begun, known)
          /\ RunnerOK(disk, store[q], attempt[q], call[q], known)
      BY DEF IInv
    <3>3. AttemptOK(attempt[q], begun', known')
      BY <1>1, <3>2 DEF AttemptOK, Counted
    <3>4. ASSUME attempt[q] # NoAttempt
          PROVE  Leaves(disk, disk', attempt[q].cell, attempt[q].id)
      <4>1. attempt[q].cell \in Cells /\ attempt[q].id \in Nat
        BY <1>1, <3>2, <3>4 DEF AttemptOK
      <4>2. ~(attempt[r] # NoAttempt /\ attempt[r].id = attempt[q].id)
        BY <2>2, <3>4 DEF IInv, Distinct
      <4> QED BY <4>1, <4>2 DEF Respects
    <3>5. RunnerOK(disk', store[q], attempt[q], call[q], known')
      BY <3>2, <3>4, RunnerLeft DEF Respects, Counted
    <3> QED BY <3>1, <3>3, <3>5
  <2> QED BY <2>1, <2>2
<1>6. ASSUME NEW ref \in known' PROVE KnownRef(ref)'
  <2>1. CASE ref \in known
    <3>1. PICK c \in Cells, a \in 1..begun :
            /\ ref = Ref(Manifest(c, a, ref.sha.files))
            /\ Generation(disk, c, a, ref.sha.files)
            /\ Sealed(c, a)
      BY <2>1 DEF IInv, KnownRef
    <3>2. ref.cell = c /\ ref.attempt = a
      BY <3>1, RefFields
    <3>3. Generation(disk', c, a, ref.sha.files)
      BY <2>1, <3>1, <3>2, GenerationLeft DEF Respects
    <3>4. Sealed(c, a)'
      <4> SUFFICES ASSUME NEW q \in Runners, AttemptOpen(q)', attempt'[q].cell = c,
                          attempt'[q].id = a
                   PROVE  call'[q].method = "commit"
        BY DEF Sealed
      <4>1. CASE q = r
        BY <2>1, <3>2, <4>1 DEF Keeps, AttemptOpen
      <4>2. CASE q # r
        BY <3>1, <4>2 DEF OnlyMoves, AttemptOpen, Sealed
      <4> QED BY <4>1, <4>2
    <3> QED BY <1>1, <3>1, <3>3, <3>4 DEF KnownRef
  <2> QED BY <2>1
<1> QED BY <1>1, <1>2, <1>3, <1>4, <1>5, <1>6 DEF IInv, OnlyMoves, Counted

-----------------------------------------------------------------------------
(* The steps of a call. *)
Progress(r, todo) ==
  /\ call'[r] = [method |-> call[r].method, todo |-> todo, answer |-> call[r].answer]
  /\ OnlyMoves(r) /\ Locks(r)
  /\ store'[r] = store[r] /\ attempt'[r] = attempt[r]
  /\ begun' = begun /\ begun' \in begun..MaxAttempts /\ trouble' \in 0..MaxTrouble

LEMMA RestProgress ==
  ASSUME IInv, NEW r \in Runners, NEW next, Rest(r, next),
         UNCHANGED <<lock, store, attempt, begun, trouble>>
  PROVE  Progress(r, next \o Tail(Todo(r)))
<1>1. call[r] = [method |-> call[r].method, todo |-> call[r].todo, answer |-> call[r].answer]
  BY DEF IInv, RunnerOK
<1>2. call = [q \in Runners |-> call[q]]
  BY DEF IInv
<1>3. call'[r] = [method |-> call[r].method, todo |-> next \o Tail(Todo(r)),
                  answer |-> call[r].answer]
  BY <1>1, <1>2 DEF Rest, Todo
<1>4. call' = [q \in Runners |-> call'[q]] /\ \A q \in Runners : q # r => call'[q] = call[q]
  BY <1>2 DEF Rest
<1>5. store' = [q \in Runners |-> store'[q]] /\ attempt' = [q \in Runners |-> attempt'[q]]
  BY DEF IInv
<1>6. OnlyMoves(r)
  BY <1>4, <1>5 DEF OnlyMoves
<1>7. Locks(r)
  BY DEF IInv, Locks
<1>8. begun' \in begun..MaxAttempts /\ trouble' \in 0..MaxTrouble
  BY TroubleAssumption DEF IInv
<1> QED BY <1>3, <1>6, <1>7, <1>8 DEF Progress

LEMMA ProgressKeeps ==
  ASSUME IInv, NEW r \in Runners, NEW todo, Progress(r, todo), known \subseteq known',
         RunnerOK(disk', store[r], attempt[r], call'[r], known')
  PROVE  Keeps(r) /\ Counted
<1>1. AttemptOK(attempt'[r], begun', known')
  BY DEF IInv, AttemptOK, Progress
<1>2. ASSUME NEW ref \in known,
             /\ attempt'[r] # NoAttempt /\ ~attempt'[r].closed /\ store'[r] = "open"
             /\ attempt'[r].cell = ref.cell /\ attempt'[r].id = ref.attempt
      PROVE  call'[r].method = "commit"
  <2>1. PICK c \in Cells, a \in 1..begun :
          ref = Ref(Manifest(c, a, ref.sha.files)) /\ Sealed(c, a)
    BY DEF IInv, KnownRef
  <2>2. ref.cell = c /\ ref.attempt = a
    BY <2>1, RefFields
  <2>3. call'[r].method = call[r].method /\ attempt'[r] = attempt[r] /\ store'[r] = store[r]
    BY DEF Progress
  <2>4. AttemptOpen(r) /\ attempt[r].cell = c /\ attempt[r].id = a
    BY <1>2, <2>2, <2>3 DEF AttemptOpen
  <2> QED BY <2>1, <2>3, <2>4 DEF Sealed
<1> QED BY <1>1, <1>2 DEF Keeps, Progress, Counted

LEMMA NoneNew ==
  ASSUME DiskOK(disk, known), known' = known \cup Visible(disk'.seen),
         \A c \in Cells : Pointer(c) \in DOMAIN disk'.seen =>
           Pointer(c) \in DOMAIN disk.seen /\ disk'.seen[Pointer(c)] = disk.seen[Pointer(c)]
  PROVE  known' = known
BY DEF DiskOK, Visible, Exists

LEMMA KnownIds ==
  ASSUME IInv, NEW ref \in known
  PROVE  ref.cell \in Cells /\ ref.attempt \in Nat /\ ref.attempt \in 1..begun
<1>1. PICK c \in Cells, a \in 1..begun : ref = Ref(Manifest(c, a, ref.sha.files))
  BY DEF IInv, KnownRef
<1>2. begun \in Nat
  BY TroubleAssumption DEF IInv
<1> QED BY <1>1, <1>2, RefFields

LEMMA SyncedStep ==
  ASSUME IInv, NEW r \in Runners, NEW dir, disk' = Synced(disk, dir),
         known' = known \cup Visible(disk'.seen)
  PROVE  known' = known /\ DiskOK(disk', known') /\ Respects(r)
<1>1. WellFormed(disk)
  BY DEF IInv, DiskOK, WellFormed
<1>2. /\ WellFormed(disk') /\ disk'.seen = disk.seen
      /\ \A q \in DOMAIN disk'.kept :
           disk'.kept[q] = disk.seen[q] \/ (q \in DOMAIN disk.kept /\ disk'.kept[q] = disk.kept[q])
  BY <1>1, SyncedDisk
<1>3. known' = known
  BY <1>2, NoneNew DEF IInv
<1>4. DiskOK(disk', known')
  BY <1>2, <1>3 DEF IInv, DiskOK, WellFormed
<1>5. \A c, a : Leaves(disk, disk', c, a)
  BY <1>1, SyncedLeaves
<1> QED BY <1>2, <1>3, <1>4, <1>5 DEF Respects

(* Making an entry that no generation has of its own. *)
LEMMA NamedStep ==
  ASSUME IInv, NEW r \in Runners, NEW p, NEW x, disk' = Named(disk, p, x),
         known' = known \cup Visible(disk'.seen),
         p = CellsDir => Identity \in DOMAIN disk.seen,
         \A c \in Cells : p # Pointer(c),
         \A c \in Cells, a \in Nat :
           p \notin Own(c, a) /\ (p \in Dirs(c, a) => p \notin DOMAIN disk.seen)
  PROVE  known' = known /\ DiskOK(disk', known') /\ Respects(r)
<1>1. WellFormed(disk)
  BY DEF IInv, DiskOK, WellFormed
<1>2. /\ WellFormed(disk') /\ disk'.kept = disk.kept
      /\ DOMAIN disk'.seen = DOMAIN disk.seen \cup {p}
      /\ \A q \in DOMAIN disk.seen : q # p => disk'.seen[q] = disk.seen[q]
  BY <1>1, NamedDisk
<1>3. known' = known
  BY <1>2, NoneNew DEF IInv
<1>4. DiskOK(disk', known')
  BY <1>2, <1>3 DEF IInv, DiskOK, WellFormed
<1>5. \A c \in Cells, a \in Nat : Leaves(disk, disk', c, a)
  BY <1>1, NamedLeaves
<1> QED BY <1>2, <1>3, <1>4, <1>5, KnownIds DEF Respects

LEMMA SameStep ==
  ASSUME IInv, NEW r \in Runners, disk' = disk, known' = known
  PROVE  DiskOK(disk', known') /\ Respects(r)
BY DEF IInv, Respects, Leaves

LEMMA CreateStep ==
  ASSUME IInv, NEW r \in Runners, NEW p, NEW x, NEW then, Todo(r) # << >>,
         Head(Todo(r)) = Create(p, x, then), FileStep(r)
  PROVE  \/ /\ p \notin DOMAIN disk.seen
            /\ disk' = Named(disk, p, x) /\ known' = known \cup Visible(disk'.seen)
            /\ Progress(r, then \o Tail(Todo(r)))
         \/ /\ p \in DOMAIN disk.seen
            /\ disk' = disk /\ known' = known
            /\ Progress(r, << >> \o Tail(Todo(r)))
<1>1. /\ Head(Todo(r)).op = "create" /\ Head(Todo(r)).path = p
      /\ Head(Todo(r)).content = x /\ Head(Todo(r)).then = then
  BY DEF Create
<1>2. Making(r) \/ Finding(r)
  BY <1>1 DEF FileStep, Making, Finding, Replacing, Syncing, Looking, Listing, Due
<1> QED BY <1>1, <1>2, RestProgress DEF Making, Finding, Becomes, Exists

LEMMA ReplaceStep ==
  ASSUME IInv, NEW r \in Runners, NEW p, NEW x, Todo(r) # << >>,
         Head(Todo(r)) = Replace(p, x), FileStep(r)
  PROVE  /\ disk' = Named(disk, p, x) /\ known' = known \cup Visible(disk'.seen)
         /\ Progress(r, << >> \o Tail(Todo(r)))
<1>1. Head(Todo(r)).op = "replace" /\ Head(Todo(r)).path = p /\ Head(Todo(r)).content = x
  BY DEF Replace
<1>2. Replacing(r)
  BY <1>1 DEF FileStep, Making, Finding, Replacing, Syncing, Looking, Listing, Due
<1> QED BY <1>1, <1>2, RestProgress DEF Replacing, Becomes

LEMMA SyncStep ==
  ASSUME IInv, NEW r \in Runners, NEW dir, Todo(r) # << >>,
         Head(Todo(r)) = Sync(dir), FileStep(r)
  PROVE  /\ disk' = Synced(disk, dir) /\ known' = known \cup Visible(disk'.seen)
         /\ Progress(r, << >> \o Tail(Todo(r)))
<1>1. Head(Todo(r)).op = "sync" /\ Head(Todo(r)).path = dir
  BY DEF Sync
<1>2. Syncing(r)
  BY <1>1 DEF FileStep, Making, Finding, Replacing, Syncing, Looking, Listing, Due
<1> QED BY <1>1, <1>2, RestProgress DEF Syncing, Becomes

LEMMA LookStep ==
  ASSUME IInv, NEW r \in Runners, Todo(r) # << >>, Head(Todo(r)) = LookForIdentity, FileStep(r)
  PROVE  /\ disk' = disk /\ known' = known
         /\ \/ Identity \in DOMAIN disk.seen /\ Progress(r, << >> \o Tail(Todo(r)))
            \/ Progress(r, <<ListRoot>> \o Tail(Todo(r)))
<1>1. Head(Todo(r)).op = "look"
  BY DEF LookForIdentity
<1>2. Looking(r)
  BY <1>1 DEF FileStep, Making, Finding, Replacing, Syncing, Looking, Listing, Due
<1> QED BY <1>2, RestProgress DEF Looking, Exists

LEMMA ListStep ==
  ASSUME IInv, NEW r \in Runners, Todo(r) # << >>, Head(Todo(r)) = ListRoot, FileStep(r)
  PROVE  Listing(r)
<1>1. Head(Todo(r)).op = "list"
  BY DEF ListRoot
<1> QED BY <1>1 DEF FileStep, Making, Finding, Replacing, Syncing, Looking, Listing, Due

(* A step that puts one more at the head of what is left. *)
Onto(x, s) == <<x>> \o Tail(s)

LEMMA Prepended2 ==
  ASSUME NEW x, NEW y, NEW z, NEW w, NEW s, s = <<w, y, z>>
  PROVE  Onto(x, s) = <<x, y, z>>
<1> DEFINE l == <<x>> \o <<y, z>>
           t == <<x, y, z>>
           S == {x, y, z}
<1>1. <<x>> \in Seq(S) /\ <<y, z>> \in Seq(S) /\ Len(<<x>>) = 1 /\ Len(<<y, z>>) = 2
  OBVIOUS
<1>2. l \in Seq(S) /\ Len(l) = 3 /\ l[1] = x /\ l[2] = y /\ l[3] = z
  BY <1>1, ConcatProperties
<1>3. t \in Seq(S) /\ Len(t) = 3 /\ t[1] = x /\ t[2] = y /\ t[3] = z
  OBVIOUS
<1>4. Tail(s) = <<y, z>>
  OBVIOUS
<1> HIDE DEF l, t, S
<1>5. \A i \in 1..3 : l[i] = t[i]
  BY <1>2, <1>3
<1>6. l = t
  BY <1>2, <1>3, <1>5, SeqEqual
<1> QED BY <1>4, <1>6 DEF l, t, Onto

LEMMA Prepended3 ==
  ASSUME NEW x, NEW y, NEW z, NEW v, NEW w, NEW s, s = <<w, y, z, v>>
  PROVE  Onto(x, s) = <<x, y, z, v>>
<1> DEFINE l == <<x>> \o <<y, z, v>>
           t == <<x, y, z, v>>
           S == {x, y, z, v}
<1>1. <<x>> \in Seq(S) /\ <<y, z, v>> \in Seq(S) /\ Len(<<x>>) = 1 /\ Len(<<y, z, v>>) = 3
  OBVIOUS
<1>2. l \in Seq(S) /\ Len(l) = 4 /\ l[1] = x /\ l[2] = y /\ l[3] = z /\ l[4] = v
  BY <1>1, ConcatProperties
<1>3. t \in Seq(S) /\ Len(t) = 4 /\ t[1] = x /\ t[2] = y /\ t[3] = z /\ t[4] = v
  OBVIOUS
<1>4. Tail(s) = <<y, z, v>>
  OBVIOUS
<1> HIDE DEF l, t, S
<1>5. \A i \in 1..4 : l[i] = t[i]
  BY <1>2, <1>3
<1>6. l = t
  BY <1>2, <1>3, <1>5, SeqEqual
<1> QED BY <1>4, <1>6 DEF l, t, Onto

LEMMA StepDone ==
  ASSUME IInv, NEW r \in Runners, NEW todo, Progress(r, todo), known' = known,
         DiskOK(disk', known'), Respects(r),
         RunnerOK(disk', store[r], attempt[r], call'[r], known')
  PROVE  IInv'
<1>1. Keeps(r) /\ Counted
  BY ProgressKeeps
<1>2. OnlyMoves(r) /\ Locks(r)
  BY DEF Progress
<1> QED BY <1>1, <1>2, RunnerMoves

(* The four directories and files at the top belong to no generation.        *)
LEMMA TopApart ==
  ASSUME NEW p \in {Parent, Root, Identity, CellsDir}
  PROVE  /\ \A c \in Cells : p # Pointer(c)
         /\ \A c \in Cells, a \in Nat : p \notin Own(c, a) \cup Dirs(c, a)
<1>1. 0 \in Nat
  OBVIOUS
<1> QED BY <1>1, Apart

LEMMA IdentityNotCells == Identity # CellsDir /\ Parent # CellsDir /\ Root # CellsDir
BY TopPaths DEF Level

LEMMA OpenFileStep ==
  ASSUME IInv, NEW r \in Runners, call[r].method = "open", FileStep(r)
  PROVE  IInv'
<1> DEFINE CP   == Create(Parent, Dir, << >>)
           CR   == Create(Root, Dir, <<Sync(Parent)>>)
           CI   == Create(Identity, IdentityFile, <<Sync(Root)>>)
           CC   == CreateCells
           SP   == Sync(Parent)
           SR   == Sync(Root)
           look == LookForIdentity
           list == ListRoot
           seen == DOMAIN disk.seen
<1>1. /\ OpenOK(disk, Todo(r)) /\ store[r] = "opening" /\ attempt[r] = NoAttempt
      /\ DiskOK(disk, known)
  BY DEF IInv, RunnerOK, Todo
<1>2. ASSUME NEW todo, Progress(r, todo), OpenOK(disk', todo), known' = known,
             DiskOK(disk', known'), Respects(r)
      PROVE  IInv'
  <2>1. RunnerOK(disk', store[r], attempt[r], call'[r], known')
    BY <1>1, <1>2 DEF RunnerOK, Progress
  <2> QED BY <1>2, <2>1, StepDone
<1>3. ASSUME NEW p \in {Parent, Root, Identity, CellsDir}, NEW x, NEW then, Todo(r) # << >>,
             Head(Todo(r)) = Create(p, x, then), p = CellsDir => Identity \in seen,
             (p \in DOMAIN disk'.seen /\ seen \subseteq DOMAIN disk'.seen) =>
               OpenOK(disk', then \o Tail(Todo(r))),
             (p \in DOMAIN disk'.seen /\ seen \subseteq DOMAIN disk'.seen) =>
               OpenOK(disk', << >> \o Tail(Todo(r)))
      PROVE  IInv'
  <2>1. CASE /\ p \notin DOMAIN disk.seen
             /\ disk' = Named(disk, p, x) /\ known' = known \cup Visible(disk'.seen)
             /\ Progress(r, then \o Tail(Todo(r)))
    <3>1. known' = known /\ DiskOK(disk', known') /\ Respects(r)
      BY <1>3, <2>1, TopApart, NamedStep
    <3>2. p \in DOMAIN disk'.seen /\ seen \subseteq DOMAIN disk'.seen
      BY <1>1, <2>1, NamedDisk DEF DiskOK, WellFormed
    <3> QED BY <1>2, <1>3, <2>1, <3>1, <3>2
  <2>2. CASE /\ p \in DOMAIN disk.seen
             /\ disk' = disk /\ known' = known
             /\ Progress(r, << >> \o Tail(Todo(r)))
    BY <1>2, <1>3, <2>2, SameStep
  <2> QED BY <1>3, <2>1, <2>2, CreateStep
<1>4. ASSUME NEW dir, Todo(r) # << >>, Head(Todo(r)) = Sync(dir),
             seen = DOMAIN disk'.seen => OpenOK(disk', << >> \o Tail(Todo(r)))
      PROVE  IInv'
  <2>1. /\ disk' = Synced(disk, dir) /\ known' = known \cup Visible(disk'.seen)
        /\ Progress(r, << >> \o Tail(Todo(r)))
    BY <1>4, SyncStep
  <2>2. known' = known /\ DiskOK(disk', known') /\ Respects(r)
    BY <2>1, SyncedStep
  <2>3. seen = DOMAIN disk'.seen
    BY <1>1, <2>1, SyncedDisk DEF DiskOK, WellFormed
  <2> QED BY <1>2, <1>4, <2>1, <2>2, <2>3
<1>5. CASE Todo(r) = OpenScript
  <2>1. Todo(r) = <<CP, CR, look, CC, SR>>
    BY <1>5 DEF OpenScript, CreateCells
  <2> HIDE DEF CP, CR, CC, SR, look
  <2>2. /\ Todo(r) # << >> /\ Head(Todo(r)) = CP
        /\ << >> \o Tail(Todo(r)) = <<CR, look, CC, SR>>
    BY <2>1
  <2>3. OpenOK(disk', << >> \o Tail(Todo(r)))
    BY <2>2 DEF OpenOK, CR, CC, SR, look
  <2> QED BY <1>3, <2>2, <2>3, IdentityNotCells DEF CP
<1>6. CASE Todo(r) = <<CR, look, CC, SR>>
  <2> HIDE DEF CR, CC, SR, SP, look
  <2>1. /\ Todo(r) # << >> /\ Head(Todo(r)) = CR
        /\ << >> \o Tail(Todo(r)) = <<look, CC, SR>>
    BY <1>6
  <2>2. Onto(SP, Todo(r)) = <<SP, look, CC, SR>>
    BY <1>6, Prepended3
  <2>3. OpenOK(disk', << >> \o Tail(Todo(r))) /\ OpenOK(disk', Onto(SP, Todo(r)))
    BY <2>1, <2>2 DEF OpenOK, CC, SR, SP, look
  <2> QED BY <1>3, <2>1, <2>3, IdentityNotCells DEF CR, SP, Onto
<1>7. CASE Todo(r) = <<SP, look, CC, SR>>
  <2> HIDE DEF CC, SR, SP, look
  <2>1. /\ Todo(r) # << >> /\ Head(Todo(r)) = SP
        /\ << >> \o Tail(Todo(r)) = <<look, CC, SR>>
    BY <1>7
  <2>2. OpenOK(disk', << >> \o Tail(Todo(r)))
    BY <2>1 DEF OpenOK, CC, SR, look
  <2> QED BY <1>4, <2>1, <2>2 DEF SP
<1>8. CASE Todo(r) = <<look, CC, SR>>
  <2> HIDE DEF CC, SR, look, list
  <2>1. /\ Todo(r) # << >> /\ Head(Todo(r)) = look
        /\ << >> \o Tail(Todo(r)) = <<CC, SR>>
    BY <1>8
  <2>2. /\ disk' = disk /\ known' = known
        /\ \/ Identity \in seen /\ Progress(r, << >> \o Tail(Todo(r)))
           \/ Progress(r, <<list>> \o Tail(Todo(r)))
    BY <2>1, LookStep DEF look, list
  <2>3. DiskOK(disk', known') /\ Respects(r)
    BY <2>2, SameStep
  <2>4. Onto(list, Todo(r)) = <<list, CC, SR>>
    BY <1>8, Prepended2
  <2>5. /\ Identity \in seen => OpenOK(disk', << >> \o Tail(Todo(r)))
        /\ OpenOK(disk', Onto(list, Todo(r)))
    BY <2>1, <2>2, <2>4 DEF OpenOK, CC, SR, list
  <2> QED BY <1>2, <2>2, <2>3, <2>5 DEF Onto
<1>9. CASE Todo(r) = <<list, CC, SR>>
  <2> HIDE DEF CC, SR, CI, list
  <2>1. Todo(r) # << >> /\ Head(Todo(r)) = list
    BY <1>9
  <2>2. Listing(r)
    BY <2>1, ListStep DEF list
  <2>3. disk' = disk /\ known' = known
    BY <2>2 DEF Listing
  <2>4. DiskOK(disk', known') /\ Respects(r)
    BY <2>3, SameStep
  <2>5. CASE Rest(r, <<Create(Identity, IdentityFile, <<Sync(Root)>>)>>) /\ UNCHANGED store
    <3>1. Progress(r, <<CI>> \o Tail(Todo(r)))
      BY <2>2, <2>5, RestProgress DEF Listing, CI
    <3>2. Onto(CI, Todo(r)) = <<CI, CC, SR>>
      BY <1>9, Prepended2
    <3>3. OpenOK(disk', Onto(CI, Todo(r)))
      BY <3>2 DEF OpenOK, CC, SR, CI
    <3> QED BY <1>2, <2>3, <2>4, <3>1, <3>3 DEF Onto
  <2>6. CASE /\ call' = [call EXCEPT ![r] = NoCall]
             /\ store' = [store EXCEPT ![r] = "refused"]
    <3>1. UNCHANGED <<disk, lock, attempt, begun, known, trouble>>
      BY <2>2 DEF Listing
    <3>2. call'[r] = NoCall /\ store'[r] = "refused" /\ attempt'[r] = NoAttempt
      BY <1>1, <2>6, <3>1 DEF IInv
    <3>3. OnlyMoves(r)
      BY <2>6, <3>1 DEF OnlyMoves, IInv
    <3>4. Locks(r)
      BY <1>1, <3>1 DEF IInv, Locks
    <3>5. Counted
      BY <3>1, TroubleAssumption DEF IInv, Counted
    <3>6. Keeps(r)
      BY <3>2 DEF Keeps, AttemptOK, RunnerOK, NoCall
    <3> QED BY <2>3, <2>4, <3>3, <3>4, <3>5, <3>6, RunnerMoves
  <2> QED BY <2>2, <2>5, <2>6 DEF Listing
<1>10. CASE Todo(r) = <<CI, CC, SR>>
  <2> HIDE DEF CC, SR, CI
  <2>1. /\ Todo(r) # << >> /\ Head(Todo(r)) = CI
        /\ << >> \o Tail(Todo(r)) = <<CC, SR>>
    BY <1>10
  <2>3. Onto(SR, Todo(r)) = <<SR, CC, SR>>
    BY <1>10, Prepended2
  <2>2. Identity \in DOMAIN disk'.seen =>
          OpenOK(disk', << >> \o Tail(Todo(r))) /\ OpenOK(disk', Onto(SR, Todo(r)))
    BY <2>1, <2>3 DEF OpenOK, CC, SR
  <2> QED BY <1>3, <2>1, <2>2, IdentityNotCells DEF CI, SR, Onto
<1>11. CASE Identity \in seen /\ Todo(r) = <<SR, CC, SR>>
  <2> HIDE DEF CC, SR
  <2>1. /\ Todo(r) # << >> /\ Head(Todo(r)) = SR
        /\ << >> \o Tail(Todo(r)) = <<CC, SR>>
    BY <1>11
  <2>2. Identity \in DOMAIN disk'.seen => OpenOK(disk', << >> \o Tail(Todo(r)))
    BY <2>1 DEF OpenOK, CC, SR
  <2> QED BY <1>4, <1>11, <2>1, <2>2 DEF SR
<1>12. CASE Identity \in seen /\ Todo(r) = <<CC, SR>>
  <2> HIDE DEF CC, SR
  <2>1. /\ Todo(r) # << >> /\ Head(Todo(r)) = CC
        /\ << >> \o Tail(Todo(r)) = <<SR>>
    BY <1>12
  <2>2. Identity \in DOMAIN disk'.seen => OpenOK(disk', << >> \o Tail(Todo(r)))
    BY <2>1 DEF OpenOK, SR
  <2> QED BY <1>3, <1>12, <2>1, <2>2 DEF CC, CreateCells
<1>13. CASE Identity \in seen /\ Todo(r) = <<SR>>
  <2> HIDE DEF SR
  <2>1. /\ Todo(r) # << >> /\ Head(Todo(r)) = SR
        /\ << >> \o Tail(Todo(r)) = << >>
    BY <1>13
  <2>2. Identity \in DOMAIN disk'.seen => OpenOK(disk', << >> \o Tail(Todo(r)))
    BY <2>1 DEF OpenOK
  <2> QED BY <1>4, <1>13, <2>1, <2>2 DEF SR
<1>14. CASE Todo(r) = << >>
  BY <1>14 DEF FileStep, Making, Finding, Replacing, Syncing, Looking, Listing, Due
<1> QED BY <1>1, <1>5, <1>6, <1>7, <1>8, <1>9, <1>10, <1>11, <1>12, <1>13, <1>14 DEF OpenOK

LEMMA OpenAttempt ==
  ASSUME IInv, NEW r \in Runners, call[r].method \in {"begin", "stage", "commit"}
  PROVE  /\ attempt[r] # NoAttempt /\ ~attempt[r].closed /\ store[r] = "open"
         /\ attempt[r].cell \in Cells /\ attempt[r].id \in 1..begun /\ attempt[r].id \in Nat
         /\ Identity \in DOMAIN disk.seen /\ AttemptOpen(r)
<1>1. /\ attempt[r] # NoAttempt /\ ~attempt[r].closed /\ store[r] = "open"
      /\ attempt[r].cell \in Cells /\ attempt[r].id \in 1..begun
      /\ Identity \in DOMAIN disk.seen
  BY DEF IInv, RunnerOK, AttemptOK
<1>2. begun \in Nat
  BY TroubleAssumption DEF IInv
<1> QED BY <1>1, <1>2 DEF AttemptOpen

LEMMA BeginFileStep ==
  ASSUME IInv, NEW r \in Runners, call[r].method = "begin", FileStep(r)
  PROVE  IInv'
<1> DEFINE c   == attempt[r].cell
           a   == attempt[r].id
           seen == DOMAIN disk.seen
           MC  == Create(CellDir(c), Dir, << >>)
           MA  == Create(Attempts(c), Dir, << >>)
           MM  == Create(Manifests(c), Dir, << >>)
           MD  == Create(AttemptDir(c, a), Dir, << >>)
           SS  == Sync(CellsDir)
           SC  == Sync(CellDir(c))
           SA  == Sync(Attempts(c))
<1>1. /\ BeginOK(disk, c, a, Todo(r)) /\ \A q \in Own(c, a) : q \notin seen
      /\ attempt[r] # NoAttempt /\ ~attempt[r].closed /\ store[r] = "open"
      /\ c \in Cells /\ a \in Nat /\ Identity \in seen
      /\ WellFormed(disk)
  BY OpenAttempt DEF IInv, RunnerOK, Todo, DiskOK, WellFormed
<1>2. ASSUME NEW todo, Progress(r, todo), BeginOK(disk', c, a, todo), known' = known,
             \A q \in Own(c, a) : q \notin DOMAIN disk'.seen,
             DiskOK(disk', known'), Respects(r)
      PROVE  IInv'
  <2>1. Identity \in DOMAIN disk'.seen
    BY <1>1, <1>2 DEF Respects
  <2>2. /\ call'[r].method = "begin" /\ call'[r].todo = todo
        /\ call'[r] = [method |-> call'[r].method, todo |-> call'[r].todo,
                       answer |-> call'[r].answer]
    BY <1>2 DEF Progress
  <2>3. RunnerOK(disk', store[r], attempt[r], call'[r], known')
    BY <1>1, <1>2, <2>1, <2>2 DEF RunnerOK
  <2> QED BY <1>2, <2>3, StepDone
<1>3. ASSUME NEW p \in Dirs(c, a), Todo(r) # << >>, Head(Todo(r)) = Create(p, Dir, << >>),
             (p \in DOMAIN disk'.seen /\ seen \subseteq DOMAIN disk'.seen) =>
               BeginOK(disk', c, a, << >> \o Tail(Todo(r)))
      PROVE  IInv'
  <2>0. /\ p # CellsDir
        /\ \A d \in Cells : p # Pointer(d)
        /\ \A d \in Cells, b \in Nat : p \notin Own(d, b)
    BY <1>1, Apart
  <2>1. CASE /\ p \notin DOMAIN disk.seen
             /\ disk' = Named(disk, p, Dir) /\ known' = known \cup Visible(disk'.seen)
             /\ Progress(r, << >> \o Tail(Todo(r)))
    <3>1. known' = known /\ DiskOK(disk', known') /\ Respects(r)
      BY <2>0, <2>1, NamedStep
    <3>2. DOMAIN disk'.seen = seen \cup {p}
      BY <1>1, <2>1, NamedDisk
    <3>3. \A q \in Own(c, a) : q \notin DOMAIN disk'.seen
      BY <1>1, <2>0, <3>2
    <3> QED BY <1>2, <1>3, <2>1, <3>1, <3>2, <3>3
  <2>2. CASE /\ p \in DOMAIN disk.seen
             /\ disk' = disk /\ known' = known
             /\ Progress(r, << >> \o Tail(Todo(r)))
    BY <1>1, <1>2, <1>3, <2>2, SameStep
  <2> QED BY <1>3, <2>1, <2>2, CreateStep
<1>4. ASSUME NEW dir, Todo(r) # << >>, Head(Todo(r)) = Sync(dir),
             (/\ seen = DOMAIN disk'.seen
              /\ \A q : SameEntry(disk, q) => SameEntry(disk', q)
              /\ \A q \in seen : (Len(q) = Len(dir) + 1 /\ Front(q) = dir) => SameEntry(disk', q))
               => BeginOK(disk', c, a, << >> \o Tail(Todo(r)))
      PROVE  IInv'
  <2>1. /\ disk' = Synced(disk, dir) /\ known' = known \cup Visible(disk'.seen)
        /\ Progress(r, << >> \o Tail(Todo(r)))
    BY <1>4, SyncStep
  <2>2. known' = known /\ DiskOK(disk', known') /\ Respects(r)
    BY <2>1, SyncedStep
  <2>3. /\ seen = DOMAIN disk'.seen
        /\ \A q : SameEntry(disk, q) => SameEntry(disk', q)
        /\ \A q \in seen : (Len(q) = Len(dir) + 1 /\ Front(q) = dir) => SameEntry(disk', q)
    BY <1>1, <2>1, SyncedSettles
  <2>4. \A q \in Own(c, a) : q \notin DOMAIN disk'.seen
    BY <1>1, <2>3
  <2> QED BY <1>2, <1>4, <2>1, <2>2, <2>3, <2>4
<1>5. /\ CellDir(c) \in Dirs(c, a) /\ Attempts(c) \in Dirs(c, a)
      /\ Manifests(c) \in Dirs(c, a) /\ AttemptDir(c, a) \in Dirs(c, a)
  BY DEF Dirs
<1>6. /\ Len(CellDir(c)) = Len(CellsDir) + 1 /\ Front(CellDir(c)) = CellsDir
      /\ Len(Attempts(c)) = Len(CellDir(c)) + 1 /\ Front(Attempts(c)) = CellDir(c)
      /\ Len(Manifests(c)) = Len(CellDir(c)) + 1 /\ Front(Manifests(c)) = CellDir(c)
      /\ Len(AttemptDir(c, a)) = Len(Attempts(c)) + 1 /\ Front(AttemptDir(c, a)) = Attempts(c)
  <2> HIDE DEF c, a
  <2>1. c \in Cells /\ a \in Nat
    BY <1>1
  <2>2. /\ Len(CellDir(c)) = 4 /\ Front(CellDir(c)) = CellsDir
        /\ Len(Attempts(c)) = 5 /\ Front(Attempts(c)) = CellDir(c)
    BY <2>1, CellPaths DEF Level
  <2>3. /\ Len(Manifests(c)) = 5 /\ Front(Manifests(c)) = CellDir(c)
        /\ Len(AttemptDir(c, a)) = 6 /\ Front(AttemptDir(c, a)) = Attempts(c)
    BY <2>1, CellPaths DEF Level
  <2>4. Len(CellsDir) = 3
    BY TopPaths DEF Level
  <2> QED BY <2>2, <2>3, <2>4
<1>7. CASE Todo(r) = BeginScript(c, a)
  <2>1. Todo(r) = <<MC, MA, MM, MD, SS, SC, SA>>
    BY <1>7 DEF BeginScript
  <2> HIDE DEF MC, MA, MM, MD, SS, SC, SA, c, a
  <2>2. /\ Todo(r) # << >> /\ Head(Todo(r)) = MC
        /\ << >> \o Tail(Todo(r)) = <<MA, MM, MD, SS, SC, SA>>
    BY <2>1
  <2>3. CellDir(c) \in DOMAIN disk'.seen => BeginOK(disk', c, a, << >> \o Tail(Todo(r)))
    BY <2>2 DEF BeginOK, MA, MM, MD, SS, SC, SA
  <2> QED BY <1>3, <1>5, <2>2, <2>3 DEF MC
<1>8. CASE /\ CellDir(c) \in seen
           /\ Todo(r) = <<MA, MM, MD, SS, SC, SA>>
  <2> HIDE DEF MC, MA, MM, MD, SS, SC, SA, c, a
  <2>2. /\ Todo(r) # << >> /\ Head(Todo(r)) = MA
        /\ << >> \o Tail(Todo(r)) = <<MM, MD, SS, SC, SA>>
    BY <1>8
  <2>3. {CellDir(c), Attempts(c)} \subseteq DOMAIN disk'.seen
          => BeginOK(disk', c, a, << >> \o Tail(Todo(r)))
    BY <2>2 DEF BeginOK, MM, MD, SS, SC, SA
  <2> QED BY <1>3, <1>5, <1>8, <2>2, <2>3 DEF MA
<1>9. CASE /\ CellDir(c) \in seen /\ Attempts(c) \in seen
           /\ Todo(r) = <<MM, MD, SS, SC, SA>>
  <2> HIDE DEF MC, MA, MM, MD, SS, SC, SA, c, a
  <2>2. /\ Todo(r) # << >> /\ Head(Todo(r)) = MM
        /\ << >> \o Tail(Todo(r)) = <<MD, SS, SC, SA>>
    BY <1>9
  <2>3. {CellDir(c), Attempts(c), Manifests(c)} \subseteq DOMAIN disk'.seen
          => BeginOK(disk', c, a, << >> \o Tail(Todo(r)))
    BY <2>2 DEF BeginOK, MD, SS, SC, SA
  <2> QED BY <1>3, <1>5, <1>9, <2>2, <2>3 DEF MM
<1>10. CASE /\ CellDir(c) \in seen /\ Attempts(c) \in seen /\ Manifests(c) \in seen
            /\ Todo(r) = <<MD, SS, SC, SA>>
  <2> HIDE DEF MC, MA, MM, MD, SS, SC, SA, c, a
  <2>2. /\ Todo(r) # << >> /\ Head(Todo(r)) = MD
        /\ << >> \o Tail(Todo(r)) = <<SS, SC, SA>>
    BY <1>10
  <2>3. {CellDir(c), Attempts(c), Manifests(c), AttemptDir(c, a)} \subseteq DOMAIN disk'.seen
          => BeginOK(disk', c, a, << >> \o Tail(Todo(r)))
    BY <2>2 DEF BeginOK, SS, SC, SA
  <2> QED BY <1>3, <1>5, <1>10, <2>2, <2>3 DEF MD
<1>11. CASE /\ CellDir(c) \in seen /\ Attempts(c) \in seen /\ Manifests(c) \in seen
            /\ AttemptDir(c, a) \in seen
            /\ Todo(r) = <<SS, SC, SA>>
  <2> HIDE DEF MC, MA, MM, MD, SS, SC, SA, c, a
  <2>2. /\ Todo(r) # << >> /\ Head(Todo(r)) = SS
        /\ << >> \o Tail(Todo(r)) = <<SC, SA>>
    BY <1>11
  <2>3. (/\ SameEntry(disk', CellDir(c))
         /\ {Attempts(c), Manifests(c), AttemptDir(c, a)} \subseteq DOMAIN disk'.seen)
          => BeginOK(disk', c, a, << >> \o Tail(Todo(r)))
    BY <2>2 DEF BeginOK, SC, SA
  <2> QED BY <1>4, <1>6, <1>11, <2>2, <2>3 DEF SS
<1>12. CASE /\ SameEntry(disk, CellDir(c)) /\ Attempts(c) \in seen /\ Manifests(c) \in seen
            /\ AttemptDir(c, a) \in seen
            /\ Todo(r) = <<SC, SA>>
  <2> HIDE DEF MC, MA, MM, MD, SS, SC, SA, c, a
  <2>2. /\ Todo(r) # << >> /\ Head(Todo(r)) = SC
        /\ << >> \o Tail(Todo(r)) = <<SA>>
    BY <1>12
  <2>3. (/\ SameEntry(disk', CellDir(c)) /\ SameEntry(disk', Attempts(c))
         /\ SameEntry(disk', Manifests(c)) /\ AttemptDir(c, a) \in DOMAIN disk'.seen)
          => BeginOK(disk', c, a, << >> \o Tail(Todo(r)))
    BY <2>2 DEF BeginOK, SA
  <2> QED BY <1>4, <1>6, <1>12, <2>2, <2>3 DEF SC
<1>13. CASE /\ SameEntry(disk, CellDir(c)) /\ SameEntry(disk, Attempts(c))
            /\ SameEntry(disk, Manifests(c)) /\ AttemptDir(c, a) \in seen
            /\ Todo(r) = <<SA>>
  <2> HIDE DEF MC, MA, MM, MD, SS, SC, SA, c, a
  <2>2. /\ Todo(r) # << >> /\ Head(Todo(r)) = SA
        /\ << >> \o Tail(Todo(r)) = << >>
    BY <1>13
  <2>3. (/\ SameEntry(disk', CellDir(c)) /\ SameEntry(disk', Attempts(c))
         /\ SameEntry(disk', Manifests(c)) /\ SameEntry(disk', AttemptDir(c, a)))
          => BeginOK(disk', c, a, << >> \o Tail(Todo(r)))
    BY <2>2 DEF BeginOK, DirsSettled, Dirs
  <2> QED BY <1>4, <1>6, <1>13, <2>2, <2>3 DEF SA
<1>14. CASE Todo(r) = << >>
  BY <1>14 DEF FileStep, Making, Finding, Replacing, Syncing, Looking, Listing, Due
<1> HIDE DEF c, a
<1> QED BY <1>1, <1>7, <1>8, <1>9, <1>10, <1>11, <1>12, <1>13, <1>14 DEF BeginOK

LEMMA NotSealed ==
  ASSUME IInv, NEW r \in Runners, AttemptOpen(r), call[r].method # "commit", NEW ref \in known
  PROVE  ~(ref.cell = attempt[r].cell /\ ref.attempt = attempt[r].id)
<1>1. PICK c \in Cells, a \in 1..begun :
        ref = Ref(Manifest(c, a, ref.sha.files)) /\ Sealed(c, a)
  BY DEF IInv, KnownRef
<1> QED BY <1>1, RefFields DEF Sealed

StagedFile(c, a, f, v) == Replace(FilePath(c, a, f), Payload(v))

LEMMA StageFileStep ==
  ASSUME IInv, NEW r \in Runners, call[r].method = "stage", FileStep(r)
  PROVE  IInv'
<1> DEFINE c   == attempt[r].cell
           a   == attempt[r].id
           seen == DOMAIN disk.seen
           SA  == Sync(AttemptDir(c, a))
<1>1. /\ StageOK(disk, c, a, Todo(r))
      /\ attempt[r] # NoAttempt /\ ~attempt[r].closed /\ store[r] = "open"
      /\ c \in Cells /\ a \in Nat /\ Identity \in seen
      /\ WellFormed(disk) /\ DiskOK(disk, known) /\ AttemptOpen(r)
  BY OpenAttempt DEF IInv, RunnerOK, Todo, DiskOK, WellFormed
<1>2. ASSUME NEW todo, Progress(r, todo), StageOK(disk', c, a, todo), known' = known,
             DiskOK(disk', known'), Respects(r)
      PROVE  IInv'
  <2>1. Identity \in DOMAIN disk'.seen
    BY <1>1, <1>2 DEF Respects
  <2>2. /\ call'[r].method = "stage" /\ call'[r].todo = todo
        /\ call'[r] = [method |-> call'[r].method, todo |-> call'[r].todo,
                       answer |-> call'[r].answer]
    BY <1>2 DEF Progress
  <2>3. RunnerOK(disk', store[r], attempt[r], call'[r], known')
    BY <1>1, <1>2, <2>1, <2>2 DEF RunnerOK
  <2> QED BY <1>2, <2>3, StepDone
<1>3. ASSUME NEW f \in Files, NEW v, Todo(r) = StageScript(c, a, f, v) PROVE IInv'
  <2> DEFINE p == FilePath(c, a, f)
             x == Payload(v)
  <2>1. Todo(r) = <<StagedFile(c, a, f, v), SA>>
    BY <1>3 DEF StageScript, StagedFile, FilePath
  <2> HIDE DEF c, a, p, SA, x
  <2>2. /\ Todo(r) # << >> /\ Head(Todo(r)) = StagedFile(c, a, f, v)
        /\ << >> \o Tail(Todo(r)) = <<SA>>
    BY <2>1
  <2>3. /\ disk' = Named(disk, p, x) /\ known' = known \cup Visible(disk'.seen)
        /\ Progress(r, <<SA>>)
    BY <2>2, ReplaceStep DEF StagedFile, p, x
  <2>4. p \in Own(c, a) /\ p # ManifestPath(c, a)
    BY <1>1, CellPaths DEF Own, p, Level
  <2>5. /\ p # CellsDir
        /\ \A d \in Cells : p # Pointer(d)
        /\ \A d \in Cells, b \in Nat : p \notin Dirs(d, b) /\ (p \in Own(d, b) => c = d /\ a = b)
    BY <1>1, <2>4, Apart
  <2>6. /\ WellFormed(disk') /\ disk'.kept = disk.kept
        /\ DOMAIN disk'.seen = seen \cup {p}
        /\ \A q \in seen : q # p => disk'.seen[q] = disk.seen[q]
        /\ \A q : (SameEntry(disk, q) /\ q # p) => SameEntry(disk', q)
    BY <1>1, <2>3, NamedDisk
  <2>7. known' = known
    BY <1>1, <2>3, <2>5, <2>6, NoneNew
  <2>8. DiskOK(disk', known')
    BY <1>1, <2>5, <2>6, <2>7 DEF DiskOK, WellFormed
  <2>9. \A d \in Cells, b \in Nat : Leaves(disk, disk', d, b) \/ (c = d /\ a = b)
    BY <1>1, <2>3, <2>5, NamedLeaves
  <2>10. \A ref \in known : Leaves(disk, disk', ref.cell, ref.attempt)
    <3> TAKE ref \in known
    <3>1. ref.cell \in Cells /\ ref.attempt \in Nat
      BY KnownIds
    <3>2. ~(ref.cell = c /\ ref.attempt = a)
      BY <1>1, NotSealed DEF c, a
    <3> QED BY <2>9, <3>1, <3>2
  <2>11. Respects(r)
    BY <1>1, <2>6, <2>9, <2>10 DEF Respects, c, a
  <2>12. DirsSettled(disk', c, a)
    BY <1>1, <2>5, <2>6 DEF StageOK, DirsSettled
  <2>13. Unpublished(disk', c, a)
    BY <1>1, <2>4, <2>6 DEF StageOK, Unpublished
  <2>14. StageOK(disk', c, a, <<SA>>)
    BY <2>12, <2>13 DEF StageOK, SA
  <2> QED BY <1>2, <2>3, <2>7, <2>8, <2>11, <2>14
<1>4. CASE Todo(r) = <<SA>>
  <2> HIDE DEF c, a, SA
  <2>1. /\ Todo(r) # << >> /\ Head(Todo(r)) = SA
        /\ << >> \o Tail(Todo(r)) = << >>
    BY <1>4
  <2>2. /\ disk' = Synced(disk, AttemptDir(c, a)) /\ known' = known \cup Visible(disk'.seen)
        /\ Progress(r, << >>)
    BY <2>1, SyncStep DEF SA
  <2>3. known' = known /\ DiskOK(disk', known') /\ Respects(r)
    BY <2>2, SyncedStep
  <2>4. /\ disk'.seen = disk.seen
        /\ \A q : SameEntry(disk, q) => SameEntry(disk', q)
        /\ \A q \in seen : (/\ Len(q) = Len(AttemptDir(c, a)) + 1
                            /\ Front(q) = AttemptDir(c, a)) => SameEntry(disk', q)
    BY <1>1, <2>2, SyncedSettles
  <2>5. \A f \in Files : /\ Len(FilePath(c, a, f)) = Len(AttemptDir(c, a)) + 1
                         /\ Front(FilePath(c, a, f)) = AttemptDir(c, a)
    <3>1. Len(AttemptDir(c, a)) = 6 /\ \A f \in Files : Len(FilePath(c, a, f)) = 7
      BY <1>1, CellPaths DEF Level
    <3>2. \A f \in Files : Front(FilePath(c, a, f)) = AttemptDir(c, a)
      BY <1>1, CellPaths
    <3> QED BY <3>1, <3>2
  <2>6. FilesSettled(disk', c, a)
    BY <2>4, <2>5 DEF FilesSettled
  <2>7. DirsSettled(disk', c, a) /\ Unpublished(disk', c, a)
    BY <1>1, <2>4 DEF StageOK, DirsSettled, Unpublished
  <2>8. StageOK(disk', c, a, << >>)
    BY <2>6, <2>7 DEF StageOK
  <2> QED BY <1>2, <2>2, <2>3, <2>8
<1>5. CASE Todo(r) = << >>
  BY <1>5 DEF FileStep, Making, Finding, Replacing, Syncing, Looking, Listing, Due
<1> HIDE DEF c, a
<1> QED BY <1>1, <1>3, <1>4, <1>5 DEF StageOK

LEMMA ForeignFileStep ==
  ASSUME IInv, NEW r \in Runners, call[r].method \in {"create", "save"}, FileStep(r)
  PROVE  IInv'
<1>1. /\ ForeignOK(Todo(r)) /\ WellFormed(disk)
      /\ RunnerOK(disk, store[r], attempt[r], call[r], known)
      /\ AttemptOK(attempt[r], begun, known)
  BY DEF IInv, RunnerOK, Todo, DiskOK, WellFormed
<1>2. ASSUME NEW todo, Progress(r, todo), ForeignOK(todo), known' = known,
             DiskOK(disk', known'), Respects(r),
             \A c \in Cells, a \in Nat : Leaves(disk, disk', c, a)
      PROVE  IInv'
  <2>1. /\ call'[r].method = call[r].method /\ call'[r].todo = todo
        /\ call'[r] = [method |-> call'[r].method, todo |-> call'[r].todo,
                       answer |-> call'[r].answer]
    BY <1>2 DEF Progress
  <2>2. attempt[r] # NoAttempt => Leaves(disk, disk', attempt[r].cell, attempt[r].id)
    BY <1>1, <1>2, TroubleAssumption DEF AttemptOK, IInv
  <2>3. RunnerOK(disk', store[r], attempt[r], call[r], known')
    BY <1>1, <1>2, <2>2, RunnerLeft DEF Respects
  <2>4. RunnerOK(disk', store[r], attempt[r], call'[r], known')
    BY <1>2, <2>1, <2>3 DEF RunnerOK
  <2> QED BY <1>2, <2>4, StepDone
<1>3. ASSUME NEW p, NEW x, NEW todo, Elsewhere(p), Progress(r, todo), ForeignOK(todo),
             disk' = Named(disk, p, x), known' = known \cup Visible(disk'.seen)
      PROVE  IInv'
  <2>1. /\ p # CellsDir /\ \A c \in Cells : p # Pointer(c)
        /\ \A c \in Cells, a \in Nat : p \notin Own(c, a) \cup Dirs(c, a)
    <3>1. 0 \in Nat
      OBVIOUS
    <3> QED BY <1>3, <3>1 DEF Elsewhere
  <2>2. known' = known /\ DiskOK(disk', known') /\ Respects(r)
    BY <1>3, <2>1, NamedStep
  <2>3. \A c \in Cells, a \in Nat : Leaves(disk, disk', c, a)
    BY <1>1, <1>3, <2>1, NamedLeaves
  <2> QED BY <1>2, <1>3, <2>2, <2>3
<1>4. ASSUME NEW p, NEW x, NEW d, Elsewhere(p), Todo(r) = <<Create(p, x, <<Sync(d)>>)>>
      PROVE  IInv'
  <2> DEFINE step == Create(p, x, <<Sync(d)>>)
  <2> HIDE DEF step
  <2>1. Todo(r) = <<step>>
    BY <1>4 DEF step
  <2>2. /\ Todo(r) # << >> /\ Head(Todo(r)) = step /\ Tail(Todo(r)) = << >>
        /\ << >> \o Tail(Todo(r)) = << >> /\ <<Sync(d)>> \o Tail(Todo(r)) = <<Sync(d)>>
    BY <2>1
  <2>3. ForeignOK(<<Sync(d)>>) /\ ForeignOK(<< >>)
    BY DEF ForeignOK
  <2>4. \/ /\ disk' = Named(disk, p, x) /\ known' = known \cup Visible(disk'.seen)
           /\ Progress(r, <<Sync(d)>>)
        \/ /\ disk' = disk /\ known' = known
           /\ Progress(r, << >>)
    BY <2>2, CreateStep DEF step
  <2> QED BY <1>2, <1>3, <1>4, <2>3, <2>4, SameStep DEF Leaves
<1>5. ASSUME NEW p, NEW x, NEW d, Elsewhere(p), Todo(r) = <<Replace(p, x), Sync(d)>>
      PROVE  IInv'
  <2> DEFINE step == Replace(p, x)
             next == Sync(d)
  <2> HIDE DEF step, next
  <2>1. Todo(r) = <<step, next>>
    BY <1>5 DEF step, next
  <2>2. /\ Todo(r) # << >> /\ Head(Todo(r)) = step
        /\ << >> \o Tail(Todo(r)) = <<next>>
    BY <2>1
  <2>3. ForeignOK(<<next>>)
    BY DEF ForeignOK, next
  <2>4. /\ disk' = Named(disk, p, x) /\ known' = known \cup Visible(disk'.seen)
        /\ Progress(r, <<next>>)
    BY <2>2, ReplaceStep DEF step
  <2> QED BY <1>3, <1>5, <2>3, <2>4
<1>6. ASSUME NEW d, Todo(r) = <<Sync(d)>> PROVE IInv'
  <2> DEFINE step == Sync(d)
  <2> HIDE DEF step
  <2>1. /\ Todo(r) # << >> /\ Head(Todo(r)) = step /\ << >> \o Tail(Todo(r)) = << >>
    BY <1>6 DEF step
  <2>2. /\ disk' = Synced(disk, d) /\ known' = known \cup Visible(disk'.seen)
        /\ Progress(r, << >>)
    BY <2>1, SyncStep DEF step
  <2>3. known' = known /\ DiskOK(disk', known') /\ Respects(r)
    BY <2>2, SyncedStep
  <2>4. \A c \in Cells, a \in Nat : Leaves(disk, disk', c, a)
    BY <1>1, <2>2, SyncedLeaves
  <2>5. ForeignOK(<< >>)
    BY DEF ForeignOK
  <2> QED BY <1>2, <2>2, <2>3, <2>4, <2>5
<1>7. CASE Todo(r) = << >>
  BY <1>7 DEF FileStep, Making, Finding, Replacing, Syncing, Looking, Listing, Due
<1> QED BY <1>1, <1>4, <1>5, <1>6, <1>7 DEF ForeignOK

LEMMA CommitFileStep ==
  ASSUME IInv, NEW r \in Runners, call[r].method = "commit", FileStep(r)
  PROVE  IInv'
<1> DEFINE c     == attempt[r].cell
           a     == attempt[r].id
           seen  == DOMAIN disk.seen
           files == FilesOf(disk.seen, c, a)
           m     == Manifest(c, a, files)
           MP    == ManifestPath(c, a)
           CM    == Create(MP, m, <<Sync(Manifests(c))>>)
           SM    == Sync(Manifests(c))
           RP    == Replace(Pointer(c), Ref(m))
           SC    == Sync(CellDir(c))
           answer == call[r].answer
<1>1. /\ CommitOK(disk, c, a, Todo(r), answer, known)
      /\ attempt[r] # NoAttempt /\ ~attempt[r].closed /\ store[r] = "open"
      /\ c \in Cells /\ a \in Nat /\ a \in 1..begun /\ Identity \in seen
      /\ WellFormed(disk) /\ DiskOK(disk, known) /\ AttemptOpen(r)
  BY OpenAttempt DEF IInv, RunnerOK, Todo, DiskOK, WellFormed
<1>2. ASSUME NEW todo, Progress(r, todo), CommitOK(disk', c, a, todo, answer, known'),
             seen \subseteq DOMAIN disk'.seen
      PROVE  RunnerOK(disk', store[r], attempt[r], call'[r], known')
  <2>2. /\ call'[r].method = "commit" /\ call'[r].todo = todo
        /\ call'[r].answer = answer
        /\ call'[r] = [method |-> call'[r].method, todo |-> call'[r].todo,
                       answer |-> call'[r].answer]
    BY <1>2 DEF Progress
  <2> HIDE DEF answer
  <2> QED BY <1>1, <1>2, <2>2 DEF RunnerOK
<1>3. /\ answer = Ref(m) /\ DirsSettled(disk, c, a) /\ FilesSettled(disk, c, a)
  BY <1>1 DEF CommitOK
<1>4. ASSUME NEW todo, Progress(r, todo), CommitOK(disk', c, a, todo, answer, known'),
             known' = known, DiskOK(disk', known'), Respects(r)
      PROVE  IInv'
  BY <1>2, <1>4, StepDone DEF Respects
<1>5. MP \in Own(c, a) /\ MP # CellsDir /\ (\A d \in Cells : MP # Pointer(d))
      /\ \A d \in Cells, b \in Nat : MP \notin Dirs(d, b) /\ (MP \in Own(d, b) => c = d /\ a = b)
  <2>1. MP \in Own(c, a)
    BY DEF Own
  <2> HIDE DEF MP
  <2> QED BY <1>1, <2>1, Apart
<1>6. \A f \in Files : FilePath(c, a, f) # MP /\ FilePath(c, a, f) \in Own(c, a)
  <2>1. \A f \in Files : FilePath(c, a, f) \in Own(c, a)
    BY DEF Own
  <2>2. Len(MP) = 6 /\ \A f \in Files : Len(FilePath(c, a, f)) = 7
    BY <1>1, CellPaths DEF Level
  <2> QED BY <2>1, <2>2
<1>7. CASE Unpublished(disk, c, a) /\ Todo(r) = CommitScript(m)
  <2>1. Todo(r) = <<CM, RP, SC>>
    BY <1>7 DEF CommitScript, Manifest
  <2>2. Todo(r) # << >> /\ Head(Todo(r)) = CM
    <3> HIDE DEF CM, RP, SC
    <3> QED BY <2>1
  <2>3. Onto(SM, Todo(r)) = <<SM, RP, SC>>
    <3> HIDE DEF CM, RP, SC, SM
    <3> QED BY <2>1, Prepended2
  <2>4. MP \notin seen
    BY <1>7 DEF Unpublished
  <2> HIDE DEF CM, MP, m, files, c, a, answer, RP, SC, SM
  <2>5. /\ disk' = Named(disk, MP, m) /\ known' = known \cup Visible(disk'.seen)
        /\ Progress(r, <<SM, RP, SC>>)
    <3>1. /\ disk' = Named(disk, MP, m) /\ known' = known \cup Visible(disk'.seen)
          /\ Progress(r, <<SM>> \o Tail(Todo(r)))
      BY <2>2, <2>4, CreateStep DEF CM, SM
    <3> QED BY <2>3, <3>1 DEF Onto
  <2>6. /\ WellFormed(disk') /\ disk'.kept = disk.kept
        /\ DOMAIN disk'.seen = seen \cup {MP} /\ disk'.seen[MP] = m
        /\ \A q \in seen : q # MP => disk'.seen[q] = disk.seen[q]
        /\ \A q : (SameEntry(disk, q) /\ q # MP) => SameEntry(disk', q)
    BY <1>1, <2>5, NamedDisk
  <2>7. known' = known
    BY <1>1, <1>5, <2>5, <2>6, NoneNew
  <2>8. DiskOK(disk', known')
    BY <1>1, <1>5, <2>6, <2>7 DEF DiskOK, WellFormed
  <2>9. \A d \in Cells, b \in Nat : Leaves(disk, disk', d, b) \/ (c = d /\ a = b)
    BY <1>1, <1>5, <2>5, NamedLeaves
  <2>10. \A ref \in known : Leaves(disk, disk', ref.cell, ref.attempt)
    <3> TAKE ref \in known
    <3>1. ref.cell \in Cells /\ ref.attempt \in Nat
      BY KnownIds
    <3>2. PICK d \in Cells, b \in 1..begun :
            /\ ref = Ref(Manifest(d, b, ref.sha.files))
            /\ Generation(disk, d, b, ref.sha.files)
      BY DEF IInv, KnownRef
    <3>3. ref.cell = d /\ ref.attempt = b
      BY <3>2, RefFields
    <3>4. ManifestPath(d, b) \in seen
      BY <3>2 DEF Generation, SameEntry
    <3>5. ~(c = d /\ a = b)
      BY <2>4, <3>4 DEF MP
    <3> QED BY <2>9, <3>1, <3>3, <3>5
  <2>11. Respects(r)
    BY <1>1, <2>6, <2>9, <2>10 DEF Respects, c, a
  <2>12. DirsSettled(disk', c, a)
    BY <1>1, <1>3, <1>5, <2>6 DEF DirsSettled
  <2>13. FilesSettled(disk', c, a)
    BY <1>3, <1>6, <2>6 DEF FilesSettled
  <2>14. FilesOf(disk'.seen, c, a) = files
    BY <1>6, <2>6, SameFiles DEF files
  <2>15. CommitOK(disk', c, a, <<SM, RP, SC>>, answer, known')
    BY <1>3, <2>6, <2>12, <2>13, <2>14 DEF CommitOK, MP, m, RP, SC, SM
  <2> QED BY <1>4, <2>5, <2>7, <2>8, <2>11, <2>15
<1>8. CASE MP \in seen /\ disk.seen[MP] = m /\ Todo(r) = <<SM, RP, SC>>
  <2>1. /\ Todo(r) # << >> /\ Head(Todo(r)) = SM
        /\ << >> \o Tail(Todo(r)) = <<RP, SC>>
    <3> HIDE DEF RP, SC, SM
    <3> QED BY <1>8
  <2> HIDE DEF CM, MP, m, files, c, a, answer, RP, SC, SM
  <2>2. /\ disk' = Synced(disk, Manifests(c)) /\ known' = known \cup Visible(disk'.seen)
        /\ Progress(r, <<RP, SC>>)
    BY <2>1, SyncStep DEF SM
  <2>3. known' = known /\ DiskOK(disk', known') /\ Respects(r)
    BY <2>2, SyncedStep
  <2>4. Leaves(disk, disk', c, a)
    BY <1>1, <2>2, SyncedLeaves
  <2>5. /\ disk'.seen = disk.seen
        /\ \A q \in seen : (/\ Len(q) = Len(Manifests(c)) + 1
                            /\ Front(q) = Manifests(c)) => SameEntry(disk', q)
    BY <1>1, <2>2, SyncedSettles
  <2>6. SameEntry(disk', MP)
    <3>1. Len(Manifests(c)) = 5 /\ Len(MP) = 6 /\ Front(MP) = Manifests(c)
      BY <1>1, CellPaths DEF Level, MP
    <3> QED BY <1>8, <2>5, <3>1
  <2>7. Generation(disk', c, a, files)
    BY <1>1, <1>3, <1>8, <2>4, <2>5, <2>6, LeavesFiles DEF Generation, MP, m, files
  <2>8. CommitOK(disk', c, a, <<RP, SC>>, answer, known')
    BY <1>3, <2>4, <2>5, <2>7, LeavesFiles DEF CommitOK, files, m, RP, SC
  <2> QED BY <1>4, <2>2, <2>3, <2>8
<1>9. CASE Generation(disk, c, a, files) /\ Todo(r) = <<RP, SC>>
  <2>1. /\ Todo(r) # << >> /\ Head(Todo(r)) = RP
        /\ << >> \o Tail(Todo(r)) = <<SC>>
    <3> HIDE DEF RP, SC
    <3> QED BY <1>9
  <2> HIDE DEF CM, MP, m, files, c, a, answer, RP, SC, SM
  <2>2. /\ disk' = Named(disk, Pointer(c), Ref(m)) /\ known' = known \cup Visible(disk'.seen)
        /\ Progress(r, <<SC>>)
    BY <2>1, ReplaceStep DEF RP
  <2>3. /\ Pointer(c) # CellsDir
        /\ \A d \in Cells, b \in Nat : Pointer(c) \notin Own(d, b) \cup Dirs(d, b)
        /\ \A d \in Cells : Pointer(d) = Pointer(c) => c = d
    BY <1>1, Apart
  <2>4. /\ WellFormed(disk') /\ disk'.kept = disk.kept
        /\ DOMAIN disk'.seen = seen \cup {Pointer(c)} /\ disk'.seen[Pointer(c)] = Ref(m)
        /\ \A q \in seen : q # Pointer(c) => disk'.seen[q] = disk.seen[q]
    BY <1>1, <2>2, NamedDisk
  <2>5. \A d \in Cells, b \in Nat : Leaves(disk, disk', d, b)
    BY <1>1, <2>2, <2>3, NamedLeaves
  <2>6. Respects(r)
    BY <2>4, <2>5, KnownIds DEF Respects
  <2>7. Ref(m) \in known' /\ \A ref \in known' \ known : ref = Ref(m)
    <3>1. \A d \in Cells : Pointer(d) \in DOMAIN disk'.seen =>
            disk'.seen[Pointer(d)] = Ref(m) \/ disk'.seen[Pointer(d)] \in known
      BY <1>1, <2>3, <2>4 DEF DiskOK
    <3>2. Ref(m) \in Visible(disk'.seen)
      BY <1>1, <2>4 DEF Visible, Exists
    <3>3. \A ref \in Visible(disk'.seen) : ref = Ref(m) \/ ref \in known
      BY <3>1 DEF Visible, Exists
    <3> QED BY <2>2, <3>2, <3>3
  <2>8. DiskOK(disk', known')
    <3>1. \A d \in Cells : Pointer(d) \in DOMAIN disk'.seen => disk'.seen[Pointer(d)] \in known'
      BY <1>1, <2>2, <2>4, <2>7 DEF DiskOK
    <3> QED BY <1>1, <2>2, <2>3, <2>4, <3>1 DEF DiskOK, WellFormed
  <2>9. Generation(disk', c, a, files)
    BY <1>1, <1>9, <2>5, GenerationLeft
  <2>10. FilesOf(disk'.seen, c, a) = files
    BY <2>9 DEF Generation
  <2>11. CommitOK(disk', c, a, <<SC>>, answer, known')
    BY <1>3, <2>7, <2>9, <2>10 DEF CommitOK, Generation, m, SC
  <2>12. RunnerOK(disk', store[r], attempt[r], call'[r], known')
    BY <1>2, <2>2, <2>4, <2>11
  <2>13. known \subseteq known'
    BY <2>2
  <2>14. Keeps(r) /\ Counted
    BY <2>2, <2>12, <2>13, ProgressKeeps
  <2>15. \A q \in Runners :
           (AttemptOpen(q)' /\ attempt'[q].cell = c /\ attempt'[q].id = a)
             => call'[q].method = "commit"
    <3> SUFFICES ASSUME NEW q \in Runners, AttemptOpen(q)', attempt'[q].id = a
                 PROVE  call'[q].method = "commit"
      OBVIOUS
    <3>1. CASE q = r
      BY <2>2, <3>1 DEF Progress
    <3>2. CASE q # r
      BY <1>1, <2>2, <3>2 DEF Progress, OnlyMoves, IInv, Distinct, AttemptOpen, a
    <3> QED BY <3>1, <3>2
  <2>16. \A ref \in known' \ known : KnownRef(ref)'
    <3> SUFFICES ASSUME NEW ref, ref = Ref(m) PROVE KnownRef(ref)'
      BY <2>7
    <3>1. ref.sha.files = files /\ ref = Ref(Manifest(c, a, ref.sha.files))
      BY RefFields DEF m
    <3>2. begun' = begun
      BY <2>2 DEF Progress
    <3>3. PICK d \in Cells, b \in 1..begun : d = c /\ b = a
      BY <1>1
    <3>4. Sealed(d, b)'
      BY <2>15, <3>3 DEF Sealed
    <3> QED BY <2>9, <3>1, <3>2, <3>3, <3>4 DEF KnownRef
  <2> QED BY <2>2, <2>6, <2>8, <2>14, <2>16, RunnerMoves DEF Progress
<1>10. CASE answer \in known /\ Todo(r) = <<SC>>
  <2>1. /\ Todo(r) # << >> /\ Head(Todo(r)) = SC
        /\ << >> \o Tail(Todo(r)) = << >>
    <3> HIDE DEF SC
    <3> QED BY <1>10
  <2> HIDE DEF CM, MP, m, files, c, a, answer, RP, SC, SM
  <2>2. /\ disk' = Synced(disk, CellDir(c)) /\ known' = known \cup Visible(disk'.seen)
        /\ Progress(r, << >>)
    BY <2>1, SyncStep DEF SC
  <2>3. known' = known /\ DiskOK(disk', known') /\ Respects(r)
    BY <2>2, SyncedStep
  <2>4. Leaves(disk, disk', c, a)
    BY <1>1, <2>2, SyncedLeaves
  <2>5. CommitOK(disk', c, a, << >>, answer, known')
    BY <1>3, <1>10, <2>3, <2>4, LeavesFiles DEF CommitOK, files, m
  <2> QED BY <1>4, <2>2, <2>3, <2>5
<1>11. CASE Todo(r) = << >>
  BY <1>11 DEF FileStep, Making, Finding, Replacing, Syncing, Looking, Listing, Due
<1> QED BY <1>1, <1>7, <1>8, <1>9, <1>10, <1>11 DEF CommitOK

LEMMA FileStepKeeps ==
  ASSUME IInv, NEW r \in Runners, FileStep(r)
  PROVE  IInv'
<1>1. call[r].method \in {"none", "open", "begin", "stage", "commit", "create", "save"}
      /\ (call[r].method = "none" => call[r] = NoCall)
  BY DEF IInv, RunnerOK
<1>2. call[r].method # "none"
  BY <1>1 DEF FileStep, Making, Finding, Replacing, Syncing, Looking, Listing, Due, Todo, NoCall
<1> QED BY <1>1, <1>2, OpenFileStep, BeginFileStep, StageFileStep, CommitFileStep,
           ForeignFileStep

-----------------------------------------------------------------------------
(* The calls and their ends.                                                 *)
LEMMA QuietMoves ==
  ASSUME IInv, NEW r \in Runners, UNCHANGED <<disk, known>>, OnlyMoves(r), Locks(r), Keeps(r),
         begun' \in begun..MaxAttempts, trouble' \in 0..MaxTrouble
  PROVE  IInv'
<1>1. DiskOK(disk', known') /\ Respects(r) /\ Counted
  BY SameStep DEF Counted
<1> QED BY <1>1, RunnerMoves

LEMMA Counters ==
  ASSUME IInv
  PROVE  begun \in Nat /\ begun \in begun..MaxAttempts /\ trouble \in 0..MaxTrouble
         /\ trouble \in Nat
BY TroubleAssumption DEF IInv

(* A step that leaves the runner's attempt as it was and cannot reopen it.   *)
LEMMA SameAttempt ==
  ASSUME IInv, NEW r \in Runners, known' = known, begun' = begun, attempt'[r] = attempt[r],
         RunnerOK(disk', store'[r], attempt'[r], call'[r], known'),
         (attempt[r] # NoAttempt /\ store'[r] = "open") => store[r] = "open",
         AttemptOpen(r) => call[r].method # "commit" \/ call'[r].method = "commit"
                           \/ store'[r] # "open"
  PROVE  Keeps(r)
<1>1. AttemptOK(attempt'[r], begun', known')
  BY DEF IInv
<1>2. ASSUME NEW ref \in known,
             /\ attempt'[r] # NoAttempt /\ ~attempt'[r].closed /\ store'[r] = "open"
             /\ attempt'[r].cell = ref.cell /\ attempt'[r].id = ref.attempt
      PROVE  call'[r].method = "commit"
  <2>1. AttemptOpen(r)
    BY <1>2 DEF AttemptOpen
  <2> QED BY <1>2, <2>1, NotSealed
<1> QED BY <1>1, <1>2 DEF Keeps

(* A step after which the runner has no attempt it can use.                  *)
LEMMA NoOpenAttempt ==
  ASSUME IInv, NEW r \in Runners,
         AttemptOK(attempt'[r], begun', known'),
         RunnerOK(disk', store'[r], attempt'[r], call'[r], known'),
         attempt'[r] # NoAttempt => attempt[r] # NoAttempt /\ attempt'[r].id = attempt[r].id,
         attempt'[r] = NoAttempt \/ attempt'[r].closed \/ store'[r] # "open"
  PROVE  Keeps(r)
BY DEF Keeps

LEMMA OpenKeeps ==
  ASSUME IInv, NEW r \in Runners, Open(r)
  PROVE  IInv'
<1>1. /\ call' = [call EXCEPT ![r] = [method |-> "open", todo |-> OpenScript, answer |-> NoRef]]
      /\ store' = [store EXCEPT ![r] = "opening"]
      /\ UNCHANGED <<disk, lock, attempt, begun, known, trouble>>
      /\ store[r] = "none"
  BY DEF Open, Enters
<1>2. OnlyMoves(r) /\ Locks(r)
  BY <1>1 DEF IInv, OnlyMoves, Locks
<1>3. /\ call'[r] = [method |-> "open", todo |-> OpenScript, answer |-> NoRef]
      /\ store'[r] = "opening" /\ attempt'[r] = attempt[r] /\ attempt[r] = NoAttempt
  BY <1>1 DEF IInv, RunnerOK
<1>4. OpenOK(disk', OpenScript)
  BY DEF OpenOK
<1>5. RunnerOK(disk', store'[r], attempt'[r], call'[r], known')
  BY <1>3, <1>4 DEF RunnerOK
<1>6. Keeps(r)
  BY <1>3, <1>5, NoOpenAttempt DEF AttemptOK
<1> QED BY <1>1, <1>2, <1>6, QuietMoves, Counters

LEMMA BeginKeeps ==
  ASSUME IInv, NEW r \in Runners, NEW c \in Cells, Begin(r, c)
  PROVE  IInv'
<1> DEFINE n == begun + 1
<1>1. /\ call' = [call EXCEPT ![r] =
                    [method |-> "begin", todo |-> BeginScript(c, n), answer |-> NoRef]]
      /\ attempt' = [attempt EXCEPT ![r] = [kind |-> "attempt", cell |-> c, id |-> n,
                                            closed |-> FALSE, ref |-> NoRef]]
      /\ lock' = r /\ begun' = n /\ begun < MaxAttempts /\ store[r] = "open"
      /\ UNCHANGED <<disk, store, known, trouble>>
  BY DEF Begin, Enters
<1>2. /\ n \in Nat /\ n > begun /\ begun' \in begun..MaxAttempts /\ n \in 1..begun'
      /\ begun \in Nat
  BY <1>1, Counters, TroubleAssumption
<1>3. OnlyMoves(r) /\ Locks(r)
  BY <1>1 DEF IInv, OnlyMoves, Locks
<1> HIDE DEF n
<1>4. /\ call'[r] = [method |-> "begin", todo |-> BeginScript(c, n), answer |-> NoRef]
      /\ store'[r] = "open"
      /\ attempt'[r] = [kind |-> "attempt", cell |-> c, id |-> n, closed |-> FALSE,
                        ref |-> NoRef]
  BY <1>1 DEF IInv
<1>5. attempt'[r] # NoAttempt
  BY <1>4 DEF NoAttempt
<1>6. AttemptOK(attempt'[r], begun', known')
  BY <1>2, <1>4 DEF AttemptOK
<1>7. \A p \in Own(c, n) : p \notin DOMAIN disk'.seen
  BY <1>1, <1>2 DEF IInv, Fresh
<1>8. BeginOK(disk', c, n, BeginScript(c, n))
  BY DEF BeginOK
<1>9. Identity \in DOMAIN disk'.seen
  BY <1>1 DEF IInv, RunnerOK
<1>10. RunnerOK(disk', store'[r], attempt'[r], call'[r], known')
  BY <1>4, <1>5, <1>7, <1>8, <1>9 DEF RunnerOK
<1>11. \A ref \in known : ref.attempt # n
  BY <1>2, KnownIds
<1>12. Keeps(r)
  BY <1>2, <1>4, <1>6, <1>10, <1>11 DEF Keeps
<1> QED BY <1>1, <1>2, <1>3, <1>12, QuietMoves, Counters

LEMMA UsedAttempt ==
  ASSUME IInv, NEW r \in Runners, Idle(r), AttemptOpen(r)
  PROVE  /\ attempt[r] # NoAttempt /\ ~attempt[r].closed /\ store[r] = "open"
         /\ Ready(disk, attempt[r].cell, attempt[r].id)
         /\ Identity \in DOMAIN disk.seen
BY DEF IInv, RunnerOK, AttemptOpen, Idle

LEMMA StageKeeps ==
  ASSUME IInv, NEW r \in Runners, NEW f \in Files, NEW v \in Payloads, Stage(r, f, v)
  PROVE  IInv'
<1> DEFINE c == attempt[r].cell
           a == attempt[r].id
<1>1. /\ call' = [call EXCEPT ![r] =
                    [method |-> "stage", todo |-> StageScript(c, a, f, v), answer |-> NoRef]]
      /\ Idle(r) /\ AttemptOpen(r)
      /\ UNCHANGED <<disk, lock, store, attempt, begun, known, trouble>>
  BY DEF Stage, Enters
<1>2. OnlyMoves(r) /\ Locks(r)
  BY <1>1 DEF IInv, OnlyMoves, Locks
<1>3. call'[r] = [method |-> "stage", todo |-> StageScript(c, a, f, v), answer |-> NoRef]
  BY <1>1 DEF IInv
<1>4. StageOK(disk', c, a, StageScript(c, a, f, v))
  BY <1>1, UsedAttempt DEF StageOK, Ready
<1>5. RunnerOK(disk', store'[r], attempt'[r], call'[r], known')
  BY <1>1, <1>3, <1>4, UsedAttempt DEF RunnerOK
<1>6. Keeps(r)
  BY <1>1, <1>5, SameAttempt DEF Idle
<1> QED BY <1>1, <1>2, <1>6, QuietMoves, Counters

LEMMA CommitKeeps ==
  ASSUME IInv, NEW r \in Runners, Commit(r)
  PROVE  IInv'
<1> DEFINE c == attempt[r].cell
           a == attempt[r].id
           m == Manifest(c, a, FilesOf(disk.seen, c, a))
<1>1. /\ call' = [call EXCEPT ![r] =
                    [method |-> "commit", todo |-> CommitScript(m), answer |-> Ref(m)]]
      /\ Idle(r) /\ AttemptOpen(r)
      /\ UNCHANGED <<disk, lock, store, attempt, begun, known, trouble>>
  BY DEF Commit, Enters
<1>2. OnlyMoves(r) /\ Locks(r)
  BY <1>1 DEF IInv, OnlyMoves, Locks
<1>3. call'[r] = [method |-> "commit", todo |-> CommitScript(m), answer |-> Ref(m)]
  BY <1>1 DEF IInv
<1>4. CommitOK(disk', c, a, CommitScript(m), Ref(m), known')
  BY <1>1, UsedAttempt DEF CommitOK, Ready
<1> HIDE DEF m
<1>5. RunnerOK(disk', store'[r], attempt'[r], call'[r], known')
  BY <1>1, <1>3, <1>4, UsedAttempt DEF RunnerOK
<1>6. Keeps(r)
  BY <1>1, <1>3, <1>5, SameAttempt
<1> QED BY <1>1, <1>2, <1>6, QuietMoves, Counters

LEMMA CloseKeeps ==
  ASSUME IInv, NEW r \in Runners, Close(r)
  PROVE  IInv'
<1>1. /\ Idle(r) /\ store[r] = "open" /\ store' = [store EXCEPT ![r] = "closed"]
      /\ lock' = IF lock = r THEN Nobody ELSE lock
      /\ UNCHANGED <<disk, attempt, call, begun, known, trouble>>
  BY DEF Close
<1>2. OnlyMoves(r) /\ Locks(r)
  BY <1>1 DEF IInv, OnlyMoves, Locks
<1>3. call'[r] = NoCall /\ store'[r] = "closed" /\ attempt'[r] = attempt[r]
  BY <1>1 DEF IInv, RunnerOK, Idle
<1>4. RunnerOK(disk', store'[r], attempt'[r], call'[r], known')
  BY <1>3 DEF RunnerOK, NoCall
<1>5. Keeps(r)
  BY <1>1, <1>3, <1>4, SameAttempt
<1> QED BY <1>1, <1>2, <1>5, QuietMoves, Counters

(* A process that ends, and the crash.                                       *)
LEMMA EndsKeeps ==
  ASSUME IInv, NEW r \in Runners, Ends(r), trouble' \in 0..MaxTrouble
  PROVE  IInv'
<1>1. /\ call' = [call EXCEPT ![r] = NoCall] /\ store' = [store EXCEPT ![r] = "none"]
      /\ attempt' = [attempt EXCEPT ![r] = NoAttempt]
      /\ lock' = IF lock = r THEN Nobody ELSE lock
      /\ UNCHANGED <<disk, begun, known>>
  BY DEF Ends
<1>2. OnlyMoves(r) /\ Locks(r)
  BY <1>1 DEF IInv, OnlyMoves, Locks
<1>3. call'[r] = NoCall /\ store'[r] = "none" /\ attempt'[r] = NoAttempt
  BY <1>1 DEF IInv
<1>4. RunnerOK(disk', store'[r], attempt'[r], call'[r], known')
  BY <1>3 DEF RunnerOK, NoCall
<1>5. Keeps(r)
  BY <1>3, <1>4, NoOpenAttempt DEF AttemptOK
<1> QED BY <1>1, <1>2, <1>5, QuietMoves, Counters

LEMMA ReturnKeeps ==
  ASSUME IInv, NEW r \in Runners, Return(r)
  PROVE  IInv'
<1> DEFINE c == attempt[r].cell
           a == attempt[r].id
<1>1. /\ ~Idle(r) /\ Todo(r) = << >>
      /\ call' = [call EXCEPT ![r] = NoCall]
      /\ store' = IF call[r].method = "open" THEN [store EXCEPT ![r] = "open"] ELSE store
      /\ attempt' = [attempt EXCEPT ![r] = AttemptAfterReturn(r)]
      /\ UNCHANGED <<disk, lock, begun, known, trouble>>
  BY DEF Return
<1>2. OnlyMoves(r)
  BY <1>1 DEF IInv, OnlyMoves
<1>3. /\ RunnerOK(disk, store[r], attempt[r], call[r], known)
      /\ AttemptOK(attempt[r], begun, known)
  BY DEF IInv
<1>4. Locks(r)
  BY <1>1, <1>3 DEF IInv, Locks, RunnerOK
<1>5. /\ call'[r] = NoCall
      /\ store'[r] = IF call[r].method = "open" THEN "open" ELSE store[r]
      /\ attempt'[r] = AttemptAfterReturn(r)
  BY <1>1 DEF IInv
<1>6. CASE call[r].method = "open"
  <2>1. attempt'[r] = attempt[r] /\ attempt[r] = NoAttempt /\ store'[r] = "open"
    BY <1>3, <1>5, <1>6 DEF AttemptAfterReturn, RunnerOK
  <2>2. Identity \in DOMAIN disk'.seen
    BY <1>1, <1>3, <1>6 DEF RunnerOK, OpenOK, OpenScript, Todo
  <2>3. RunnerOK(disk', store'[r], attempt'[r], call'[r], known')
    BY <1>5, <2>1, <2>2 DEF RunnerOK, NoCall
  <2>4. Keeps(r)
    BY <2>1, <2>3, NoOpenAttempt DEF AttemptOK
  <2> QED BY <1>1, <1>2, <1>4, <2>4, QuietMoves, Counters
<1>7. CASE call[r].method = "commit"
  <2>1. /\ attempt[r] # NoAttempt /\ c \in Cells /\ a \in 1..begun /\ store[r] = "open"
        /\ Identity \in DOMAIN disk.seen
        /\ DOMAIN attempt[r] = {"kind", "cell", "id", "closed", "ref"}
        /\ attempt[r].kind = "attempt"
    BY <1>3, <1>7 DEF RunnerOK, AttemptOK
  <2>2. call[r].answer \in known
    BY <1>1, <1>3, <1>7 DEF RunnerOK, CommitOK, CommitScript, Todo
  <2>3. /\ DOMAIN attempt'[r] = DOMAIN attempt[r]
        /\ attempt'[r].kind = attempt[r].kind /\ attempt'[r].cell = c /\ attempt'[r].id = a
        /\ attempt'[r].closed = TRUE
        /\ attempt'[r].ref # NoRef => attempt'[r].ref \in known
    BY <1>5, <1>7, <2>1, <2>2 DEF AttemptAfterReturn
  <2>4. attempt'[r] # NoAttempt /\ attempt'[r].closed /\ attempt'[r].id = attempt[r].id
    BY <2>1, <2>3 DEF NoAttempt
  <2>5. AttemptOK(attempt'[r], begun', known')
    BY <1>1, <2>1, <2>2, <2>3 DEF AttemptOK
  <2>6. RunnerOK(disk', store'[r], attempt'[r], call'[r], known')
    BY <1>1, <1>5, <1>7, <2>1, <2>4 DEF RunnerOK, NoCall
  <2>7. Keeps(r)
    BY <2>1, <2>4, <2>5, <2>6, NoOpenAttempt
  <2> QED BY <1>1, <1>2, <1>4, <2>7, QuietMoves, Counters
<1>8. CASE call[r].method \in {"begin", "stage", "create", "save"}
  <2>1. attempt'[r] = attempt[r] /\ store'[r] = store[r] /\ store[r] # "opening"
    BY <1>3, <1>5, <1>8 DEF AttemptAfterReturn, RunnerOK
  <2>2. RunnerOK(disk', store'[r], attempt'[r], call'[r], known')
    <3>1. CASE call[r].method = "begin"
      <4>1. DirsSettled(disk, c, a)
        BY <1>1, <1>3, <3>1 DEF RunnerOK, BeginOK, BeginScript, Todo
      <4>2. \A p \in Own(c, a) : p \notin DOMAIN disk.seen
        BY <1>3, <3>1 DEF RunnerOK
      <4>3. Ready(disk, c, a)
        BY <4>1, <4>2 DEF Ready, FilesSettled, Unpublished, Own
      <4> QED BY <1>1, <1>3, <1>5, <2>1, <4>3 DEF RunnerOK, NoCall
    <3>2. CASE call[r].method = "stage"
      <4>1. Ready(disk, c, a)
        BY <1>1, <1>3, <3>2 DEF RunnerOK, StageOK, StageScript, Ready, Todo
      <4> QED BY <1>1, <1>3, <1>5, <2>1, <4>1 DEF RunnerOK, NoCall
    <3>3. CASE call[r].method \in {"create", "save"}
      BY <1>1, <1>3, <1>5, <2>1, <3>3 DEF RunnerOK, NoCall
    <3> QED BY <1>8, <3>1, <3>2, <3>3
  <2>3. Keeps(r)
    BY <1>1, <1>8, <2>1, <2>2, SameAttempt
  <2> QED BY <1>1, <1>2, <1>4, <2>3, QuietMoves, Counters
<1> QED BY <1>1, <1>3, <1>6, <1>7, <1>8 DEF RunnerOK, Idle

(* What a failed commit finds at the pointer is a reference all know.        *)
LEMMA ReconciledKnown ==
  ASSUME IInv, NEW r \in Runners, attempt[r] # NoAttempt
  PROVE  Reconciled(r) = NoRef \/ Reconciled(r) \in known
<1>1. attempt[r].cell \in Cells
  BY DEF IInv, AttemptOK
<1> QED BY <1>1 DEF IInv, DiskOK, Reconciled, CurrentRef, Exists

LEMMA StepFailsKeeps ==
  ASSUME IInv, NEW r \in Runners, StepFails(r)
  PROVE  IInv'
<1> DEFINE c == attempt[r].cell
           a == attempt[r].id
<1>1. /\ Todo(r) # << >> /\ trouble < MaxTrouble /\ trouble' = trouble + 1
      /\ call' = [call EXCEPT ![r] = NoCall]
      /\ store' = [store EXCEPT ![r] = StoreAfterFailure(r)]
      /\ lock' = LockAfterFailure(r)
      /\ attempt' = [attempt EXCEPT ![r] = AttemptAfterFailure(r)]
      /\ UNCHANGED <<disk, begun, known>>
  BY DEF StepFails
<1>2. OnlyMoves(r)
  BY <1>1 DEF IInv, OnlyMoves
<1>3. /\ RunnerOK(disk, store[r], attempt[r], call[r], known)
      /\ AttemptOK(attempt[r], begun, known)
  BY DEF IInv
<1>4. call[r].method \in {"open", "begin", "stage", "commit", "create", "save"}
  BY <1>1, <1>3 DEF RunnerOK, NoCall, Todo
<1>5. /\ call'[r] = NoCall /\ store'[r] = StoreAfterFailure(r)
      /\ attempt'[r] = AttemptAfterFailure(r)
  BY <1>1 DEF IInv
<1>6. Locks(r)
  <2>1. CASE call[r].method = "begin"
    BY <1>1, <2>1 DEF IInv, Locks, LockAfterFailure
  <2>2. CASE call[r].method = "open"
    BY <1>1, <1>3, <2>2 DEF IInv, Locks, LockAfterFailure, RunnerOK
  <2>3. CASE call[r].method \in {"stage", "commit", "create", "save"}
    BY <1>1, <1>5, <2>3 DEF IInv, Locks, LockAfterFailure, StoreAfterFailure
  <2> QED BY <1>4, <2>1, <2>2, <2>3
<1>7. trouble' \in 0..MaxTrouble
  BY <1>1, Counters, TroubleAssumption
<1>8. SUFFICES Keeps(r)
  BY <1>1, <1>2, <1>6, <1>7, QuietMoves, Counters
<1>9. CASE call[r].method = "open"
  <2>1. attempt'[r] = NoAttempt /\ store'[r] = "none"
    BY <1>3, <1>5, <1>9 DEF AttemptAfterFailure, StoreAfterFailure, RunnerOK
  <2>2. RunnerOK(disk', store'[r], attempt'[r], call'[r], known')
    BY <1>5, <2>1 DEF RunnerOK, NoCall
  <2> QED BY <2>1, <2>2, NoOpenAttempt DEF AttemptOK
<1>10. CASE call[r].method = "begin"
  <2>1. attempt'[r] = attempt[r] /\ store'[r] = "closed"
    BY <1>5, <1>10 DEF AttemptAfterFailure, StoreAfterFailure
  <2>2. RunnerOK(disk', store'[r], attempt'[r], call'[r], known')
    BY <1>5, <2>1 DEF RunnerOK, NoCall
  <2> QED BY <1>1, <2>1, <2>2, SameAttempt
<1>11. CASE call[r].method \in {"stage", "commit"}
  <2>1. /\ attempt[r] # NoAttempt /\ c \in Cells /\ a \in 1..begun /\ store[r] = "open"
        /\ Identity \in DOMAIN disk.seen
        /\ DOMAIN attempt[r] = {"kind", "cell", "id", "closed", "ref"}
        /\ attempt[r].kind = "attempt"
        /\ attempt[r].ref # NoRef => attempt[r].ref \in known
    BY <1>3, <1>11 DEF RunnerOK, AttemptOK
  <2>2. /\ DOMAIN attempt'[r] = DOMAIN attempt[r]
        /\ attempt'[r].kind = attempt[r].kind /\ attempt'[r].cell = c /\ attempt'[r].id = a
        /\ attempt'[r].closed = TRUE
        /\ attempt'[r].ref # NoRef => attempt'[r].ref \in known
    <3>1. CASE call[r].method = "stage"
      BY <1>5, <2>1, <3>1 DEF AttemptAfterFailure
    <3>2. CASE call[r].method = "commit"
      BY <1>5, <2>1, <3>2, ReconciledKnown DEF AttemptAfterFailure
    <3> QED BY <1>11, <3>1, <3>2
  <2>3. attempt'[r] # NoAttempt /\ attempt'[r].closed /\ attempt'[r].id = attempt[r].id
    BY <2>1, <2>2 DEF NoAttempt
  <2>4. AttemptOK(attempt'[r], begun', known')
    BY <1>1, <2>1, <2>2 DEF AttemptOK
  <2>5. store'[r] = "open"
    BY <1>5, <1>11, <2>1 DEF StoreAfterFailure
  <2>6. RunnerOK(disk', store'[r], attempt'[r], call'[r], known')
    BY <1>1, <1>5, <2>1, <2>3, <2>5 DEF RunnerOK, NoCall
  <2> QED BY <2>1, <2>3, <2>4, <2>6, NoOpenAttempt
<1>12. CASE call[r].method \in {"create", "save"}
  <2>1. attempt'[r] = attempt[r] /\ store'[r] = store[r] /\ store[r] # "opening"
    BY <1>3, <1>5, <1>12 DEF AttemptAfterFailure, StoreAfterFailure, RunnerOK
  <2>2. RunnerOK(disk', store'[r], attempt'[r], call'[r], known')
    BY <1>1, <1>3, <1>5, <1>12, <2>1 DEF RunnerOK, NoCall
  <2> QED BY <1>1, <1>12, <2>1, <2>2, SameAttempt
<1> QED BY <1>4, <1>9, <1>10, <1>11, <1>12

(* The power loss, with the run root durable.                                *)
LEMMA PowerLossKeeps ==
  ASSUME IInv, PowerLoss, PowerFails # "ever"
  PROVE  IInv'
<1>1. /\ {Parent, Root, Identity, CellsDir} \subseteq DOMAIN disk.kept
      /\ trouble < MaxTrouble /\ trouble' = trouble + 1
      /\ call' = [r \in Runners |-> NoCall]
      /\ store' = [r \in Runners |-> "none"]
      /\ attempt' = [r \in Runners |-> NoAttempt]
      /\ lock' = Nobody /\ begun' = begun
  BY DEF PowerLoss, Rooted
<1>2. /\ disk' \in AfterPowerLoss(disk)
      /\ known' = known \cup Visible(disk'.seen)
  BY DEF PowerLoss, Becomes
<1>3. WellFormed(disk) /\ DiskOK(disk, known)
  BY DEF IInv, DiskOK, WellFormed
<1>4. /\ WellFormed(disk') /\ disk'.kept = disk'.seen
      /\ DOMAIN disk'.seen \subseteq DOMAIN disk.seen
      /\ \A q \in DOMAIN disk'.seen :
           \/ disk'.seen[q] = disk.seen[q]
           \/ q \in DOMAIN disk.kept /\ disk'.seen[q] = disk.kept[q]
      /\ \A q \in DOMAIN disk.kept : Reachable(disk.kept, q) => q \in DOMAIN disk'.seen
  BY <1>2, <1>3, PowerLossDisk
<1>5. known' = known
  <2>1. \A c \in Cells : Pointer(c) \in DOMAIN disk'.seen => disk'.seen[Pointer(c)] \in known
    BY <1>3, <1>4 DEF DiskOK
  <2> QED BY <1>2, <2>1 DEF Visible, Exists
<1>6. DiskOK(disk', known')
  <2>1. Identity \in DOMAIN disk'.seen
    BY <1>1, <1>4, StoreReachable
  <2>2. \A c \in Cells : Pointer(c) \in DOMAIN disk'.seen => disk'.seen[Pointer(c)] \in known
    BY <1>3, <1>4 DEF DiskOK
  <2> QED BY <1>4, <1>5, <2>1, <2>2 DEF DiskOK, WellFormed
<1>7. Fresh'
  BY <1>1, <1>4 DEF IInv, Fresh
<1>8. Distinct'
  BY <1>1 DEF Distinct
<1>9. ASSUME NEW r \in Runners
      PROVE  /\ AttemptOK(attempt'[r], begun', known')
             /\ RunnerOK(disk', store'[r], attempt'[r], call'[r], known')
  <2>1. attempt'[r] = NoAttempt /\ store'[r] = "none" /\ call'[r] = NoCall
    BY <1>1
  <2> QED BY <2>1 DEF AttemptOK, RunnerOK, NoCall
<1>10. ASSUME NEW ref \in known' PROVE KnownRef(ref)'
  <2>1. PICK c \in Cells, a \in 1..begun :
          /\ ref = Ref(Manifest(c, a, ref.sha.files))
          /\ Generation(disk, c, a, ref.sha.files)
    BY <1>5, <1>10 DEF IInv, KnownRef
  <2>2. a \in Nat
    BY Counters
  <2>3. Generation(disk', c, a, ref.sha.files)
    BY <1>1, <1>2, <1>3, <2>1, <2>2, GenerationSurvives
  <2>4. Sealed(c, a)'
    BY <1>1 DEF Sealed, AttemptOpen
  <2> QED BY <1>1, <2>1, <2>3, <2>4 DEF KnownRef
<1>11. trouble' \in 0..MaxTrouble /\ begun' \in 0..MaxAttempts
  BY <1>1, Counters, TroubleAssumption DEF IInv
<1> QED BY <1>1, <1>6, <1>7, <1>8, <1>9, <1>10, <1>11 DEF IInv

-----------------------------------------------------------------------------
(* What any user of the store starts from: a disk that has no generation.    *)
EmptyStore ==
  /\ NoStores
  /\ disk = [seen |-> disk.seen, kept |-> disk.seen]
  /\ CellsDir \in DOMAIN disk.seen => Identity \in DOMAIN disk.seen
  /\ \A c \in Cells : Pointer(c) \notin DOMAIN disk.seen
  /\ \A c \in Cells, a \in Nat : \A p \in Own(c, a) : p \notin DOMAIN disk.seen

LEMMA EmptyStarts ==
  ASSUME EmptyStore
  PROVE  IInv
<1>1. /\ lock = Nobody /\ store = [r \in Runners |-> "none"]
      /\ attempt = [r \in Runners |-> NoAttempt] /\ call = [r \in Runners |-> NoCall]
      /\ begun = 0 /\ known = {} /\ trouble = 0
  BY DEF EmptyStore, NoStores
<1>2. DiskOK(disk, known)
  BY DEF EmptyStore, DiskOK
<1>3. Fresh /\ Distinct
  BY <1>1 DEF EmptyStore, Fresh, Distinct
<1>4. ASSUME NEW r \in Runners
      PROVE  /\ AttemptOK(attempt[r], begun, known)
             /\ RunnerOK(disk, store[r], attempt[r], call[r], known)
  <2>1. attempt[r] = NoAttempt /\ store[r] = "none" /\ call[r] = NoCall
    BY <1>1
  <2> QED BY <2>1 DEF AttemptOK, RunnerOK, NoCall
<1>5. begun \in 0..MaxAttempts /\ trouble \in 0..MaxTrouble
  BY <1>1, TroubleAssumption
<1> QED BY <1>1, <1>2, <1>3, <1>4, <1>5 DEF IInv

LEMMA InitialPaths ==
  /\ DOMAIN InitialTree \subseteq {Parent, Root, Identity, CellsDir}
  /\ CellsDir \in DOMAIN InitialTree => Identity \in DOMAIN InitialTree
<1>1. /\ Existing = "root" => DOMAIN InitialTree = {Parent, Root, Identity, CellsDir}
      /\ Existing = "parent" => DOMAIN InitialTree = {Parent}
      /\ Existing = "nothing" => DOMAIN InitialTree = {}
  BY DEF InitialTree
<1> QED BY <1>1, ExistingAssumption, IdentityNotCells

LEMMA StoreStarts ==
  ASSUME StoreInit
  PROVE  IInv
<1>1. disk = [seen |-> InitialTree, kept |-> InitialTree] /\ NoStores
  BY DEF StoreInit, Durable
<1>2. \A c \in Cells : Pointer(c) \notin DOMAIN InitialTree
  BY InitialPaths, TopApart
<1>3. \A c \in Cells, a \in Nat : \A p \in Own(c, a) : p \notin DOMAIN InitialTree
  BY InitialPaths, TopApart
<1> QED BY <1>1, <1>2, <1>3, InitialPaths, EmptyStarts DEF EmptyStore

LEMMA StoreKeeps ==
  ASSUME IInv, [StoreNext]_storeVars, PowerFails # "ever"
  PROVE  IInv'
<1>1. CASE PowerLoss
  BY <1>1, PowerLossKeeps
<1>2. ASSUME NEW r \in Runners, RunnerStep(r) PROVE IInv'
  <2>1. CASE Open(r)
    BY <2>1, OpenKeeps
  <2>2. ASSUME NEW c \in Cells, Begin(r, c) PROVE IInv'
    BY <2>2, BeginKeeps
  <2>3. ASSUME NEW f \in Files, NEW v \in Payloads, Stage(r, f, v) PROVE IInv'
    BY <2>3, StageKeeps
  <2>4. CASE Commit(r)
    BY <2>4, CommitKeeps
  <2>5. CASE Close(r)
    BY <2>5, CloseKeeps
  <2>6. CASE FileStep(r)
    BY <2>6, FileStepKeeps
  <2>7. CASE Return(r)
    BY <2>7, ReturnKeeps
  <2>8. CASE StepFails(r)
    BY <2>8, StepFailsKeeps
  <2>9. CASE Crash(r)
    BY <2>9, EndsKeeps, Counters, TroubleAssumption DEF Crash
  <2> QED BY <1>2, <2>1, <2>2, <2>3, <2>4, <2>5, <2>6, <2>7, <2>8, <2>9 DEF RunnerStep
<1>3. CASE UNCHANGED storeVars
  BY <1>3 DEF storeVars, IInv, DiskOK, Fresh, Distinct, KnownRef, Sealed, AttemptOpen
<1> QED BY <1>1, <1>2, <1>3 DEF StoreNext

LEMMA StoreAlways ==
  ASSUME PowerFails # "ever"
  PROVE  StoreSpec => []IInv
<1>1. IInv /\ [StoreNext]_storeVars => IInv'
  BY StoreKeeps
<1> QED BY <1>1, StoreStarts, PTL DEF StoreSpec

LEMMA IInvLoads == IInv => EverythingLoads
<1> SUFFICES ASSUME IInv, NEW ref \in Visible(disk.seen) \cup known
             PROVE  Loads(disk.seen, ref)
  BY DEF EverythingLoads
<1>1. ref \in known
  BY DEF IInv, DiskOK, Visible, Exists
<1>2. PICK c \in Cells, a \in 1..begun :
        /\ ref = Ref(Manifest(c, a, ref.sha.files))
        /\ Generation(disk, c, a, ref.sha.files)
  BY <1>1 DEF IInv, KnownRef
<1> QED BY <1>2, GenerationLoads

LEMMA IInvTyped == IInv => StoreTypeOK
<1> SUFFICES ASSUME IInv PROVE StoreTypeOK
  OBVIOUS
<1>1. store \in [Runners -> {"none", "opening", "open", "closed", "refused"}]
  BY DEF IInv, RunnerOK
<1>2. ASSUME NEW r \in Runners
      PROVE  /\ attempt[r] # NoAttempt =>
                  /\ attempt[r].cell \in Cells /\ attempt[r].id \in 1..begun
                  /\ attempt[r].closed \in BOOLEAN
             /\ call[r].method \in {"none", "open", "begin", "stage", "commit", "create", "save"}
             /\ call[r].method = "open" <=> store[r] = "opening"
             /\ call[r].method \in {"begin", "stage", "commit"} =>
                  attempt[r] # NoAttempt /\ ~attempt[r].closed
  BY DEF IInv, RunnerOK, AttemptOK
<1> QED BY <1>1, <1>2 DEF IInv, StoreTypeOK

(* Every committed.json anyone can see names a complete generation, and      *)
(* every reference that a reader or a caller ever had still loads exactly    *)
(* that one, through any failures, crashes and - once the run root itself is *)
(* durable - power losses (_load_ref, _publish_immutable_manifest).          *)
THEOREM AlwaysLoads ==
  ASSUME PowerFails # "ever"
  PROVE  StoreSpec => []EverythingLoads
BY StoreAlways, IInvLoads, PTL

(* The store's state is of its types.                                        *)
THEOREM StoreTyped ==
  ASSUME PowerFails # "ever"
  PROVE  StoreSpec => []StoreTypeOK
BY StoreAlways, IInvTyped, PTL

-----------------------------------------------------------------------------
(* Which entry a step of a call names, for what is said of single steps.     *)
Writing(r, p, x) ==
  /\ Todo(r) # << >>
  /\ Head(Todo(r)).op \in {"create", "replace"}
  /\ p = Head(Todo(r)).path /\ x = Head(Todo(r)).content

LEMMA FileStepNames ==
  ASSUME IInv, NEW r \in Runners, FileStep(r)
  PROVE  \/ disk' = disk
         \/ \E dir : disk' = Synced(disk, dir)
         \/ \E p, x : disk' = Named(disk, p, x) /\ Writing(r, p, x)
BY DEF FileStep, Making, Finding, Replacing, Syncing, Looking, Listing, Due, Becomes, Writing

(* The pointer step of a commit: what it writes is what commit will return.  *)
Pointing(r) ==
  LET c == attempt[r].cell
      a == attempt[r].id
  IN  /\ call[r].method = "commit"
      /\ Todo(r) = <<Replace(Pointer(c), call[r].answer), Sync(CellDir(c))>>
      /\ call[r].answer = Ref(Manifest(c, a, FilesOf(disk.seen, c, a)))
      /\ Generation(disk, c, a, FilesOf(disk.seen, c, a))

LEMMA OpenWrites ==
  ASSUME NEW r, NEW p, NEW x, Writing(r, p, x), OpenOK(disk, Todo(r))
  PROVE  p \in {Parent, Root, Identity, CellsDir}
<1> DEFINE CP   == Create(Parent, Dir, << >>)
           CR   == Create(Root, Dir, <<Sync(Parent)>>)
           CI   == Create(Identity, IdentityFile, <<Sync(Root)>>)
           CC   == CreateCells
           SP   == Sync(Parent)
           SR   == Sync(Root)
           look == LookForIdentity
           list == ListRoot
<1>1. OpenScript = <<CP, CR, look, CC, SR>>
  BY DEF OpenScript, CreateCells
<1>2. /\ \A s \in {CP, CR, CI, CC} : s.path \in {Parent, Root, Identity, CellsDir}
      /\ \A s \in {SP, SR, look, list} : s.op \notin {"create", "replace"}
  BY DEF Create, Sync, CreateCells, LookForIdentity, ListRoot
<1>3. \/ Todo(r) = <<CP, CR, look, CC, SR>>
      \/ Todo(r) = <<CR, look, CC, SR>>
      \/ Todo(r) = <<SP, look, CC, SR>>
      \/ Todo(r) = <<look, CC, SR>>
      \/ Todo(r) = <<list, CC, SR>>
      \/ Todo(r) = <<CI, CC, SR>>
      \/ Todo(r) = <<SR, CC, SR>>
      \/ Todo(r) = <<CC, SR>>
      \/ Todo(r) = <<SR>>
      \/ Todo(r) = << >>
  BY <1>1 DEF OpenOK
<1> HIDE DEF CP, CR, CI, CC, SP, SR, look, list
<1>4. Todo(r) = << >> \/ Head(Todo(r)) \in {CP, CR, CI, CC, SP, SR, look, list}
  BY <1>3
<1> QED BY <1>2, <1>4 DEF Writing

LEMMA BeginWrites ==
  ASSUME NEW r, NEW p, NEW x, Writing(r, p, x), NEW c, NEW a, BeginOK(disk, c, a, Todo(r))
  PROVE  p \in Dirs(c, a)
<1> DEFINE MC  == Create(CellDir(c), Dir, << >>)
           MA  == Create(Attempts(c), Dir, << >>)
           MM  == Create(Manifests(c), Dir, << >>)
           MD  == Create(AttemptDir(c, a), Dir, << >>)
           SS  == Sync(CellsDir)
           SC  == Sync(CellDir(c))
           SA  == Sync(Attempts(c))
<1>1. BeginScript(c, a) = <<MC, MA, MM, MD, SS, SC, SA>>
  BY DEF BeginScript
<1>2. /\ \A s \in {MC, MA, MM, MD} : s.path \in Dirs(c, a)
      /\ \A s \in {SS, SC, SA} : s.op \notin {"create", "replace"}
  BY DEF Create, Sync, Dirs
<1>3. \/ Todo(r) = <<MC, MA, MM, MD, SS, SC, SA>>
      \/ Todo(r) = <<MA, MM, MD, SS, SC, SA>>
      \/ Todo(r) = <<MM, MD, SS, SC, SA>>
      \/ Todo(r) = <<MD, SS, SC, SA>>
      \/ Todo(r) = <<SS, SC, SA>>
      \/ Todo(r) = <<SC, SA>>
      \/ Todo(r) = <<SA>>
      \/ Todo(r) = << >>
  BY <1>1 DEF BeginOK
<1> HIDE DEF MC, MA, MM, MD, SS, SC, SA
<1>4. Todo(r) = << >> \/ Head(Todo(r)) \in {MC, MA, MM, MD, SS, SC, SA}
  BY <1>3
<1> QED BY <1>2, <1>4 DEF Writing

LEMMA StageWrites ==
  ASSUME NEW r, NEW p, NEW x, Writing(r, p, x), NEW c, NEW a, StageOK(disk, c, a, Todo(r))
  PROVE  p \in Own(c, a)
<1> DEFINE SA == Sync(AttemptDir(c, a))
<1>1. SA.op \notin {"create", "replace"}
  BY DEF Sync
<1>2. CASE \E f \in Files, v \in Payloads : Todo(r) = StageScript(c, a, f, v)
  <2>1. PICK f \in Files, v \in Payloads : Todo(r) = StageScript(c, a, f, v)
    BY <1>2
  <2> DEFINE put == StagedFile(c, a, f, v)
  <2>2. Todo(r) = <<put, SA>>
    BY <2>1 DEF StageScript, StagedFile, FilePath
  <2>3. put.path \in Own(c, a)
    BY DEF StagedFile, Replace, Own
  <2> HIDE DEF put, SA
  <2>4. Head(Todo(r)) = put
    BY <2>2
  <2> QED BY <2>3, <2>4 DEF Writing
<1>3. CASE Todo(r) = <<SA>>
  <2> HIDE DEF SA
  <2>1. Head(Todo(r)) = SA
    BY <1>3
  <2> QED BY <1>1, <2>1 DEF Writing
<1> QED BY <1>2, <1>3 DEF StageOK, Writing

LEMMA CommitWrites ==
  ASSUME NEW r, NEW p, NEW x, Writing(r, p, x), NEW refs, call[r].method = "commit",
         CommitOK(disk, attempt[r].cell, attempt[r].id, Todo(r), call[r].answer, refs)
  PROVE  \/ p = ManifestPath(attempt[r].cell, attempt[r].id)
         \/ p = Pointer(attempt[r].cell) /\ x = call[r].answer /\ Pointing(r)
<1> DEFINE c   == attempt[r].cell
           a   == attempt[r].id
           m   == Manifest(c, a, FilesOf(disk.seen, c, a))
           CM  == Create(ManifestPath(c, a), m, <<Sync(Manifests(c))>>)
           SM  == Sync(Manifests(c))
           RP  == Replace(Pointer(c), Ref(m))
           SC  == Sync(CellDir(c))
<1>1. /\ CM.path = ManifestPath(c, a) /\ RP.path = Pointer(c) /\ RP.content = Ref(m)
      /\ SM.op \notin {"create", "replace"} /\ SC.op \notin {"create", "replace"}
  BY DEF Create, Sync, Replace
<1>2. call[r].answer = Ref(m)
  BY DEF CommitOK
<1>3. \/ Todo(r) = <<CM, RP, SC>>
      \/ Todo(r) = <<SM, RP, SC>>
      \/ Todo(r) = <<RP, SC>> /\ Generation(disk, c, a, FilesOf(disk.seen, c, a))
      \/ Todo(r) = <<SC>>
      \/ Todo(r) = << >>
  BY DEF CommitOK, CommitScript, Manifest
<1>4. Todo(r) = <<RP, SC>> => Todo(r) = <<Replace(Pointer(c), call[r].answer), Sync(CellDir(c))>>
  BY <1>2
<1> HIDE DEF CM, SM, RP, SC
<1>5. \/ Head(Todo(r)) = CM
      \/ Head(Todo(r)) = SM
      \/ Head(Todo(r)) = RP /\ Todo(r) = <<RP, SC>>
                            /\ Generation(disk, c, a, FilesOf(disk.seen, c, a))
      \/ Head(Todo(r)) = SC
      \/ Todo(r) = << >>
  BY <1>3
<1> QED BY <1>1, <1>2, <1>4, <1>5 DEF Writing, Pointing

LEMMA ForeignWrites ==
  ASSUME NEW r, NEW p, NEW x, Writing(r, p, x), ForeignOK(Todo(r))
  PROVE  Elsewhere(p)
<1>1. CASE \E q, y, d : Elsewhere(q) /\ Todo(r) = <<Create(q, y, <<Sync(d)>>)>>
  <2>1. PICK q, y, d : Elsewhere(q) /\ Todo(r) = <<Create(q, y, <<Sync(d)>>)>>
    BY <1>1
  <2>2. Head(Todo(r)) = Create(q, y, <<Sync(d)>>)
    BY <2>1
  <2> QED BY <2>1, <2>2 DEF Create, Writing
<1>2. CASE \E q, y, d : Elsewhere(q) /\ Todo(r) = <<Replace(q, y), Sync(d)>>
  <2>1. PICK q, y, d : Elsewhere(q) /\ Todo(r) = <<Replace(q, y), Sync(d)>>
    BY <1>2
  <2>2. Head(Todo(r)) = Replace(q, y)
    BY <2>1
  <2> QED BY <2>1, <2>2 DEF Replace, Writing
<1>3. CASE \E d : Todo(r) = <<Sync(d)>>
  <2>1. PICK d : Todo(r) = <<Sync(d)>>
    BY <1>3
  <2>2. Head(Todo(r)) = Sync(d)
    BY <2>1
  <2> QED BY <2>2 DEF Sync, Writing
<1> QED BY <1>1, <1>2, <1>3 DEF ForeignOK, Writing

(* Only the pointer step of a commit names a pointer, and only a step of a   *)
(* method that is none of the store's writes elsewhere.                      *)
LEMMA Writes ==
  ASSUME IInv, NEW r \in Runners, NEW p, NEW x, Writing(r, p, x)
  PROVE  \/ /\ ~Elsewhere(p) /\ \A c \in Cells : p # Pointer(c)
            /\ call[r].method \in {"open", "begin", "stage", "commit"}
         \/ /\ ~Elsewhere(p) /\ p = Pointer(attempt[r].cell) /\ x = call[r].answer
            /\ Pointing(r)
         \/ Elsewhere(p) /\ call[r].method \in {"create", "save"}
<1>1. RunnerOK(disk, store[r], attempt[r], call[r], known)
  BY DEF IInv
<1>2. CASE call[r].method = "open"
  <2>1. p \in {Parent, Root, Identity, CellsDir}
    BY <1>1, <1>2, OpenWrites DEF RunnerOK, Todo
  <2> QED BY <1>2, <2>1, TopApart DEF Elsewhere
<1>3. CASE call[r].method = "begin"
  <2>1. p \in Dirs(attempt[r].cell, attempt[r].id)
    BY <1>1, <1>3, BeginWrites DEF RunnerOK, Todo
  <2>2. attempt[r].cell \in Cells /\ attempt[r].id \in Nat
    BY <1>3, OpenAttempt
  <2> QED BY <1>3, <2>1, <2>2, Apart DEF Elsewhere
<1>4. CASE call[r].method = "stage"
  <2>1. p \in Own(attempt[r].cell, attempt[r].id)
    BY <1>1, <1>4, StageWrites DEF RunnerOK, Todo
  <2>2. attempt[r].cell \in Cells /\ attempt[r].id \in Nat
    BY <1>4, OpenAttempt
  <2> QED BY <1>4, <2>1, <2>2, Apart DEF Elsewhere
<1>5. CASE call[r].method = "commit"
  <2>1. attempt[r].cell \in Cells /\ attempt[r].id \in Nat
    BY <1>5, OpenAttempt
  <2>2. ManifestPath(attempt[r].cell, attempt[r].id) \in Own(attempt[r].cell, attempt[r].id)
    BY DEF Own
  <2>3. CASE p = ManifestPath(attempt[r].cell, attempt[r].id)
    BY <1>5, <2>1, <2>2, <2>3, Apart DEF Elsewhere
  <2>4. CASE p = Pointer(attempt[r].cell) /\ x = call[r].answer /\ Pointing(r)
    BY <2>1, <2>4 DEF Elsewhere
  <2> QED BY <1>1, <1>5, <2>3, <2>4, CommitWrites DEF RunnerOK, Todo
<1>6. CASE call[r].method \in {"create", "save"}
  BY <1>1, <1>6, ForeignWrites DEF RunnerOK, Todo
<1>7. call[r].method # "none"
  BY <1>1 DEF RunnerOK, NoCall, Todo, Writing
<1> QED BY <1>1, <1>2, <1>3, <1>4, <1>5, <1>6, <1>7 DEF RunnerOK

-----------------------------------------------------------------------------
(* The pointers.  Only the holder of the writer lock has an attempt it can   *)
(* use, and that is the last begun: so no commit is overtaken by another.    *)
Exclusive == \A r \in Runners : AttemptOpen(r) => lock = r /\ attempt[r].id = begun

(* A cell's pointer names a generation of that cell. *)
PointersOwn(d) ==
  \A c \in Cells : /\ Pointer(c) \in DOMAIN d.seen => d.seen[Pointer(c)].cell = c
                   /\ Pointer(c) \in DOMAIN d.kept => d.kept[Pointer(c)].cell = c

(* After its pointer step a commit finds its own reference at the pointer. *)
Pointed(r) ==
  LET c == attempt[r].cell
  IN  (call[r].method = "commit" /\ Todo(r) \in {<<Sync(CellDir(c))>>, << >>})
        => CurrentRef(disk.seen, c) = call[r].answer

PInv == IInv /\ Exclusive /\ PointersOwn(disk) /\ \A r \in Runners : Pointed(r)

Current(c) == CurrentRef(disk.seen, c)

LEMMA CommitAttempt ==
  ASSUME IInv, NEW r \in Runners, call[r].method = "commit"
  PROVE  LET c == attempt[r].cell
             a == attempt[r].id
         IN  /\ c \in Cells /\ a \in Nat /\ AttemptOpen(r)
             /\ call[r].answer = Ref(Manifest(c, a, FilesOf(disk.seen, c, a)))
             /\ call[r].answer.cell = c /\ call[r].answer.attempt = a
             /\ call[r].answer # NoRef
<1>1. CommitOK(disk, attempt[r].cell, attempt[r].id, Todo(r), call[r].answer, known)
  BY DEF IInv, RunnerOK, Todo
<1>2. attempt[r].cell \in Cells /\ attempt[r].id \in Nat /\ AttemptOpen(r)
  BY OpenAttempt
<1>3. call[r].answer
        = Ref(Manifest(attempt[r].cell, attempt[r].id,
                       FilesOf(disk.seen, attempt[r].cell, attempt[r].id)))
  BY <1>1 DEF CommitOK
<1>4. /\ call[r].answer.cell = attempt[r].cell /\ call[r].answer.attempt = attempt[r].id
      /\ call[r].answer.kind = "ref"
  BY <1>3, RefFields
<1> QED BY <1>2, <1>3, <1>4 DEF NoRef

LEMMA CurrentKnown ==
  ASSUME PInv, NEW c \in Cells, Current(c) # NoRef
  PROVE  Current(c) \in known /\ Current(c).cell = c
BY DEF PInv, IInv, DiskOK, PointersOwn, Current, CurrentRef, Exists

(* The reference at the pointer that has the attempt of a commit is the one  *)
(* that commit will return.                                                  *)
LEMMA SameGeneration ==
  ASSUME PInv, NEW r \in Runners, call[r].method = "commit", NEW current \in known,
         current.cell = attempt[r].cell, current.attempt = attempt[r].id
  PROVE  current = call[r].answer
<1>1. PICK c \in Cells, a \in 1..begun :
        /\ current = Ref(Manifest(c, a, current.sha.files))
        /\ Generation(disk, c, a, current.sha.files)
  BY DEF PInv, IInv, KnownRef
<1>2. c = attempt[r].cell /\ a = attempt[r].id
  BY <1>1, RefFields
<1>3. current.sha.files = FilesOf(disk.seen, c, a)
  BY <1>1 DEF Generation
<1> QED BY <1>1, <1>2, <1>3, CommitAttempt DEF PInv

(* What a step of a call does to the pointers. *)
LEMMA PointerStep ==
  ASSUME PInv, NEW r \in Runners, FileStep(r)
  PROVE  /\ PointersOwn(disk')
         /\ \A c \in Cells : \/ Current(c)' = Current(c)
                             \/ /\ Pointing(r) /\ c = attempt[r].cell
                                /\ Current(c)' = call[r].answer
<1>1. WellFormed(disk) /\ PointersOwn(disk) /\ IInv
  BY DEF PInv, IInv, DiskOK, WellFormed
<1>2. CASE disk' = disk
  BY <1>1, <1>2 DEF Current, PointersOwn
<1>3. ASSUME NEW dir, disk' = Synced(disk, dir)
      PROVE  PointersOwn(disk') /\ \A c \in Cells : Current(c)' = Current(c)
  <2>1. /\ WellFormed(disk') /\ disk'.seen = disk.seen
        /\ \A q \in DOMAIN disk'.kept :
             disk'.kept[q] = disk.seen[q] \/ (q \in DOMAIN disk.kept /\ disk'.kept[q] = disk.kept[q])
    BY <1>1, <1>3, SyncedKeeps
  <2> QED BY <1>1, <2>1 DEF Current, PointersOwn, WellFormed
<1>4. ASSUME NEW p, NEW x, disk' = Named(disk, p, x), Writing(r, p, x)
      PROVE  /\ PointersOwn(disk')
             /\ \A c \in Cells : \/ Current(c)' = Current(c)
                                 \/ /\ Pointing(r) /\ c = attempt[r].cell
                                    /\ Current(c)' = call[r].answer
  <2>1. /\ disk'.kept = disk.kept /\ DOMAIN disk'.seen = DOMAIN disk.seen \cup {p}
        /\ disk'.seen[p] = x
        /\ \A q \in DOMAIN disk.seen : q # p => disk'.seen[q] = disk.seen[q]
    BY <1>1, <1>4, NamedDisk
  <2>2. \/ \A c \in Cells : p # Pointer(c)
        \/ p = Pointer(attempt[r].cell) /\ x = call[r].answer /\ Pointing(r)
    BY <1>1, <1>4, Writes DEF Elsewhere
  <2>3. CASE \A c \in Cells : p # Pointer(c)
    BY <1>1, <2>1, <2>3 DEF Current, CurrentRef, Exists, PointersOwn
  <2>4. CASE p = Pointer(attempt[r].cell) /\ x = call[r].answer /\ Pointing(r)
    <3>1. attempt[r].cell \in Cells /\ call[r].answer.cell = attempt[r].cell
      BY <1>1, <2>4, CommitAttempt DEF Pointing
    <3>2. \A c \in Cells : Pointer(c) = p => c = attempt[r].cell
      BY <2>4, <3>1, Apart
    <3> QED BY <1>1, <2>1, <2>4, <3>1, <3>2 DEF Current, CurrentRef, Exists, PointersOwn
  <2> QED BY <2>2, <2>3, <2>4
<1> QED BY <1>1, <1>2, <1>3, <1>4, FileStepNames

(* The steps that leave the files, and the lock but for giving it up, alone. *)
LEMMA QuietPointers ==
  ASSUME PInv, IInv', NEW r \in Runners, OnlyMoves(r), disk' = disk, begun' = begun,
         lock' = lock \/ (lock = r /\ ~AttemptOpen(r)'),
         AttemptOpen(r)' => AttemptOpen(r) /\ attempt'[r].id = attempt[r].id,
         Pointed(r)'
  PROVE  PInv'
<1>1. Exclusive'
  <2> SUFFICES ASSUME NEW q \in Runners, AttemptOpen(q)'
               PROVE  lock' = q /\ attempt'[q].id = begun'
    BY DEF Exclusive
  <2>1. CASE q = r
    BY <2>1 DEF PInv, Exclusive
  <2>2. CASE q # r
    BY <2>2 DEF PInv, Exclusive, OnlyMoves, AttemptOpen
  <2> QED BY <2>1, <2>2
<1>2. \A q \in Runners : q # r => Pointed(q)'
  BY DEF PInv, Pointed, OnlyMoves, Todo
<1> QED BY <1>1, <1>2 DEF PInv

LEMMA OpenPointers ==
  ASSUME PInv, IInv', NEW r \in Runners, Open(r)
  PROVE  PInv'
<1>1. /\ call' = [call EXCEPT ![r] = [method |-> "open", todo |-> OpenScript, answer |-> NoRef]]
      /\ store' = [store EXCEPT ![r] = "opening"]
      /\ UNCHANGED <<disk, lock, attempt, begun, known, trouble>>
      /\ IInv
  BY DEF Open, Enters, PInv
<1>2. OnlyMoves(r) /\ call'[r].method = "open" /\ store'[r] = "opening"
  BY <1>1 DEF IInv, OnlyMoves
<1> QED BY <1>1, <1>2, QuietPointers DEF AttemptOpen, Pointed

LEMMA BeginPointers ==
  ASSUME PInv, IInv', NEW r \in Runners, NEW c \in Cells, Begin(r, c)
  PROVE  PInv'
<1>1. /\ call' = [call EXCEPT ![r] =
                    [method |-> "begin", todo |-> BeginScript(c, begun + 1), answer |-> NoRef]]
      /\ attempt' = [attempt EXCEPT ![r] = [kind |-> "attempt", cell |-> c, id |-> begun + 1,
                                            closed |-> FALSE, ref |-> NoRef]]
      /\ lock \in {Nobody, r} /\ lock' = r /\ begun' = begun + 1
      /\ UNCHANGED <<disk, store, known, trouble>>
      /\ IInv
  BY DEF Begin, Enters, MayWrite, PInv
<1>2. /\ OnlyMoves(r) /\ call'[r].method = "begin"
      /\ attempt'[r].id = begun + 1
  BY <1>1 DEF IInv, OnlyMoves
<1>3. \A q \in Runners : q # r => ~AttemptOpen(q)'
  BY <1>1, <1>2, RunnersAssumption DEF PInv, Exclusive, OnlyMoves, AttemptOpen
<1>4. Exclusive'
  BY <1>1, <1>2, <1>3 DEF Exclusive
<1>5. \A q \in Runners : Pointed(q)'
  BY <1>1, <1>2 DEF PInv, Pointed, OnlyMoves, Todo
<1> QED BY <1>1, <1>4, <1>5 DEF PInv

LEMMA StagePointers ==
  ASSUME PInv, IInv', NEW r \in Runners, NEW f \in Files, NEW v \in Payloads, Stage(r, f, v)
  PROVE  PInv'
<1>1. /\ call' = [call EXCEPT ![r] =
                    [method |-> "stage",
                     todo |-> StageScript(attempt[r].cell, attempt[r].id, f, v), answer |-> NoRef]]
      /\ UNCHANGED <<disk, lock, store, attempt, begun, known, trouble>>
      /\ IInv
  BY DEF Stage, Enters, PInv
<1>2. OnlyMoves(r) /\ call'[r].method = "stage"
  BY <1>1 DEF IInv, OnlyMoves
<1> QED BY <1>1, <1>2, QuietPointers DEF AttemptOpen, Pointed

LEMMA CommitPointers ==
  ASSUME PInv, IInv', NEW r \in Runners, Commit(r)
  PROVE  PInv'
<1> DEFINE c == attempt[r].cell
           a == attempt[r].id
           m == Manifest(c, a, FilesOf(disk.seen, c, a))
           CM == Create(ManifestPath(c, a), m, <<Sync(Manifests(c))>>)
           RP == Replace(Pointer(c), Ref(m))
           SC == Sync(CellDir(c))
<1>1. /\ call' = [call EXCEPT ![r] =
                    [method |-> "commit", todo |-> CommitScript(m), answer |-> Ref(m)]]
      /\ UNCHANGED <<disk, lock, store, attempt, begun, known, trouble>>
      /\ IInv
  BY DEF Commit, Enters, PInv
<1>2. OnlyMoves(r) /\ call'[r].todo = CommitScript(m)
  BY <1>1 DEF IInv, OnlyMoves
<1>3. CommitScript(m) = <<CM, RP, SC>>
  BY DEF CommitScript, Manifest
<1>4. CommitScript(m) \notin {<<SC>>, << >>}
  <2> HIDE DEF CM, RP, SC, m
  <2> QED BY <1>3
<1>5. Pointed(r)'
  BY <1>1, <1>2, <1>4 DEF Pointed, Todo
<1> QED BY <1>1, <1>2, <1>5, QuietPointers DEF AttemptOpen

LEMMA EndPointers ==
  ASSUME PInv, IInv', NEW r \in Runners, Close(r) \/ Ends(r) \/ StepFails(r) \/ Return(r)
  PROVE  PInv'
<1>1. IInv /\ disk' = disk /\ begun' = begun
  BY DEF PInv, Close, Ends, StepFails, Return
<1>2. OnlyMoves(r)
  BY <1>1 DEF IInv, OnlyMoves, Close, Ends, StepFails, Return
<1>3. call'[r].method = "none"
  BY <1>1 DEF IInv, Close, Ends, StepFails, Return, NoCall, Idle
<1>4. Pointed(r)'
  BY <1>3 DEF Pointed
<1>5. CASE Close(r) \/ Ends(r)
  <2>1. ~AttemptOpen(r)' /\ lock' = (IF lock = r THEN Nobody ELSE lock)
    BY <1>1, <1>5 DEF IInv, Close, Ends, AttemptOpen
  <2> QED BY <1>1, <1>2, <1>4, <2>1, QuietPointers
<1>6. CASE Return(r)
  <2>1. /\ lock' = lock
        /\ store' = IF call[r].method = "open" THEN [store EXCEPT ![r] = "open"] ELSE store
        /\ attempt'[r] = AttemptAfterReturn(r)
        /\ RunnerOK(disk, store[r], attempt[r], call[r], known)
        /\ AttemptOK(attempt[r], begun, known)
    BY <1>1, <1>6 DEF Return, IInv
  <2>2. CASE call[r].method = "open"
    <3>1. attempt'[r] = NoAttempt
      BY <2>1, <2>2 DEF RunnerOK, AttemptAfterReturn
    <3> QED BY <1>1, <1>2, <1>4, <2>1, <3>1, QuietPointers DEF AttemptOpen
  <2>3. CASE call[r].method = "commit"
    <3>1. attempt'[r].closed
      BY <2>1, <2>3 DEF RunnerOK, AttemptOK, AttemptAfterReturn
    <3> QED BY <1>1, <1>2, <1>4, <2>1, <3>1, QuietPointers DEF AttemptOpen
  <2>4. CASE call[r].method \notin {"open", "commit"}
    <3>1. attempt'[r] = attempt[r] /\ store' = store
      BY <2>1, <2>4 DEF AttemptAfterReturn
    <3> QED BY <1>1, <1>2, <1>4, <2>1, <3>1, QuietPointers DEF AttemptOpen
  <2> QED BY <2>2, <2>3, <2>4
<1>7. CASE StepFails(r)
  <2>1. /\ lock' = LockAfterFailure(r)
        /\ store'[r] = StoreAfterFailure(r)
        /\ attempt'[r] = AttemptAfterFailure(r)
        /\ RunnerOK(disk, store[r], attempt[r], call[r], known)
        /\ AttemptOK(attempt[r], begun, known)
    BY <1>1, <1>7 DEF StepFails, IInv
  <2>2. CASE call[r].method \in {"open", "begin"}
    <3>1. ~AttemptOpen(r)' /\ (lock' = lock \/ lock = r)
      BY <2>1, <2>2 DEF AttemptOpen, StoreAfterFailure, LockAfterFailure
    <3> QED BY <1>1, <1>2, <1>4, <3>1, QuietPointers
  <2>3. CASE call[r].method \in {"stage", "commit"}
    <3>1. attempt'[r].closed /\ lock' = lock
      BY <2>1, <2>3 DEF RunnerOK, AttemptOK, AttemptAfterFailure, LockAfterFailure
    <3> QED BY <1>1, <1>2, <1>4, <3>1, QuietPointers DEF AttemptOpen
  <2>4. CASE call[r].method \notin {"open", "begin", "stage", "commit"}
    <3>1. attempt'[r] = attempt[r] /\ store'[r] = store[r] /\ lock' = lock
      BY <2>1, <2>4 DEF AttemptAfterFailure, StoreAfterFailure, LockAfterFailure
    <3> QED BY <1>1, <1>2, <1>4, <3>1, QuietPointers DEF AttemptOpen
  <2> QED BY <2>2, <2>3, <2>4
<1> QED BY <1>5, <1>6, <1>7

(* A commit comes to its last steps only through its pointer step.           *)
LEMMA CommitGoesOn ==
  ASSUME PInv, NEW r \in Runners, call[r].method = "commit", FileStep(r),
         PointersOwn(disk'),
         call'[r].todo \in {<<Sync(CellDir(attempt[r].cell))>>, << >>}
  PROVE  CurrentRef(disk'.seen, attempt[r].cell) = call[r].answer
<1> DEFINE c  == attempt[r].cell
           a  == attempt[r].id
           m  == Manifest(c, a, FilesOf(disk.seen, c, a))
           CM == Create(ManifestPath(c, a), m, <<Sync(Manifests(c))>>)
           SM == Sync(Manifests(c))
           RP == Replace(Pointer(c), call[r].answer)
           SC == Sync(CellDir(c))
<1>1. IInv /\ WellFormed(disk) /\ CommitOK(disk, c, a, Todo(r), call[r].answer, known)
  BY DEF PInv, IInv, DiskOK, WellFormed, RunnerOK, Todo
<1>2. \/ Todo(r) = <<CM, RP, SC>>
      \/ Todo(r) = <<SM, RP, SC>>
      \/ Todo(r) = <<RP, SC>>
      \/ Todo(r) = <<SC>>
      \/ Todo(r) = << >>
  BY <1>1 DEF CommitOK, CommitScript, Manifest
<1>3. Todo(r) # << >>
  BY DEF FileStep, Making, Finding, Replacing, Syncing, Looking, Listing, Due
<1>4. \A x, y, z : call'[r].todo # <<x, y>> /\ call'[r].todo # <<x, y, z>>
  <2>1. call'[r].todo \in {<<SC>>, << >>}
    OBVIOUS
  <2> HIDE DEF SC
  <2>2. Len(call'[r].todo) = 1 \/ Len(call'[r].todo) = 0
    BY <2>1
  <2>3. ASSUME NEW x, NEW y, call'[r].todo = <<x, y>> PROVE FALSE
    BY <2>2, <2>3
  <2>4. ASSUME NEW x, NEW y, NEW z, call'[r].todo = <<x, y, z>> PROVE FALSE
    BY <2>2, <2>4
  <2> QED BY <2>3, <2>4
<1>5. CASE Todo(r) = <<CM, RP, SC>>
  <2>1. Todo(r) # << >> /\ Head(Todo(r)) = CM /\ << >> \o Tail(Todo(r)) = <<RP, SC>>
    <3> HIDE DEF CM, RP, SC
    <3> QED BY <1>5
  <2>2. Onto(SM, Todo(r)) = <<SM, RP, SC>>
    <3> HIDE DEF CM, RP, SC, SM
    <3> QED BY <1>5, Prepended2
  <2> HIDE DEF RP, SC, m
  <2>3. Progress(r, <<SM>> \o Tail(Todo(r))) \/ Progress(r, <<RP, SC>>)
    BY <1>1, <2>1, CreateStep DEF CM, SM
  <2> HIDE DEF SM, CM
  <2>4. call'[r].todo = Onto(SM, Todo(r)) \/ call'[r].todo = <<RP, SC>>
    BY <2>3 DEF Progress, Onto
  <2> QED BY <1>4, <2>2, <2>4
<1>6. CASE Todo(r) = <<SM, RP, SC>>
  <2>1. Todo(r) # << >> /\ Head(Todo(r)) = SM /\ << >> \o Tail(Todo(r)) = <<RP, SC>>
    <3> HIDE DEF SM, RP, SC
    <3> QED BY <1>6
  <2> HIDE DEF RP, SC
  <2>2. Progress(r, <<RP, SC>>)
    BY <1>1, <2>1, SyncStep DEF SM
  <2>3. call'[r].todo = <<RP, SC>>
    BY <2>2 DEF Progress
  <2> QED BY <1>4, <2>3
<1>7. CASE Todo(r) = <<RP, SC>>
  <2>1. Todo(r) # << >> /\ Head(Todo(r)) = RP
    <3> HIDE DEF RP, SC
    <3> QED BY <1>7
  <2>2. disk' = Named(disk, Pointer(c), call[r].answer)
    BY <1>1, <2>1, ReplaceStep
  <2>3. Pointer(c) \in DOMAIN disk'.seen /\ disk'.seen[Pointer(c)] = call[r].answer
    <3>1. WellFormed(disk)
      BY <1>1
    <3> HIDE DEF c
    <3> QED BY <2>2, <3>1, NamedDisk
  <2> QED BY <2>3 DEF CurrentRef, Exists
<1>8. CASE Todo(r) = <<SC>>
  <2>1. Todo(r) # << >> /\ Head(Todo(r)) = SC
    <3> HIDE DEF SC
    <3> QED BY <1>8
  <2>2. disk' = Synced(disk, CellDir(c))
    BY <1>1, <2>1, SyncStep
  <2>3. disk'.seen = disk.seen
    <3>1. WellFormed(disk)
      BY <1>1
    <3> HIDE DEF c
    <3> QED BY <2>2, <3>1, SyncedDisk
  <2>4. Current(c) = call[r].answer
    BY <1>8 DEF PInv, Pointed, Current
  <2> QED BY <2>3, <2>4 DEF Current
<1> QED BY <1>2, <1>3, <1>5, <1>6, <1>7, <1>8

LEMMA FileStepPointers ==
  ASSUME PInv, IInv', NEW r \in Runners, FileStep(r)
  PROVE  PInv'
<1>1. /\ IInv /\ lock' = lock /\ begun' = begun /\ attempt' = attempt
      /\ \A q \in Runners : q # r => call'[q] = call[q]
  BY DEF PInv, IInv, FileStep, Making, Finding, Replacing, Syncing, Looking, Listing, Rest
<1>2. /\ \A q \in Runners : q # r => store'[q] = store[q]
      /\ \/ store'[r] = store[r] /\ call'[r].method = call[r].method
         \/ store'[r] = "refused" /\ call'[r].method = "none"
  <2>1. ASSUME NEW next, Rest(r, next) PROVE call'[r].method = call[r].method
    BY <1>1, <2>1 DEF Rest, IInv, RunnerOK
  <2>2. CASE Listing(r)
    <3>1. CASE Children(disk.seen, Root) \ {Identity} = {}
      BY <2>1, <2>2, <3>1 DEF Listing
    <3>2. CASE Children(disk.seen, Root) \ {Identity} # {}
      BY <1>1, <2>2, <3>2 DEF Listing, IInv, NoCall
    <3> QED BY <3>1, <3>2
  <2>3. CASE Making(r) \/ Finding(r) \/ Replacing(r) \/ Syncing(r) \/ Looking(r)
    BY <2>1, <2>3 DEF Making, Finding, Replacing, Syncing, Looking
  <2> QED BY <2>2, <2>3 DEF FileStep
<1>3. Exclusive'
  BY <1>1, <1>2 DEF PInv, Exclusive, AttemptOpen
<1>4. /\ PointersOwn(disk')
      /\ \A c \in Cells : \/ Current(c)' = Current(c)
                          \/ /\ Pointing(r) /\ c = attempt[r].cell
                             /\ Current(c)' = call[r].answer
  BY PointerStep
<1>5. Pointed(r)'
  <2> SUFFICES ASSUME call'[r].method = "commit",
                      call'[r].todo \in {<<Sync(CellDir(attempt'[r].cell))>>, << >>}
               PROVE  CurrentRef(disk'.seen, attempt'[r].cell) = call'[r].answer
    BY DEF Pointed, Todo, Current
  <2>1. call[r].method = "commit" /\ attempt'[r] = attempt[r]
    BY <1>1, <1>2
  <2>2. CurrentRef(disk'.seen, attempt[r].cell) = call[r].answer
    BY <1>4, <2>1, CommitGoesOn
  <2>3. call'[r].answer = call[r].answer
    <3>1. ASSUME NEW next, Rest(r, next) PROVE call'[r].answer = call[r].answer
      BY <1>1, <3>1 DEF Rest, IInv, RunnerOK
    <3>2. CASE Listing(r)
      <4>1. CASE Children(disk.seen, Root) \ {Identity} = {}
        BY <3>1, <3>2, <4>1 DEF Listing
      <4>2. CASE Children(disk.seen, Root) \ {Identity} # {}
        BY <1>1, <3>2, <4>2 DEF Listing, IInv, NoCall
      <4> QED BY <4>1, <4>2
    <3> QED BY <3>1, <3>2 DEF FileStep, Making, Finding, Replacing, Syncing, Looking
  <2> QED BY <2>1, <2>2, <2>3
<1>6. ASSUME NEW q \in Runners, q # r PROVE Pointed(q)'
  <2> SUFFICES ASSUME call[q].method = "commit",
                      Todo(q) \in {<<Sync(CellDir(attempt[q].cell))>>, << >>}
               PROVE  CurrentRef(disk'.seen, attempt[q].cell) = call[q].answer
    BY <1>1, <1>6 DEF Pointed, Todo, Current
  <2>1. Current(attempt[q].cell) = call[q].answer
    BY DEF PInv, Pointed, Current
  <2>2. AttemptOpen(q) /\ attempt[q].cell \in Cells
    BY <1>1, CommitAttempt
  <2>3. ~Pointing(r)
    BY <1>1, <1>6, <2>2, CommitAttempt DEF PInv, Exclusive, Pointing
  <2> QED BY <1>4, <2>1, <2>2, <2>3 DEF Current
<1> QED BY <1>3, <1>4, <1>5, <1>6 DEF PInv

LEMMA PowerLossPointers ==
  ASSUME PInv, IInv', PowerLoss
  PROVE  PInv'
<1>1. /\ disk' \in AfterPowerLoss(disk) /\ WellFormed(disk) /\ PointersOwn(disk)
      /\ call' = [r \in Runners |-> NoCall] /\ attempt' = [r \in Runners |-> NoAttempt]
  BY DEF PowerLoss, Becomes, PInv, IInv, DiskOK, WellFormed
<1>2. PointersOwn(disk')
  BY <1>1, PowerLossDisk DEF PointersOwn
<1>3. Exclusive'
  BY <1>1 DEF Exclusive, AttemptOpen
<1>4. \A r \in Runners : Pointed(r)'
  BY <1>1 DEF Pointed, NoCall
<1> QED BY <1>2, <1>3, <1>4 DEF PInv

LEMMA StepPointers ==
  ASSUME PInv, IInv', NEW r \in Runners, RunnerStep(r)
  PROVE  PInv'
<1>1. CASE Open(r)
  BY <1>1, OpenPointers
<1>2. ASSUME NEW c \in Cells, Begin(r, c) PROVE PInv'
  BY <1>2, BeginPointers
<1>3. ASSUME NEW f \in Files, NEW v \in Payloads, Stage(r, f, v) PROVE PInv'
  BY <1>3, StagePointers
<1>4. CASE Commit(r)
  BY <1>4, CommitPointers
<1>5. CASE Close(r) \/ StepFails(r) \/ Return(r) \/ Crash(r)
  BY <1>5, EndPointers DEF Crash
<1>6. CASE FileStep(r)
  BY <1>6, FileStepPointers
<1> QED BY <1>1, <1>2, <1>3, <1>4, <1>5, <1>6 DEF RunnerStep

(* What PointerMovesOn says of one step. *)
MovesOn ==
  \A c \in Cells :
    LET before == CurrentRef(disk.seen, c)
        after  == CurrentRef(disk'.seen, c)
    IN  (after # before /\ before # NoRef) =>
          \/ after # NoRef /\ after.attempt > before.attempt
          \/ PowerLoss

LEMMA StepMovesOn ==
  ASSUME PInv, NEW r \in Runners, RunnerStep(r)
  PROVE  MovesOn
<1> SUFFICES ASSUME NEW c \in Cells, Current(c)' # Current(c), Current(c) # NoRef
             PROVE  Current(c)' # NoRef /\ Current(c)'.attempt > Current(c).attempt
  BY DEF MovesOn, Current
<1>1. FileStep(r)
  BY DEF RunnerStep, Open, Begin, Stage, Commit, Close, Return, StepFails, Crash, Ends, Current
<1>2. Pointing(r) /\ c = attempt[r].cell /\ Current(c)' = call[r].answer
  BY <1>1, PointerStep
<1>3. /\ call[r].method = "commit" /\ AttemptOpen(r)
      /\ call[r].answer # NoRef /\ call[r].answer.attempt = attempt[r].id
  BY <1>2, CommitAttempt DEF Pointing, PInv
<1>4. attempt[r].id = begun
  BY <1>3 DEF PInv, Exclusive
<1>5. Current(c) \in known /\ Current(c).cell = c
  BY CurrentKnown
<1>6. Current(c).attempt \in Nat /\ Current(c).attempt \in 1..begun /\ begun \in Nat
  BY <1>5, KnownIds, Counters DEF PInv
<1>7. Current(c).attempt # attempt[r].id
  BY <1>2, <1>3, <1>5, SameGeneration
<1> QED BY <1>2, <1>3, <1>4, <1>6, <1>7

(* What CommitTellsTruth says of one step. *)
TellsTruth ==
  \A r \in Runners :
    (call[r].method = "commit" /\ Idle(r)' /\ store'[r] = "open")
      => /\ attempt'[r].closed
         /\ attempt'[r].ref = NoRef => CurrentRef(disk.seen, attempt[r].cell) # call[r].answer
         /\ attempt'[r].ref # NoRef =>
              attempt'[r].ref = CurrentRef(disk.seen, attempt[r].cell)
              /\ attempt'[r].ref = call[r].answer

LEMMA CommitEnds ==
  ASSUME PInv, NEW r \in Runners, call[r].method = "commit", Return(r) \/ StepFails(r)
  PROVE  /\ attempt'[r].closed
         /\ attempt'[r].ref = NoRef => Current(attempt[r].cell) # call[r].answer
         /\ attempt'[r].ref # NoRef => /\ attempt'[r].ref = Current(attempt[r].cell)
                                       /\ attempt'[r].ref = call[r].answer
<1> DEFINE c == attempt[r].cell
           a == attempt[r].id
<1>1. /\ IInv /\ c \in Cells /\ call[r].answer # NoRef
      /\ call[r].answer.attempt = a /\ call[r].answer.cell = c
      /\ DOMAIN attempt[r] = {"kind", "cell", "id", "closed", "ref"}
  BY CommitAttempt DEF PInv, IInv, RunnerOK, AttemptOK
<1>2. CASE Return(r)
  <2>1. attempt'[r] = [attempt[r] EXCEPT !.closed = TRUE, !.ref = call[r].answer]
    BY <1>1, <1>2 DEF Return, AttemptAfterReturn, IInv
  <2>2. attempt'[r].closed /\ attempt'[r].ref = call[r].answer
    BY <1>1, <2>1
  <2>3. Current(c) = call[r].answer
    BY <1>2 DEF PInv, Pointed, Current, Return
  <2> QED BY <1>1, <2>2, <2>3
<1>3. CASE StepFails(r)
  <2>1. attempt'[r] = [attempt[r] EXCEPT !.closed = TRUE, !.ref = Reconciled(r)]
    BY <1>1, <1>3 DEF StepFails, AttemptAfterFailure, IInv
  <2>2. attempt'[r].closed /\ attempt'[r].ref = Reconciled(r)
    BY <1>1, <2>1
  <2>3. Reconciled(r) = IF /\ Current(c) # NoRef /\ Current(c).attempt = a
                           /\ Loads(disk.seen, Current(c))
                        THEN Current(c) ELSE NoRef
    BY DEF Reconciled, Current
  <2>4. Current(c) # NoRef => Loads(disk.seen, Current(c))
    BY <1>1, CurrentKnown, IInvLoads DEF EverythingLoads
  <2>5. CASE Current(c) # NoRef /\ Current(c).attempt = a
    BY <1>1, <2>2, <2>3, <2>4, <2>5, CurrentKnown, SameGeneration
  <2>6. CASE ~(Current(c) # NoRef /\ Current(c).attempt = a)
    BY <1>1, <2>2, <2>3, <2>6
  <2> QED BY <2>5, <2>6
<1> QED BY <1>2, <1>3

LEMMA StepTellsTruth ==
  ASSUME PInv, NEW q \in Runners, RunnerStep(q)
  PROVE  TellsTruth
<1> SUFFICES ASSUME NEW r \in Runners, call[r].method = "commit", Idle(r)', store'[r] = "open"
             PROVE  Return(r) \/ StepFails(r)
  BY CommitEnds DEF TellsTruth, Current
<1>1. IInv /\ ~Idle(r) /\ call'[r].method # call[r].method
  BY DEF PInv, Idle
<1>2. q = r
  BY <1>1 DEF RunnerStep, Open, Begin, Stage, Commit, Close, FileStep, Making, Finding, Replacing,
              Syncing, Looking, Listing, Rest, Return, StepFails, Crash, Ends, Enters, IInv
<1>3. ~Crash(r)
  BY <1>1 DEF Crash, Ends, IInv
<1>4. ~FileStep(r)
  <2>1. ASSUME NEW next, Rest(r, next) PROVE FALSE
    BY <1>1, <2>1 DEF Rest, IInv, RunnerOK
  <2>2. ASSUME Listing(r) PROVE FALSE
    <3>1. CASE Children(disk.seen, Root) \ {Identity} = {}
      BY <2>1, <2>2, <3>1 DEF Listing
    <3>2. CASE Children(disk.seen, Root) \ {Identity} # {}
      BY <1>1, <2>2, <3>2 DEF Listing, IInv
    <3> QED BY <3>1, <3>2
  <2> QED BY <2>1, <2>2 DEF FileStep, Making, Finding, Replacing, Syncing, Looking
<1> QED BY <1>1, <1>2, <1>3, <1>4 DEF RunnerStep, Open, Begin, Stage, Commit, Close

LEMMA NextPointers ==
  ASSUME PInv, [StoreNext]_storeVars, PowerFails # "ever"
  PROVE  PInv' /\ [MovesOn]_storeVars /\ [TellsTruth]_storeVars
<1>1. IInv'
  BY StoreKeeps DEF PInv
<1>2. CASE PowerLoss
  <2>1. PInv' /\ MovesOn
    BY <1>1, <1>2, PowerLossPointers DEF MovesOn
  <2>2. \A r \in Runners : store'[r] # "open"
    BY <1>2 DEF PowerLoss
  <2> QED BY <2>1, <2>2 DEF TellsTruth
<1>3. ASSUME NEW r \in Runners, RunnerStep(r)
      PROVE  PInv' /\ MovesOn /\ TellsTruth
  BY <1>1, <1>3, StepPointers, StepMovesOn, StepTellsTruth
<1>4. CASE UNCHANGED storeVars
  <2>1. PInv'
    BY <1>1, <1>4 DEF storeVars, PInv, Exclusive, AttemptOpen, PointersOwn, Pointed, Todo
  <2> QED BY <1>4, <2>1
<1> QED BY <1>2, <1>3, <1>4 DEF StoreNext

LEMMA PointersStart ==
  ASSUME StoreInit
  PROVE  PInv
<1>1. attempt = [r \in Runners |-> NoAttempt] /\ call = [r \in Runners |-> NoCall]
      /\ disk.kept = disk.seen /\ DOMAIN disk.seen = DOMAIN InitialTree
  BY DEF StoreInit, Durable, NoStores
<1>2. \A c \in Cells : Pointer(c) \notin DOMAIN disk.seen
  BY <1>1, InitialPaths, TopApart
<1>3. Exclusive /\ PointersOwn(disk)
  BY <1>1, <1>2 DEF Exclusive, AttemptOpen, PointersOwn
<1>4. \A r \in Runners : Pointed(r)
  BY <1>1 DEF Pointed, NoCall
<1> QED BY <1>3, <1>4, StoreStarts DEF PInv

(* A cell's pointer only moves on to attempts begun later, except in a power *)
(* loss: the writer lock keeps a late commit from covering a newer one.      *)
THEOREM AlwaysMovesOn ==
  ASSUME PowerFails # "ever"
  PROVE  StoreSpec => PointerMovesOn
<1>1. PInv /\ [StoreNext]_storeVars => PInv' /\ [MovesOn]_storeVars
  BY NextPointers
<1> QED BY <1>1, PointersStart, PTL DEF StoreSpec, PointerMovesOn, MovesOn

(* What a finished commit tells its caller, returned or recovered by         *)
(* reconcile after a failure, is what the pointer says.                      *)
THEOREM AlwaysTellsTruth ==
  ASSUME PowerFails # "ever"
  PROVE  StoreSpec => CommitTellsTruth
<1>1. PInv /\ [StoreNext]_storeVars => PInv' /\ [TellsTruth]_storeVars
  BY NextPointers
<1> QED BY <1>1, PointersStart, PTL DEF StoreSpec, CommitTellsTruth, TellsTruth

-----------------------------------------------------------------------------
(* Who is shut out.  This holds wherever power may fail, so it rests on an    *)
(* invariant of its own: until the identity is settled no store is open, and  *)
(* without an open store nothing but a constructor writes below the root.     *)
IdentitySettled(d) == SameEntry(d, Identity)

(* A step of a method other than the constructor, and a script of such steps. *)
Tame(step, settled) ==
  /\ step.op \in {"create", "replace", "sync"}
  /\ step.op = "replace" => step.path # Identity
  /\ step.op = "create" => step.then = << >> \/ \E dir : step.then = <<Sync(dir)>>
  /\ settled \/ step.op = "sync" \/ Elsewhere(step.path)

TameScript(todo, settled) == \E S : todo \in Seq(S) /\ \A step \in S : Tame(step, settled)

GroundOK(d, s, k) ==
  /\ k = [method |-> k.method, todo |-> k.todo, answer |-> k.answer]
  /\ s = "open" => IdentitySettled(d)
  /\ k.method = "open" => /\ s = "opening" /\ OpenOK(d, k.todo)
                          /\ k.todo = << >> => IdentitySettled(d)
  /\ k.method # "open" => TameScript(k.todo, IdentitySettled(d))

NoCellBegun(d) == \A c \in Cells : CellDir(c) \notin DOMAIN d.seen

Ground ==
  /\ WellFormed(disk)
  /\ lock \in Runners \cup {Nobody}
  /\ lock # Nobody => store[lock] = "open"
  /\ store = [r \in Runners |-> store[r]]
  /\ call = [r \in Runners |-> call[r]]
  /\ IdentitySettled(disk) \/ NoCellBegun(disk)
  /\ \A r \in Runners : GroundOK(disk, store[r], call[r])

(* What a step may do to the disk. *)
Fits(p) ==
  /\ IdentitySettled(disk) => p # Identity
  /\ ~IdentitySettled(disk) => \A c \in Cells : p # CellDir(c)
  /\ p = CellsDir => Identity \in DOMAIN disk.seen

GroundStep ==
  \/ disk' = disk
  \/ \E dir : disk' = Synced(disk, dir)
  \/ \E p, x : disk' = Named(disk, p, x) /\ Fits(p)

GroundGrown ==
  /\ WellFormed(disk') /\ DOMAIN disk.seen \subseteq DOMAIN disk'.seen
  /\ IdentitySettled(disk) => IdentitySettled(disk')
  /\ IdentitySettled(disk') \/ NoCellBegun(disk')
  /\ ShutOut(disk'.seen) => ShutOut(disk.seen)

LEMMA GroundGrows ==
  ASSUME Ground, GroundStep
  PROVE  GroundGrown
<1>1. WellFormed(disk) /\ (IdentitySettled(disk) \/ NoCellBegun(disk))
  BY DEF Ground
<1>2. CASE disk' = disk
  BY <1>1, <1>2 DEF GroundGrown, WellFormed, NoCellBegun, IdentitySettled, SameEntry, ShutOut
<1>3. ASSUME NEW dir, disk' = Synced(disk, dir) PROVE GroundGrown
  <2>1. WellFormed(disk') /\ disk'.seen = disk.seen
    BY <1>1, <1>3, SyncedKeeps
  <2>2. IdentitySettled(disk) => IdentitySettled(disk')
    BY <1>1, <1>3, SyncedSettles DEF IdentitySettled
  <2> QED BY <1>1, <2>1, <2>2 DEF GroundGrown, NoCellBegun, ShutOut
<1>4. ASSUME NEW p, NEW x, disk' = Named(disk, p, x), Fits(p) PROVE GroundGrown
  <2>1. /\ WellFormed(disk') /\ DOMAIN disk'.seen = DOMAIN disk.seen \cup {p}
        /\ \A q : (SameEntry(disk, q) /\ q # p) => SameEntry(disk', q)
    BY <1>1, <1>4, NamedDisk
  <2>2. IdentitySettled(disk) => IdentitySettled(disk')
    BY <1>4, <2>1 DEF Fits, IdentitySettled
  <2>3. IdentitySettled(disk') \/ NoCellBegun(disk')
    BY <1>1, <1>4, <2>1, <2>2 DEF Fits, NoCellBegun
  <2>4. ShutOut(disk'.seen) => ShutOut(disk.seen)
    BY <1>4, <2>1 DEF Fits, ShutOut, Exists
  <2> QED BY <2>1, <2>2, <2>3, <2>4 DEF GroundGrown
<1> QED BY <1>2, <1>3, <1>4 DEF GroundStep

LEMMA TameMore ==
  ASSUME NEW todo, NEW settled, NEW more, TameScript(todo, settled), settled => more
  PROVE  TameScript(todo, more)
BY DEF TameScript, Tame

(* A step of one runner. *)
LEMMA GroundMoves ==
  ASSUME Ground, NEW r \in Runners, GroundStep, Locks(r),
         store' = [q \in Runners |-> store'[q]], call' = [q \in Runners |-> call'[q]],
         \A q \in Runners : q # r => store'[q] = store[q] /\ call'[q] = call[q],
         GroundGrown => GroundOK(disk', store'[r], call'[r])
  PROVE  Ground' /\ (ShutOut(disk'.seen) => ShutOut(disk.seen))
<1>1. GroundGrown
  BY GroundGrows
<1>2. ASSUME NEW q \in Runners, q # r PROVE GroundOK(disk', store'[q], call'[q])
  <2>1. GroundOK(disk, store[q], call[q]) /\ store'[q] = store[q] /\ call'[q] = call[q]
    BY <1>2 DEF Ground
  <2>2. OpenOK(disk, call[q].todo) => OpenOK(disk', call[q].todo)
    BY <1>1 DEF GroundGrown, OpenOK
  <2>3. IdentitySettled(disk) => IdentitySettled(disk')
    BY <1>1 DEF GroundGrown
  <2>4. TameScript(call[q].todo, IdentitySettled(disk)) =>
          TameScript(call[q].todo, IdentitySettled(disk'))
    BY <2>3, TameMore
  <2> QED BY <2>1, <2>2, <2>3, <2>4 DEF GroundOK
<1>3. lock' # Nobody => store'[lock'] = "open"
  BY DEF Ground, Locks
<1> QED BY <1>1, <1>2, <1>3 DEF Ground, GroundGrown, Locks

(* What is left of a tame script, and the scripts that are tame.             *)
LEMMA TameGoesOn ==
  ASSUME NEW todo, NEW settled, TameScript(todo, settled), todo # << >>
  PROVE  /\ Tame(Head(todo), settled)
         /\ TameScript(Tail(todo), settled)
         /\ \A dir : TameScript(<<Sync(dir)>> \o Tail(todo), settled)
<1>1. PICK S : todo \in Seq(S) /\ \A step \in S : Tame(step, settled)
  BY DEF TameScript
<1>2. Head(todo) \in S /\ Tail(todo) \in Seq(S)
  BY <1>1, HeadTailProperties
<1>3. ASSUME NEW dir PROVE TameScript(<<Sync(dir)>> \o Tail(todo), settled)
  <2> DEFINE step == Sync(dir)
             T == S \cup {step}
  <2>1. Tame(step, settled)
    BY DEF Tame, Sync
  <2> HIDE DEF step
  <2>2. <<step>> \in Seq(T) /\ Tail(todo) \in Seq(T)
    BY <1>2
  <2>3. <<step>> \o Tail(todo) \in Seq(T)
    BY <2>2, ConcatProperties
  <2>4. \A x \in T : Tame(x, settled)
    BY <1>1, <2>1
  <2> QED BY <2>3, <2>4 DEF TameScript, step
<1> QED BY <1>1, <1>2, <1>3 DEF TameScript

LEMMA TameFrom ==
  ASSUME NEW settled, NEW S, NEW todo \in Seq(S), \A step \in S : Tame(step, settled)
  PROVE  TameScript(todo, settled)
BY DEF TameScript

LEMMA TameNothing ==
  ASSUME NEW settled
  PROVE  TameScript(<< >>, settled)
<1> DEFINE S == {}
<1>1. << >> \in Seq(S) /\ \A step \in S : Tame(step, settled)
  OBVIOUS
<1> HIDE DEF S
<1> QED BY <1>1, TameFrom

LEMMA TameTwo ==
  ASSUME NEW a, NEW b, NEW settled, Tame(a, settled), Tame(b, settled)
  PROVE  TameScript(<<a, b>>, settled)
<1> DEFINE S == {a, b}
<1>1. <<a, b>> \in Seq(S)
  OBVIOUS
<1>2. \A step \in S : Tame(step, settled)
  OBVIOUS
<1> HIDE DEF S
<1> QED BY <1>1, <1>2, TameFrom

LEMMA TameBegin ==
  ASSUME NEW c, NEW a
  PROVE  TameScript(BeginScript(c, a), TRUE)
<1> DEFINE MC  == Create(CellDir(c), Dir, << >>)
           MA  == Create(Attempts(c), Dir, << >>)
           MM  == Create(Manifests(c), Dir, << >>)
           MD  == Create(AttemptDir(c, a), Dir, << >>)
           SS  == Sync(CellsDir)
           SC  == Sync(CellDir(c))
           SA  == Sync(Attempts(c))
           S   == {MC, MA, MM, MD, SS, SC, SA}
<1>1. BeginScript(c, a) = <<MC, MA, MM, MD, SS, SC, SA>>
  BY DEF BeginScript
<1>2. \A step \in S : Tame(step, TRUE)
  BY DEF Create, Sync, Tame
<1> HIDE DEF MC, MA, MM, MD, SS, SC, SA
<1>3. <<MC, MA, MM, MD, SS, SC, SA>> \in Seq(S)
  OBVIOUS
<1> HIDE DEF S
<1> QED BY <1>1, <1>2, <1>3, TameFrom

(* What replaces an entry does so further down than identity.json.           *)
Long(S, n) == {p \in Seq(S) : Len(p) = n}

LEMMA OneFurther ==
  ASSUME NEW S, NEW n \in Nat, NEW m \in Nat, m = n + 1
  PROVE  \A d \in Long(S, n), x \in S : Under(d, x) \in Long(S, m)
<1> SUFFICES ASSUME NEW d \in Long(S, n), NEW x \in S
             PROVE  Under(d, x) \in Long(S, m)
  OBVIOUS
<1>1. <<x>> \in Seq(S) /\ Len(<<x>>) = 1 /\ d \in Seq(S) /\ Len(d) = n
  BY DEF Long
<1> QED BY <1>1, ConcatProperties DEF Under, Long

LEMMA FurtherDown ==
  ASSUME NEW c, NEW a, NEW f
  PROVE  FilePath(c, a, f) # Identity /\ Pointer(c) # Identity
<1> DEFINE S == {"artifacts", "root", "identity", "cells", "attempts", "committed", c, a, f}
           Down(n, m) == \A d \in Long(S, n), x \in S : Under(d, x) \in Long(S, m)
<1>1. Parent \in Long(S, 1)
  BY DEF Parent, Long
<1>2. /\ "root" \in S /\ "identity" \in S /\ "cells" \in S /\ "attempts" \in S
      /\ "committed" \in S /\ c \in S /\ a \in S /\ f \in S
  OBVIOUS
<1> HIDE DEF S
<1>3. Down(1, 2) /\ Down(2, 3) /\ Down(3, 4) /\ Down(4, 5) /\ Down(5, 6) /\ Down(6, 7)
  BY OneFurther
<1>4. Root \in Long(S, 2)
  BY <1>1, <1>2, <1>3, PathsUnder
<1>5. Identity \in Long(S, 3) /\ CellsDir \in Long(S, 3)
  BY <1>2, <1>3, <1>4, PathsUnder
<1>6. CellDir(c) \in Long(S, 4)
  BY <1>2, <1>3, <1>5, PathsUnder
<1>7. Attempts(c) \in Long(S, 5) /\ Pointer(c) \in Long(S, 5)
  BY <1>2, <1>3, <1>6, PathsUnder
<1>8. AttemptDir(c, a) \in Long(S, 6)
  BY <1>2, <1>3, <1>7, PathsUnder
<1>9. FilePath(c, a, f) \in Long(S, 7)
  BY <1>2, <1>3, <1>8, PathsUnder
<1>10. Len(Identity) = 3 /\ Len(Pointer(c)) = 5 /\ Len(FilePath(c, a, f)) = 7
  BY <1>5, <1>7, <1>9 DEF Long
<1> QED BY <1>10

LEMMA TameStage ==
  ASSUME NEW c, NEW a, NEW f, NEW v
  PROVE  TameScript(StageScript(c, a, f, v), TRUE)
<1> DEFINE put  == Replace(FilePath(c, a, f), Payload(v))
           sync == Sync(AttemptDir(c, a))
<1>1. FilePath(c, a, f) # Identity
  BY FurtherDown
<1>2. Tame(put, TRUE) /\ Tame(sync, TRUE)
  BY <1>1 DEF Tame, Replace, Sync
<1>3. StageScript(c, a, f, v) = <<put, sync>>
  BY DEF StageScript, FilePath
<1> HIDE DEF put, sync
<1> QED BY <1>2, <1>3, TameTwo

LEMMA TameCommit ==
  ASSUME NEW m
  PROVE  TameScript(CommitScript(m), TRUE)
<1> DEFINE CM  == Create(ManifestPath(m.cell, m.attempt), m, <<Sync(Manifests(m.cell))>>)
           RP  == Replace(Pointer(m.cell), Ref(m))
           SC  == Sync(CellDir(m.cell))
           S   == {CM, RP, SC}
<1>1. Pointer(m.cell) # Identity
  BY FurtherDown
<1>2. Tame(CM, TRUE) /\ Tame(RP, TRUE) /\ Tame(SC, TRUE)
  BY <1>1 DEF Tame, Create, Replace, Sync
<1>3. CommitScript(m) = <<CM, RP, SC>>
  BY DEF CommitScript
<1> HIDE DEF CM, RP, SC
<1>4. <<CM, RP, SC>> \in Seq(S)
  OBVIOUS
<1>5. \A step \in S : Tame(step, TRUE)
  BY <1>2
<1> HIDE DEF S
<1> QED BY <1>3, <1>4, <1>5, TameFrom

(* What a step of a call does, by the step that is due. *)
GoesOn(r, todo) ==
  /\ call'[r] = [method |-> call[r].method, todo |-> todo, answer |-> call[r].answer]
  /\ store'[r] = store[r]

LEMMA FileStepDoes ==
  ASSUME Ground, NEW r \in Runners, FileStep(r)
  PROVE  LET step == Head(Todo(r))
             rest == Tail(Todo(r))
         IN  /\ Todo(r) # << >> /\ lock' = lock
             /\ store' = [q \in Runners |-> store'[q]] /\ call' = [q \in Runners |-> call'[q]]
             /\ \A q \in Runners : q # r => store'[q] = store[q] /\ call'[q] = call[q]
             /\ \/ /\ step.op = "create" /\ step.path \notin DOMAIN disk.seen
                   /\ disk' = Named(disk, step.path, step.content)
                   /\ GoesOn(r, step.then \o rest)
                \/ /\ step.op = "create" /\ step.path \in DOMAIN disk.seen
                   /\ disk' = disk /\ GoesOn(r, rest)
                \/ /\ step.op = "replace" /\ disk' = Named(disk, step.path, step.content)
                   /\ GoesOn(r, rest)
                \/ /\ step.op = "sync" /\ disk' = Synced(disk, step.path)
                   /\ GoesOn(r, rest)
                \/ /\ step.op = "look" /\ disk' = disk
                   /\ IF Identity \in DOMAIN disk.seen THEN GoesOn(r, rest)
                      ELSE GoesOn(r, <<ListRoot>> \o rest)
                \/ /\ step.op = "list" /\ disk' = disk
                   /\ GoesOn(r, <<Create(Identity, IdentityFile, <<Sync(Root)>>)>> \o rest)
                \/ /\ step.op = "list" /\ disk' = disk
                   /\ call'[r] = NoCall /\ store'[r] = "refused"
<1>1. /\ call[r] = [method |-> call[r].method, todo |-> call[r].todo, answer |-> call[r].answer]
      /\ call = [q \in Runners |-> call[q]] /\ store = [q \in Runners |-> store[q]]
  BY DEF Ground, GroundOK
<1>2. ASSUME NEW next, Rest(r, next), store' = store
      PROVE  /\ GoesOn(r, next \o Tail(Todo(r)))
             /\ store' = [q \in Runners |-> store'[q]] /\ call' = [q \in Runners |-> call'[q]]
             /\ \A q \in Runners : q # r => store'[q] = store[q] /\ call'[q] = call[q]
  BY <1>1, <1>2 DEF Rest, Todo, GoesOn
<1>3. << >> \o Tail(Todo(r)) = Tail(Todo(r))
  OBVIOUS
<1>4. CASE Making(r)
  BY <1>2, <1>4 DEF Making, Due, Becomes, Exists
<1>5. CASE Finding(r) \/ Replacing(r) \/ Syncing(r)
  BY <1>2, <1>3, <1>5 DEF Finding, Replacing, Syncing, Due, Becomes, Exists
<1>6. CASE Looking(r)
  BY <1>2, <1>3, <1>6 DEF Looking, Due, Exists
<1>7. CASE Listing(r)
  <2>1. CASE Children(disk.seen, Root) \ {Identity} = {}
    BY <1>2, <1>7, <2>1 DEF Listing, Due
  <2>2. CASE Children(disk.seen, Root) \ {Identity} # {}
    BY <1>1, <1>7, <2>2 DEF Listing, Due
  <2> QED BY <2>1, <2>2
<1> QED BY <1>4, <1>5, <1>6, <1>7 DEF FileStep

(* A step of a method other than the constructor.                            *)
LEMMA TameFileStep ==
  ASSUME Ground, NEW r \in Runners, call[r].method # "open", FileStep(r)
  PROVE  Ground' /\ (ShutOut(disk'.seen) => ShutOut(disk.seen))
<1> DEFINE step    == Head(Todo(r))
           rest    == Tail(Todo(r))
           settled == IdentitySettled(disk)
<1>1. TameScript(Todo(r), settled) /\ GroundOK(disk, store[r], call[r])
  BY DEF Ground, GroundOK, Todo
<1>2. /\ Todo(r) # << >> /\ lock' = lock
      /\ store' = [q \in Runners |-> store'[q]] /\ call' = [q \in Runners |-> call'[q]]
      /\ \A q \in Runners : q # r => store'[q] = store[q] /\ call'[q] = call[q]
  BY FileStepDoes
<1>3. /\ Tame(step, settled) /\ TameScript(rest, settled)
      /\ \A dir : TameScript(<<Sync(dir)>> \o rest, settled)
  BY <1>1, <1>2, TameGoesOn
<1>4. << >> \o rest = rest
  OBVIOUS
<1>5. /\ step.op \in {"create", "replace", "sync"}
      /\ step.op = "create" => TameScript(step.then \o rest, settled)
  BY <1>3, <1>4 DEF Tame
<1>6. GroundStep /\ \E todo : TameScript(todo, settled) /\ GoesOn(r, todo)
  <2>1. Fits(step.path) \/ step.op = "sync" \/ disk' = disk
    <3>1. CASE settled
      <4>1. Identity \in DOMAIN disk.seen
        BY <3>1 DEF IdentitySettled, SameEntry
      <4> QED BY <1>3, <1>5, <3>1, <4>1, FileStepDoes DEF Fits, Tame
    <3>2. CASE ~settled /\ step.op # "sync"
      <4>1. Elsewhere(step.path)
        BY <1>3, <3>2 DEF Tame
      <4>2. 0 \in Nat /\ \A c : CellDir(c) \in Dirs(c, 0)
        BY DEF Dirs
      <4> QED BY <3>2, <4>1, <4>2 DEF Fits, Elsewhere
    <3> QED BY <3>1, <3>2
  <2> QED BY <1>3, <1>5, <2>1, FileStepDoes DEF GroundStep
<1>7. PICK todo : TameScript(todo, settled) /\ GoesOn(r, todo)
  BY <1>6
<1>8. ASSUME GroundGrown PROVE GroundOK(disk', store'[r], call'[r])
  <2>1. TameScript(todo, IdentitySettled(disk'))
    BY <1>7, <1>8, TameMore DEF GroundGrown
  <2> QED BY <1>1, <1>7, <1>8, <2>1 DEF GroundOK, GoesOn, GroundGrown
<1>9. Locks(r)
  BY <1>2, <1>7 DEF Ground, Locks, GoesOn
<1> QED BY <1>2, <1>6, <1>8, <1>9, GroundMoves

(* A step of the constructor: only the last one, the sync of the root, leaves *)
(* it with nothing to do, and cells/ is made only where an identity is.       *)
LEMMA OpenGround ==
  ASSUME Ground, NEW r \in Runners, call[r].method = "open", FileStep(r)
  PROVE  Ground' /\ (ShutOut(disk'.seen) => ShutOut(disk.seen))
<1> DEFINE CP   == Create(Parent, Dir, << >>)
           CR   == Create(Root, Dir, <<Sync(Parent)>>)
           CI   == Create(Identity, IdentityFile, <<Sync(Root)>>)
           CC   == CreateCells
           SP   == Sync(Parent)
           SR   == Sync(Root)
           look == LookForIdentity
           list == ListRoot
           seen == DOMAIN disk.seen
           rest == Tail(Todo(r))
           Goal == Ground' /\ (ShutOut(disk'.seen) => ShutOut(disk.seen))
<1>1. /\ OpenOK(disk, Todo(r)) /\ store[r] = "opening" /\ WellFormed(disk)
      /\ lock # r /\ lock \in Runners \cup {Nobody}
  BY RunnersAssumption DEF Ground, GroundOK, Todo
<1>2. /\ Todo(r) # << >> /\ lock' = lock
      /\ store' = [q \in Runners |-> store'[q]] /\ call' = [q \in Runners |-> call'[q]]
      /\ \A q \in Runners : q # r => store'[q] = store[q] /\ call'[q] = call[q]
  BY FileStepDoes
<1>3. ASSUME NEW todo, GoesOn(r, todo), GroundStep, GroundGrown => OpenOK(disk', todo),
             todo = << >> => IdentitySettled(disk')
      PROVE  Goal
  <2>1. GroundOK(disk', store'[r], call'[r]) \/ ~GroundGrown
    BY <1>1, <1>3 DEF GroundOK, GoesOn
  <2>2. Locks(r)
    BY <1>1, <1>2 DEF Locks
  <2> QED BY <1>2, <1>3, <2>1, <2>2, GroundMoves
<1>4. ASSUME NEW p \in {Parent, Root, Identity, CellsDir}, NEW x, NEW then,
             Head(Todo(r)) = Create(p, x, then), p = CellsDir => Identity \in seen,
             rest # << >>, then \o rest # << >>,
             (p \in DOMAIN disk'.seen /\ seen \subseteq DOMAIN disk'.seen) =>
               OpenOK(disk', then \o rest) /\ OpenOK(disk', rest)
      PROVE  Goal
  <2>1. \/ p \notin seen /\ disk' = Named(disk, p, x) /\ GoesOn(r, then \o rest)
        \/ p \in seen /\ disk' = disk /\ GoesOn(r, rest)
    BY <1>4, FileStepDoes DEF Create
  <2>2. CASE p \notin seen /\ disk' = Named(disk, p, x) /\ GoesOn(r, then \o rest)
    <3>1. p \in DOMAIN disk'.seen
      BY <1>1, <2>2, NamedDisk
    <3>2. 0 \in Nat /\ \A c : CellDir(c) \in Dirs(c, 0)
      BY DEF Dirs
    <3>3. Fits(p)
      BY <1>4, <2>2, <3>2, TopApart DEF Fits, IdentitySettled, SameEntry
    <3>4. GroundStep
      BY <2>2, <3>3 DEF GroundStep
    <3> QED BY <1>3, <1>4, <2>2, <3>1, <3>4 DEF GroundGrown
  <2>3. CASE p \in seen /\ disk' = disk /\ GoesOn(r, rest)
    <3>1. GroundStep
      BY <2>3 DEF GroundStep
    <3> QED BY <1>3, <1>4, <2>3, <3>1
  <2> QED BY <2>1, <2>2, <2>3
<1>5. ASSUME NEW dir, Head(Todo(r)) = Sync(dir), GroundGrown => OpenOK(disk', rest),
             rest = << >> => IdentitySettled(Synced(disk, dir))
      PROVE  Goal
  <2>1. disk' = Synced(disk, dir) /\ GoesOn(r, rest)
    BY <1>5, FileStepDoes DEF Sync
  <2>2. GroundStep
    BY <2>1 DEF GroundStep
  <2> QED BY <1>3, <1>5, <2>1, <2>2
<1>6. CASE Todo(r) = OpenScript
  <2>1. Todo(r) = <<CP, CR, look, CC, SR>>
    BY <1>6 DEF OpenScript, CreateCells
  <2> HIDE DEF CP, CR, CC, SR, look
  <2>2. Head(Todo(r)) = CP /\ rest = <<CR, look, CC, SR>> /\ << >> \o rest = rest
    BY <2>1
  <2>3. OpenOK(disk', rest) /\ rest # << >>
    BY <2>2 DEF OpenOK, CR, CC, SR, look
  <2> QED BY <1>4, <2>2, <2>3, IdentityNotCells DEF CP
<1>7. CASE Todo(r) = <<CR, look, CC, SR>>
  <2> HIDE DEF CR, CC, SR, SP, look
  <2>1. Head(Todo(r)) = CR /\ rest = <<look, CC, SR>>
    BY <1>7
  <2>2. Onto(SP, Todo(r)) = <<SP, look, CC, SR>>
    BY <1>7, Prepended3
  <2>3. OpenOK(disk', rest) /\ OpenOK(disk', <<SP>> \o rest)
    BY <2>1, <2>2 DEF OpenOK, CC, SR, SP, look, Onto
  <2>4. rest # << >> /\ <<SP>> \o rest # << >>
    BY <2>1, <2>2 DEF Onto
  <2> QED BY <1>4, <2>1, <2>3, <2>4, IdentityNotCells DEF CR, SP
<1>8. CASE Todo(r) = <<SP, look, CC, SR>>
  <2> HIDE DEF CC, SR, SP, look
  <2>1. Head(Todo(r)) = SP /\ rest = <<look, CC, SR>> /\ rest # << >>
    BY <1>8
  <2>2. OpenOK(disk', rest)
    BY <2>1 DEF OpenOK, CC, SR, look
  <2> QED BY <1>5, <2>1, <2>2 DEF SP
<1>9. CASE Todo(r) = <<look, CC, SR>>
  <2> HIDE DEF CC, SR, look, list
  <2>1. Head(Todo(r)) = look /\ rest = <<CC, SR>> /\ rest # << >>
    BY <1>9
  <2>2. disk' = disk /\ \/ Identity \in seen /\ GoesOn(r, rest)
                        \/ GoesOn(r, <<list>> \o rest)
    BY <2>1, FileStepDoes DEF look, list, LookForIdentity
  <2>3. Onto(list, Todo(r)) = <<list, CC, SR>>
    BY <1>9, Prepended2
  <2>4. /\ Identity \in seen => OpenOK(disk', rest)
        /\ OpenOK(disk', <<list>> \o rest) /\ <<list>> \o rest # << >>
    BY <2>1, <2>2, <2>3 DEF OpenOK, CC, SR, list, Onto
  <2>5. GroundStep
    BY <2>2 DEF GroundStep
  <2> QED BY <1>3, <2>1, <2>2, <2>4, <2>5
<1>10. CASE Todo(r) = <<list, CC, SR>>
  <2> HIDE DEF CC, SR, CI, list
  <2>1. Head(Todo(r)) = list
    BY <1>10
  <2>2. disk' = disk /\ \/ GoesOn(r, <<CI>> \o rest)
                        \/ call'[r] = NoCall /\ store'[r] = "refused"
    BY <2>1, FileStepDoes DEF list, ListRoot, CI
  <2>3. Onto(CI, Todo(r)) = <<CI, CC, SR>>
    BY <1>10, Prepended2
  <2>4. OpenOK(disk', <<CI>> \o rest) /\ <<CI>> \o rest # << >>
    BY <2>3 DEF OpenOK, CC, SR, CI, Onto
  <2>5. GroundStep
    BY <2>2 DEF GroundStep
  <2>6. CASE call'[r] = NoCall /\ store'[r] = "refused"
    <3>1. GroundOK(disk', store'[r], call'[r])
      BY <2>6, TameNothing DEF GroundOK, NoCall
    <3>2. Locks(r)
      BY <1>1, <1>2 DEF Locks
    <3> QED BY <1>2, <2>5, <3>1, <3>2, GroundMoves
  <2> QED BY <1>3, <2>2, <2>4, <2>5, <2>6
<1>11. CASE Todo(r) = <<CI, CC, SR>>
  <2> HIDE DEF CC, SR, CI
  <2>1. Head(Todo(r)) = CI /\ rest = <<CC, SR>>
    BY <1>11
  <2>2. Onto(SR, Todo(r)) = <<SR, CC, SR>>
    BY <1>11, Prepended2
  <2>3. rest # << >> /\ <<SR>> \o rest # << >>
    BY <2>1, <2>2 DEF Onto
  <2>4. Identity \in DOMAIN disk'.seen => OpenOK(disk', rest) /\ OpenOK(disk', <<SR>> \o rest)
    BY <2>1, <2>2 DEF OpenOK, CC, SR, Onto
  <2> QED BY <1>4, <2>1, <2>3, <2>4, IdentityNotCells DEF CI, SR
<1>12. CASE Identity \in seen /\ Todo(r) = <<SR, CC, SR>>
  <2> HIDE DEF CC, SR
  <2>1. Head(Todo(r)) = SR /\ rest = <<CC, SR>> /\ rest # << >>
    BY <1>12
  <2>2. Identity \in DOMAIN disk'.seen => OpenOK(disk', rest)
    BY <2>1 DEF OpenOK, CC, SR
  <2> QED BY <1>5, <1>12, <2>1, <2>2 DEF SR, GroundGrown
<1>13. CASE Identity \in seen /\ Todo(r) = <<CC, SR>>
  <2> HIDE DEF CC, SR
  <2>1. Head(Todo(r)) = CC /\ rest = <<SR>> /\ << >> \o rest = rest /\ rest # << >>
    BY <1>13
  <2>2. Identity \in DOMAIN disk'.seen => OpenOK(disk', rest)
    BY <2>1 DEF OpenOK, SR
  <2> QED BY <1>4, <1>13, <2>1, <2>2 DEF CC, CreateCells
<1>14. CASE Identity \in seen /\ Todo(r) = <<SR>>
  <2> HIDE DEF SR
  <2>1. Head(Todo(r)) = SR /\ rest = << >>
    BY <1>14
  <2>2. Identity \in DOMAIN disk'.seen => OpenOK(disk', rest)
    BY <2>1 DEF OpenOK
  <2>3. Len(Identity) = Len(Root) + 1 /\ Front(Identity) = Root
    <3>1. Len(Identity) = 3 /\ Len(Root) = 2
      BY TopPaths DEF Level
    <3> QED BY <3>1, TopPaths
  <2>4. IdentitySettled(Synced(disk, Root))
    BY <1>1, <1>14, <2>3, SyncedSettles DEF IdentitySettled
  <2> QED BY <1>5, <1>14, <2>1, <2>2, <2>4 DEF SR, GroundGrown
<1> QED
  BY <1>1, <1>2, <1>6, <1>7, <1>8, <1>9, <1>10, <1>11, <1>12, <1>13, <1>14 DEF OpenOK

LEMMA FileStepGround ==
  ASSUME Ground, NEW r \in Runners, FileStep(r)
  PROVE  Ground' /\ (ShutOut(disk'.seen) => ShutOut(disk.seen))
BY OpenGround, TameFileStep

(* The calls and the ends of calls leave the disk alone.                     *)
LEMMA QuietGround ==
  ASSUME Ground, NEW r \in Runners, disk' = disk, Locks(r),
         NEW s, NEW k, store' = [store EXCEPT ![r] = s], call' = [call EXCEPT ![r] = k],
         GroundOK(disk, s, k)
  PROVE  Ground' /\ (ShutOut(disk'.seen) => ShutOut(disk.seen))
<1>1. /\ store' = [q \in Runners |-> store'[q]] /\ call' = [q \in Runners |-> call'[q]]
      /\ store'[r] = s /\ call'[r] = k
      /\ \A q \in Runners : q # r => store'[q] = store[q] /\ call'[q] = call[q]
  BY DEF Ground
<1>2. GroundStep
  BY DEF GroundStep
<1> QED BY <1>1, <1>2, GroundMoves

LEMMA SameGround ==
  ASSUME Ground, UNCHANGED <<disk, lock, store, call>>
  PROVE  Ground' /\ (ShutOut(disk'.seen) => ShutOut(disk.seen))
BY DEF Ground, GroundOK, OpenOK, IdentitySettled, NoCellBegun, WellFormed, ShutOut, Exists, SameEntry

(* A method other than the constructor is entered.                           *)
LEMMA EntersGround ==
  ASSUME Ground, NEW r \in Runners, NEW method, NEW script, NEW answer, method # "open",
         TameScript(script, IdentitySettled(disk)), Enters(r, method, script, answer),
         disk' = disk, store' = store, Locks(r)
  PROVE  Ground' /\ (ShutOut(disk'.seen) => ShutOut(disk.seen))
<1> DEFINE k == [method |-> method, todo |-> script, answer |-> answer]
<1>1. GroundOK(disk, store[r], k)
  BY DEF Ground, GroundOK
<1>2. store' = [store EXCEPT ![r] = store[r]] /\ call' = [call EXCEPT ![r] = k]
  BY DEF Ground, Enters
<1> HIDE DEF k
<1> QED BY <1>1, <1>2, QuietGround

(* A runner is in no method any more. *)
LEMMA LeavesGround ==
  ASSUME Ground, NEW r \in Runners, disk' = disk, Locks(r), call' = [call EXCEPT ![r] = NoCall],
         NEW s, store' = [store EXCEPT ![r] = s], s = "open" => IdentitySettled(disk)
  PROVE  Ground' /\ (ShutOut(disk'.seen) => ShutOut(disk.seen))
<1>1. GroundOK(disk, s, NoCall)
  BY TameNothing DEF GroundOK, NoCall
<1> QED BY <1>1, QuietGround

LEMMA OpensGround ==
  ASSUME Ground, NEW r \in Runners, Open(r)
  PROVE  Ground' /\ (ShutOut(disk'.seen) => ShutOut(disk.seen))
<1> DEFINE k == [method |-> "open", todo |-> OpenScript, answer |-> NoRef]
<1>1. GroundOK(disk, "opening", k)
  <2>1. OpenScript # << >>
    BY DEF OpenScript
  <2> QED BY <2>1 DEF GroundOK, OpenOK
<1>2. Locks(r)
  BY DEF Open, Locks, Ground
<1>3. disk' = disk /\ store' = [store EXCEPT ![r] = "opening"] /\ call' = [call EXCEPT ![r] = k]
  BY DEF Open, Enters
<1> HIDE DEF k
<1> QED BY <1>1, <1>2, <1>3, QuietGround

LEMMA CallsGround ==
  ASSUME Ground, NEW r \in Runners,
         \/ \E c : Begin(r, c)
         \/ \E f, v : Stage(r, f, v)
         \/ Commit(r)
  PROVE  Ground' /\ (ShutOut(disk'.seen) => ShutOut(disk.seen))
<1>1. store[r] = "open" /\ disk' = disk /\ store' = store
  BY DEF Begin, Stage, Commit, AttemptOpen
<1>2. IdentitySettled(disk)
  BY <1>1 DEF Ground, GroundOK
<1>3. Locks(r)
  BY <1>1 DEF Begin, Stage, Commit, Locks, Ground
<1>4. ASSUME NEW c, Begin(r, c)
      PROVE  Ground' /\ (ShutOut(disk'.seen) => ShutOut(disk.seen))
  <2>1. TameScript(BeginScript(c, begun + 1), IdentitySettled(disk))
    BY <1>2, TameBegin, TameMore
  <2>2. Enters(r, "begin", BeginScript(c, begun + 1), NoRef)
    BY <1>4 DEF Begin
  <2> QED BY <1>1, <1>3, <2>1, <2>2, EntersGround
<1>5. ASSUME NEW f, NEW v, Stage(r, f, v)
      PROVE  Ground' /\ (ShutOut(disk'.seen) => ShutOut(disk.seen))
  <2> DEFINE script == StageScript(attempt[r].cell, attempt[r].id, f, v)
  <2>1. TameScript(script, IdentitySettled(disk))
    BY <1>2, TameStage, TameMore
  <2>2. Enters(r, "stage", script, NoRef)
    BY <1>5 DEF Stage
  <2> HIDE DEF script
  <2> QED BY <1>1, <1>3, <2>1, <2>2, EntersGround
<1>6. CASE Commit(r)
  <2> DEFINE m == Manifest(attempt[r].cell, attempt[r].id,
                           FilesOf(disk.seen, attempt[r].cell, attempt[r].id))
  <2>1. TameScript(CommitScript(m), IdentitySettled(disk))
    BY <1>2, TameCommit, TameMore
  <2>2. Enters(r, "commit", CommitScript(m), Ref(m))
    BY <1>6 DEF Commit
  <2> HIDE DEF m
  <2> QED BY <1>1, <1>3, <2>1, <2>2, EntersGround
<1> QED BY <1>4, <1>5, <1>6

LEMMA CloseGround ==
  ASSUME Ground, NEW r \in Runners, Close(r)
  PROVE  Ground' /\ (ShutOut(disk'.seen) => ShutOut(disk.seen))
<1>1. /\ disk' = disk /\ store' = [store EXCEPT ![r] = "closed"]
      /\ call' = [call EXCEPT ![r] = call[r]] /\ call[r].method # "open"
  BY DEF Close, Ground, Idle
<1>2. GroundOK(disk, "closed", call[r])
  BY <1>1 DEF Ground, GroundOK
<1>3. Locks(r)
  BY DEF Close, Ground, Locks
<1> QED BY <1>1, <1>2, <1>3, QuietGround

LEMMA ReturnGround ==
  ASSUME Ground, NEW r \in Runners, Return(r)
  PROVE  Ground' /\ (ShutOut(disk'.seen) => ShutOut(disk.seen))
<1> DEFINE s == IF call[r].method = "open" THEN "open" ELSE store[r]
<1>1. disk' = disk /\ call' = [call EXCEPT ![r] = NoCall] /\ store' = [store EXCEPT ![r] = s]
  BY DEF Return, Ground
<1>2. s = "open" => IdentitySettled(disk)
  BY DEF Return, Ground, GroundOK, Todo
<1>3. Locks(r)
  BY DEF Return, Ground, Locks
<1> HIDE DEF s
<1> QED BY <1>1, <1>2, <1>3, LeavesGround

LEMMA StepFailsGround ==
  ASSUME Ground, NEW r \in Runners, StepFails(r)
  PROVE  Ground' /\ (ShutOut(disk'.seen) => ShutOut(disk.seen))
<1>1. /\ disk' = disk /\ call' = [call EXCEPT ![r] = NoCall]
      /\ store' = [store EXCEPT ![r] = StoreAfterFailure(r)]
  BY DEF StepFails
<1>2. StoreAfterFailure(r) = "open" => store[r] = "open" /\ call[r].method \notin {"open", "begin"}
  BY DEF StoreAfterFailure
<1>3. StoreAfterFailure(r) = "open" => IdentitySettled(disk)
  BY <1>2 DEF Ground, GroundOK
<1>4. lock = r /\ call[r].method # "begin" => StoreAfterFailure(r) = "open"
  BY RunnersAssumption DEF Ground, GroundOK, StoreAfterFailure
<1>5. Locks(r)
  <2>1. lock' = IF call[r].method = "begin" /\ lock = r THEN Nobody ELSE lock
    BY DEF StepFails, LockAfterFailure
  <2>2. store'[r] = StoreAfterFailure(r)
    BY <1>1 DEF Ground
  <2> QED BY <1>4, <2>1, <2>2 DEF Ground, Locks
<1> QED BY <1>1, <1>3, <1>5, LeavesGround

LEMMA EndsGround ==
  ASSUME Ground, NEW r \in Runners, Ends(r)
  PROVE  Ground' /\ (ShutOut(disk'.seen) => ShutOut(disk.seen))
<1>1. Locks(r)
  BY DEF Ends, Ground, Locks
<1> QED BY <1>1, LeavesGround DEF Ends

(* A power loss takes a settled identity away only with the whole root.      *)
LEMMA Climbs ==
  ASSUME NEW tree, NEW n \in Nat \ {0}, NEW d \in Level(n), NEW x \in Names,
         Reachable(tree, Under(d, x))
  PROVE  d \in DOMAIN tree /\ Reachable(tree, d)
<1> DEFINE p == d \o <<x>>
<1>1. <<x>> \in Seq(Names) /\ Len(<<x>>) = 1 /\ d \in Seq(Names) /\ Len(d) = n
  BY DEF Level, Path
<1>2. Len(p) = n + 1
  BY <1>1, ConcatProperties
<1>3. \A i \in 1..n : Above(p, i) = Above(d, i)
  BY <1>1, SubSeqOfConcat1 DEF Above
<1>4. Above(d, n) = d
  BY <1>1, SubSeqFull DEF Above
<1>5. \A i \in 1..Len(p) - 1 : Above(p, i) \in DOMAIN tree
  BY DEF Reachable, Above, Under
<1> HIDE DEF p
<1>6. \A i \in 1..n : Above(d, i) \in DOMAIN tree
  BY <1>2, <1>3, <1>5
<1>7. d \in DOMAIN tree /\ \A i \in 1..Len(d) - 1 : Above(d, i) \in DOMAIN tree
  <2>1. n \in 1..n /\ \A i \in 1..Len(d) - 1 : i \in 1..n
    BY <1>1
  <2> QED BY <1>4, <1>6, <2>1
<1> QED BY <1>7 DEF Reachable, Above

LEMMA IdentityReachable ==
  ASSUME NEW tree,
         \/ Reachable(tree, CellsDir)
         \/ \E c \in Cells : Reachable(tree, CellDir(c))
  PROVE  Reachable(tree, Identity)
<1>1. Root \in Level(2) /\ CellsDir \in Level(3)
  BY TopPaths
<1>2. "cells" \in Names /\ "identity" \in Names /\ \A c \in Cells : c \in Names
  BY DEF Names
<1>3. Reachable(tree, CellsDir)
  <2>1. ASSUME NEW c \in Cells, Reachable(tree, CellDir(c)) PROVE Reachable(tree, CellsDir)
    <3>1. Reachable(tree, Under(CellsDir, c))
      BY <2>1, PathsUnder
    <3> QED BY <1>1, <1>2, <3>1, Climbs
  <2> QED BY <2>1
<1>4. Reachable(tree, Under(Root, "cells"))
  BY <1>3, PathsUnder
<1>5. Root \in DOMAIN tree /\ Reachable(tree, Root)
  BY <1>1, <1>2, <1>4, Climbs
<1>6. Reachable(tree, Under(Root, "identity"))
  BY <1>1, <1>2, <1>5, ReachableStep
<1> QED BY <1>6, PathsUnder

LEMMA IdentitySurvives ==
  ASSUME NEW d, WellFormed(d), NEW e \in AfterPowerLoss(d), IdentitySettled(d),
         CellsDir \in DOMAIN e.seen \/ \E c \in Cells : CellDir(c) \in DOMAIN e.seen
  PROVE  Identity \in DOMAIN e.seen
<1> DEFINE From(new, q) == IF q \in new THEN d.seen ELSE d.kept
           There(new) == {q \in DOMAIN d.seen \cup DOMAIN d.kept : q \in DOMAIN From(new, q)}
           Tree(new)  == [q \in There(new) |-> From(new, q)[q]]
<1>1. PICK new \in SUBSET Unsettled(d) : e = Durable(Pruned(Tree(new)))
  BY DEF AfterPowerLoss
<1> DEFINE t == Tree(new)
<1>2. Identity \in DOMAIN t
  BY DEF IdentitySettled, SameEntry
<1> HIDE DEF t
<1>3. DOMAIN e.seen = {q \in DOMAIN t : Reachable(t, q)}
  BY <1>1 DEF Durable, Pruned, t
<1>4. Reachable(t, Identity)
  BY <1>3, IdentityReachable
<1> QED BY <1>2, <1>3, <1>4

LEMMA PowerLossGround ==
  ASSUME Ground, PowerLoss
  PROVE  /\ Ground'
         /\ ShutOut(disk'.seen) => NoCellBegun(disk)
<1>1. PICK e \in AfterPowerLoss(disk) : disk' = e
  BY DEF PowerLoss, Becomes
<1>2. /\ WellFormed(disk') /\ disk'.kept = disk'.seen
      /\ DOMAIN disk'.seen \subseteq DOMAIN disk.seen
  BY <1>1, PowerLossDisk DEF Ground
<1>3. IdentitySettled(disk) =>
        \/ Identity \in DOMAIN disk'.seen
        \/ CellsDir \notin DOMAIN disk'.seen /\ NoCellBegun(disk')
  BY <1>1, IdentitySurvives DEF Ground, NoCellBegun
<1>4. IdentitySettled(disk') \/ NoCellBegun(disk')
  BY <1>2, <1>3 DEF Ground, NoCellBegun, IdentitySettled, SameEntry
<1>5. ShutOut(disk'.seen) => NoCellBegun(disk)
  BY <1>3 DEF Ground, ShutOut, Exists
<1>6. ASSUME NEW r \in Runners PROVE GroundOK(disk', store'[r], call'[r])
  BY TameNothing DEF PowerLoss, GroundOK, NoCall
<1> QED BY <1>2, <1>4, <1>5, <1>6 DEF Ground, PowerLoss

(* What a step of the store or of its user leaves true, and one that shuts   *)
(* nobody out.                                                               *)
NotShutOut ==
  /\ ShutOut(disk'.seen) =>
       \/ ShutOut(disk.seen)
       \/ PowerLoss /\ \A c \in Cells : ~Exists(disk.seen, CellDir(c))
  /\ lock' # Nobody => store'[lock'] = "open"

LEMMA GroundShutsNobodyOut ==
  ASSUME Ground', (ShutOut(disk'.seen) => ShutOut(disk.seen)) \/
                  (PowerLoss /\ (ShutOut(disk'.seen) => NoCellBegun(disk)))
  PROVE  NotShutOut
BY DEF NotShutOut, Ground, NoCellBegun, Exists

LEMMA StoreStepGround ==
  ASSUME Ground, [StoreNext]_storeVars
  PROVE  Ground' /\ NotShutOut
<1>1. CASE PowerLoss
  BY <1>1, PowerLossGround, GroundShutsNobodyOut
<1>2. CASE ~PowerLoss
  <2>1. Ground' /\ (ShutOut(disk'.seen) => ShutOut(disk.seen))
    <3>1. CASE UNCHANGED storeVars
      BY <3>1, SameGround DEF storeVars
    <3>2. ASSUME NEW r \in Runners, RunnerStep(r)
          PROVE  Ground' /\ (ShutOut(disk'.seen) => ShutOut(disk.seen))
      <4>1. CASE Open(r)
        BY <4>1, OpensGround
      <4>2. CASE \/ \E c \in Cells : Begin(r, c)
                 \/ \E f \in Files, v \in Payloads : Stage(r, f, v)
                 \/ Commit(r)
        BY <4>2, CallsGround
      <4>3. CASE Close(r)
        BY <4>3, CloseGround
      <4>4. CASE FileStep(r)
        BY <4>4, FileStepGround
      <4>5. CASE Return(r)
        BY <4>5, ReturnGround
      <4>6. CASE StepFails(r)
        BY <4>6, StepFailsGround
      <4>7. CASE Crash(r)
        BY <4>7, EndsGround DEF Crash
      <4> QED BY <3>2, <4>1, <4>2, <4>3, <4>4, <4>5, <4>6, <4>7 DEF RunnerStep
    <3> QED BY <1>2, <3>1, <3>2 DEF StoreNext
  <2> QED BY <2>1, GroundShutsNobodyOut
<1> QED BY <1>1, <1>2

LEMMA EmptyGround ==
  ASSUME NoStores, disk = [seen |-> disk.seen, kept |-> disk.seen], NoCellBegun(disk)
  PROVE  Ground
<1>1. \A r \in Runners : GroundOK(disk, store[r], call[r])
  BY TameNothing DEF NoStores, GroundOK, NoCall
<1> QED BY <1>1 DEF Ground, NoStores, WellFormed

LEMMA InitialGround == \A c \in Cells : CellDir(c) \notin DOMAIN InitialTree
<1>1. 0 \in Nat /\ \A c : CellDir(c) \in Dirs(c, 0)
  BY DEF Dirs
<1> QED BY <1>1, InitialPaths, TopApart

(* Wherever the power may fail, no constructor, no failure and no crash makes *)
(* a root that later constructors refuse, and a power loss makes one only     *)
(* where no cell was ever begun (_create_or_check_run_root, and the sync of   *)
(* the root that every constructor ends with); and the writer lock is held    *)
(* by an open store (begin's poisoning, close).                               *)
THEOREM StoreShutsNobodyOut == StoreSpec => NobodyShutOut
<1>1. StoreInit => Ground
  BY InitialGround, EmptyGround DEF StoreInit, Durable, NoCellBegun
<1>2. Ground /\ [StoreNext]_storeVars => Ground' /\ [NotShutOut]_storeVars
  BY StoreStepGround
<1> QED BY <1>1, <1>2, PTL DEF StoreSpec, NobodyShutOut, NotShutOut

=============================================================================
