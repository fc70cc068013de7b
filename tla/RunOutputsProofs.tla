--------------------------- MODULE RunOutputsProofs ---------------------------
(***************************************************************************)
(* The output directory of the bake-off driver, for any identities, state  *)
(* files, results, failures, kills and power losses: what an invocation    *)
(* publishes step by step, alone or beside others that never replace.      *)
(***************************************************************************)
EXTENDS RunOutputs, SequenceTheorems, TLAPS

-----------------------------------------------------------------------------
(* What the files, the state files and the steps of a publication are.      *)
Files == {Sidecar, ReportJson, ReportCsv, Summary, Review}

Runs == [id : Identities, result : Results \cup {Unmeasured}]
IdentityRecords == {IdentityRecord(id) : id \in Identities}
Documents == [kind : {"document"}, run : Runs, by : Invocations]
Reviews == [kind : {"review"}, run : Runs, notes : SUBSET Runs, own : BOOLEAN]

Fits(path) ==
  IF path = Sidecar THEN IdentityRecords
  ELSE IF path = Review THEN Reviews ELSE Documents

Contents == IdentityRecords \cup Documents \cup Reviews \cup Runs

Ops == {"absent", "link", "replace", "canonical", "merge", "sidecar", "inspect", "unlink", "sync"}

Writes(step) == step.op \in {"link", "replace"}
Settles(step) == step.op \in {"link", "replace", "canonical", "merge", "sidecar"}

StepFits(step) ==
  /\ step.op = "absent" => step.path \in Files
  /\ Writes(step) => step.path \in Files /\ step.content \in Fits(step.path)
  /\ step.op = "canonical" => step.path \in {Summary, ReportCsv} /\ step.content \in Documents
  /\ step.op = "merge" => step.path = Review /\ step.content \in Runs
  /\ step.op = "sidecar" => step.path = Sidecar

Steps ==
  {s \in [op : Ops, path : Files \cup {OutDir}]
           \cup [op : Ops, path : Files \cup {OutDir}, content : Contents] : StepFits(s)}

Pcs == {"off", "sidecar", "identity", "state", "measure", "publish", "done"}

Invs ==
  [pc : Pcs, id : Identities \cup {"none"}, state : States \cup {"none"},
   replace : Replaces \cup {FALSE}, look : {None} \cup IdentityRecords, todo : Seq(Steps)]

TreeFits(tree) == DOMAIN tree \subseteq Files /\ \A p \in DOMAIN tree : tree[p] \in Fits(p)

DiskFits(d) == d = [seen |-> d.seen, kept |-> d.kept] /\ TreeFits(d.seen) /\ TreeFits(d.kept)

Todo(i) == Range(inv[i].todo)

SeenIn(tree, path) == IF path \in DOMAIN tree THEN tree[path] ELSE None

NotesIn(tree) == IF Review \in DOMAIN tree THEN tree[Review].notes ELSE {}

(* What an invocation knows once it has started and has opened its state.   *)
Knows(i) ==
  /\ inv[i].pc # "off" => inv[i].id \in Identities /\ inv[i].state \in States
  /\ inv[i].pc \in {"measure", "publish", "done"} => ledger[inv[i].state] # None

(* Which steps an invocation may have before it. *)
MayDo(i, step) ==
  /\ inv[i].pc = "off" => step.op \in {"inspect", "unlink"} /\ ~inv[i].replace
  /\ step.op \in {"inspect", "unlink"} => inv[i].pc = "off"
  /\ step.op = "link" => inv[i].pc = "done" /\ ~inv[i].replace
  /\ step.op = "merge" => ~inv[i].replace
  /\ step.path = ReportJson /\ Writes(step) =>
       /\ inv[i].pc = "done"
       /\ step.content.by = i
       /\ step.op = "replace" => inv[i].replace

TypeInv ==
  /\ ledger \in [States -> {None} \cup Runs]
  /\ inv \in [Invocations -> Invs]
  /\ DiskFits(disk)
  /\ trouble \in 0..MaxTrouble
  /\ \A i \in Invocations : Knows(i) /\ \A s \in Todo(i) : MayDo(i, s)

-----------------------------------------------------------------------------
(* Invocations that never replace: what is about to be unlinked is one's    *)
(* own report.                                                               *)
OwnReport(i) ==
  \A s \in Todo(i) : s.op = "unlink" => Seen(ReportJson) # None /\ Seen(ReportJson).by = i

ReportInv == TypeInv /\ \A i \in Invocations : OwnReport(i)

-----------------------------------------------------------------------------
(* One invocation after another. *)
(* What the steps before an invocation will write. *)
Means(i, step) ==
  /\ inv[i].pc = "done" /\ step.path # Sidecar =>
       /\ Writes(step) \/ step.op = "canonical" => step.content.run = RunOf(i)
       /\ step.op = "merge" => step.content = RunOf(i)
  /\ Writes(step) /\ step.path = Sidecar => step.content = IdentityRecord(inv[i].id)
  /\ Writes(step) /\ step.path = Review =>
       step.content.notes =
         IF step.op = "link" \/ inv[i].replace THEN {} ELSE NotesIn(disk.seen)

(* The identity record names the run before its report is published, or the *)
(* report of this run was there before the record.                          *)
Leads(i) ==
  inv[i].pc \in {"state", "measure", "publish", "done"} =>
    \/ Seen(Sidecar) = IdentityRecord(inv[i].id)
    \/ /\ ~inv[i].replace /\ Seen(ReportJson) # None
       /\ \A s \in Todo(i) : Writes(s) => s.path # ReportJson
    \/ /\ inv[i].pc = "state"
       /\ \E s \in Todo(i) : s.op = "replace" /\ s.path = Sidecar

(* Each output is as it should be or has a step that will make it so. *)
Ready(i, path) ==
  IF path = Sidecar THEN Seen(Sidecar) = IdentityRecord(inv[i].id) ELSE Describes(path, RunOf(i))

Promised(i, path) == \E s \in Todo(i) : Settles(s) /\ s.path = path

Completes(i) == inv[i].pc = "done" => \A path \in Files : Ready(i, path) \/ Promised(i, path)

Looked(i) == inv[i].pc = "identity" => inv[i].look = Seen(Sidecar) /\ Todo(i) = {}

AloneInv ==
  /\ TypeInv
  /\ NotesIn(disk.seen) \subseteq NotesIn(disk.kept)
  /\ \A i \in Invocations :
       /\ \A s \in Todo(i) : Means(i, s)
       /\ Looked(i)
       /\ Leads(i)
       /\ Completes(i)

-----------------------------------------------------------------------------
(* Files and trees. *)

LEMMA FilesDiffer ==
  /\ Sidecar # ReportJson /\ Sidecar # ReportCsv /\ Sidecar # Summary /\ Sidecar # Review
  /\ ReportJson # ReportCsv /\ ReportJson # Summary /\ ReportJson # Review
  /\ ReportCsv # Summary /\ ReportCsv # Review /\ Summary # Review
<1>1. /\ Sidecar[1] = "run-identity" /\ ReportJson[1] = "report.json"
      /\ ReportCsv[1] = "report.csv" /\ Summary[1] = "summary.txt" /\ Review[1] = "review.csv"
  BY DEF Sidecar, ReportJson, ReportCsv, Summary, Review
<1> QED BY <1>1

LEMMA FileEntries ==
  ASSUME NEW p \in Files
  PROVE  Len(p) = 1 /\ Front(p) = OutDir
<1>1. PICK x : p = <<x>>
  BY DEF Files, Sidecar, ReportJson, ReportCsv, Summary, Review
<1>2. Len(p) = 1 /\ p \in Seq({x})
  BY <1>1
<1>3. Front(p) = << >>
  BY <1>2, SubSeqEmpty DEF Front
<1> QED BY <1>2, <1>3 DEF OutDir

LEMMA OutDirDiffers == \A p \in Files : p # OutDir
<1>1. Len(OutDir) = 0
  BY DEF OutDir
<1> QED BY <1>1, FileEntries

LEMMA FileKinds ==
  ASSUME NEW p \in Files, NEW c \in Fits(p)
  PROVE  /\ c # None
         /\ p = Sidecar => c \in IdentityRecords
         /\ p = Review => c \in Reviews
         /\ p \in {ReportJson, ReportCsv, Summary} => c \in Documents
         /\ p # Sidecar => c.run \in Runs
<1>1. /\ p = Sidecar => c \in IdentityRecords
      /\ p = Review => c \in Reviews
      /\ p \in {ReportJson, ReportCsv, Summary} => c \in Documents
  BY FilesDiffer DEF Files, Fits
<1>2. \A x \in IdentityRecords : x.kind = "identity"
  BY DEF IdentityRecords, IdentityRecord
<1>3. \A x \in Documents : x.kind = "document" /\ x.run \in Runs
  BY DEF Documents
<1>4. \A x \in Reviews : x.kind = "review" /\ x.run \in Runs
  BY DEF Reviews
<1>5. None.kind = "none"
  BY DEF None
<1>6. p \in {Sidecar, Review, ReportJson, ReportCsv, Summary}
  BY DEF Files
<1> HIDE DEF IdentityRecords, Documents, Reviews, None, Fits
<1> QED BY <1>1, <1>2, <1>3, <1>4, <1>5, <1>6

LEMMA SeenIsIn == \A p : Seen(p) = SeenIn(disk.seen, p)
BY DEF Seen, SeenIn, Exists

LEMMA SeenWhat ==
  ASSUME DiskFits(disk), NEW p \in Files
  PROVE  /\ p \in DOMAIN disk.seen <=> Seen(p) # None
         /\ Seen(p) # None => Seen(p) = disk.seen[p] /\ Seen(p) \in Fits(p)
BY FileKinds, SeenIsIn DEF DiskFits, TreeFits, SeenIn

LEMMA NotesSeen ==
  ASSUME DiskFits(disk)
  PROVE  NotesIn(disk.seen) = IF Seen(Review) = None THEN {} ELSE Seen(Review).notes
<1>1. Review \in Files
  BY DEF Files
<1> QED BY <1>1, SeenWhat DEF NotesIn

LEMMA NamedTree ==
  ASSUME NEW d, DiskFits(d), NEW p \in Files, NEW c \in Fits(p), NEW e, e = Named(d, p, c)
  PROVE  /\ DiskFits(e) /\ e.kept = d.kept
         /\ \A q : SeenIn(e.seen, q) = IF q = p THEN c ELSE SeenIn(d.seen, q)
         /\ NotesIn(e.seen) = IF p = Review THEN c.notes ELSE NotesIn(d.seen)
<1>1. e = [seen |-> Write(d.seen, p, c), kept |-> d.kept]
  BY DEF DiskFits, Named
<1>2. /\ DOMAIN e.seen = DOMAIN d.seen \cup {p} /\ e.seen[p] = c
      /\ \A q \in DOMAIN d.seen : q # p => e.seen[q] = d.seen[q]
      /\ e = [seen |-> e.seen, kept |-> e.kept] /\ e.kept = d.kept
  BY <1>1 DEF Write
<1>3. DiskFits(e)
  BY <1>2 DEF DiskFits, TreeFits
<1>4. \A q : SeenIn(e.seen, q) = IF q = p THEN c ELSE SeenIn(d.seen, q)
  BY <1>2 DEF SeenIn
<1>5. NotesIn(e.seen) = IF p = Review THEN c.notes ELSE NotesIn(d.seen)
  BY <1>2 DEF NotesIn
<1> QED BY <1>2, <1>3, <1>4, <1>5

LEMMA UnnamedTree ==
  ASSUME NEW d, DiskFits(d), NEW p \in Files, p # Review, NEW e, e = Unnamed(d, p)
  PROVE  /\ DiskFits(e) /\ e.kept = d.kept
         /\ \A q : SeenIn(e.seen, q) = IF q = p THEN None ELSE SeenIn(d.seen, q)
         /\ NotesIn(e.seen) = NotesIn(d.seen)
<1>1. e = [seen |-> Without(d.seen, p), kept |-> d.kept]
  BY DEF DiskFits, Unnamed
<1>2. /\ DOMAIN e.seen = DOMAIN d.seen \ {p}
      /\ \A q \in DOMAIN e.seen : e.seen[q] = d.seen[q]
      /\ e = [seen |-> e.seen, kept |-> e.kept] /\ e.kept = d.kept
  BY <1>1 DEF Without
<1>3. DiskFits(e)
  BY <1>2 DEF DiskFits, TreeFits
<1>4. \A q : SeenIn(e.seen, q) = IF q = p THEN None ELSE SeenIn(d.seen, q)
  BY <1>2 DEF SeenIn
<1>5. NotesIn(e.seen) = NotesIn(d.seen)
  BY <1>2 DEF NotesIn
<1> QED BY <1>2, <1>3, <1>4, <1>5

(* An fsync of the output directory keeps all that is seen in it. *)
LEMMA SyncedTree ==
  ASSUME NEW d, DiskFits(d), NEW e, e = Synced(d, OutDir)
  PROVE  DiskFits(e) /\ e.seen = d.seen /\ NotesIn(e.kept) = NotesIn(e.seen)
<1> DEFINE entry   == {q \in DOMAIN d.seen \cup DOMAIN d.kept :
                         Len(q) = Len(OutDir) + 1 /\ Front(q) = OutDir}
           present == (DOMAIN d.kept \ entry) \cup (entry \cap DOMAIN d.seen)
           kept    == [q \in present |-> IF q \in entry THEN d.seen[q] ELSE d.kept[q]]
<1>1. e = [seen |-> d.seen, kept |-> kept]
  BY DEF DiskFits, Synced
<1>2. Len(OutDir) = 0
  BY DEF OutDir
<1>3. \A q \in DOMAIN d.seen \cup DOMAIN d.kept : q \in entry
  BY <1>2, FileEntries DEF DiskFits, TreeFits
<1>4. present = DOMAIN d.seen
  BY <1>3
<1>5. kept = [q \in DOMAIN d.seen |-> d.seen[q]]
  BY <1>3, <1>4
<1> HIDE DEF entry, present, kept
<1>6. e.seen = d.seen /\ e.kept = kept /\ e = [seen |-> e.seen, kept |-> e.kept]
  BY <1>1
<1>7. DOMAIN e.kept = DOMAIN d.seen /\ \A q \in DOMAIN d.seen : e.kept[q] = d.seen[q]
  BY <1>5, <1>6
<1>8. DiskFits(e)
  BY <1>6, <1>7 DEF DiskFits, TreeFits
<1>9. NotesIn(e.kept) = NotesIn(e.seen)
  BY <1>6, <1>7 DEF NotesIn
<1> QED BY <1>6, <1>8, <1>9

(* After a power loss every file has its old or its new content. *)
LEMMA PowerLossTree ==
  ASSUME NEW d, DiskFits(d), NEW e \in AfterPowerLoss(d)
  PROVE  /\ DiskFits(e) /\ e.kept = e.seen
         /\ NotesIn(d.seen) \subseteq NotesIn(d.kept) => NotesIn(d.seen) \subseteq NotesIn(e.seen)
<1> DEFINE From(new, q) == IF q \in new THEN d.seen ELSE d.kept
           There(new) == {q \in DOMAIN d.seen \cup DOMAIN d.kept : q \in DOMAIN From(new, q)}
           Tree(new)  == [q \in There(new) |-> From(new, q)[q]]
<1>1. PICK new \in SUBSET Unsettled(d) : e = Durable(Pruned(Tree(new)))
  BY DEF AfterPowerLoss
<1> DEFINE t == Tree(new)
<1>2. /\ DOMAIN t \subseteq Files
      /\ \A q \in DOMAIN t : t[q] \in Fits(q)
  BY DEF DiskFits, TreeFits
<1>3. \/ NotesIn(t) = NotesIn(d.seen)
      \/ NotesIn(t) = NotesIn(d.kept)
  <2>1. CASE Review \in new
    <3>1. Review \in DOMAIN t <=> Review \in DOMAIN d.seen
      BY <2>1
    <3>2. Review \in DOMAIN t => t[Review] = d.seen[Review]
      BY <2>1
    <3> HIDE DEF t
    <3> QED BY <3>1, <3>2 DEF NotesIn
  <2>2. CASE Review \notin new
    <3>1. Review \in DOMAIN t <=> Review \in DOMAIN d.kept
      BY <2>2
    <3>2. Review \in DOMAIN t => t[Review] = d.kept[Review]
      BY <2>2
    <3> HIDE DEF t
    <3> QED BY <3>1, <3>2 DEF NotesIn
  <2> QED BY <2>1, <2>2
<1> HIDE DEF t
<1>4. \A q \in DOMAIN t : Reachable(t, q)
  <2>1. \A q \in DOMAIN t : Len(q) = 1
    BY <1>2, FileEntries
  <2>2. \A n \in 1..0 : FALSE
    OBVIOUS
  <2> SUFFICES ASSUME NEW q \in DOMAIN t PROVE Reachable(t, q)
    OBVIOUS
  <2>3. Len(q) - 1 = 0
    BY <2>1
  <2> QED BY <2>2, <2>3 DEF Reachable
<1>5. /\ DOMAIN Pruned(t) = DOMAIN t
      /\ \A q \in DOMAIN t : Pruned(t)[q] = t[q]
  BY <1>4 DEF Pruned
<1>6. e = [seen |-> Pruned(t), kept |-> Pruned(t)]
  BY <1>1 DEF Durable, t
<1>7. DiskFits(e) /\ e.kept = e.seen
  BY <1>2, <1>5, <1>6 DEF DiskFits, TreeFits
<1>8. NotesIn(e.seen) = NotesIn(t)
  BY <1>5, <1>6 DEF NotesIn
<1> QED BY <1>3, <1>7, <1>8


-----------------------------------------------------------------------------
(* Sequences of steps, by the set of their steps. *)

LEMMA TodoParts ==
  ASSUME NEW t \in Seq(Steps), t # << >>
  PROVE  /\ Head(t) \in Steps /\ Tail(t) \in Seq(Steps)
         /\ Range(t) = {Head(t)} \cup Range(Tail(t))
<1>1. /\ Head(t) \in Steps /\ Tail(t) \in Seq(Steps) /\ Len(Tail(t)) = Len(t) - 1
      /\ \A n \in 1..Len(Tail(t)) : Tail(t)[n] = t[n + 1]
  BY HeadTailProperties
<1>2. Len(t) \in Nat /\ Len(t) > 0 /\ DOMAIN t = 1..Len(t) /\ Head(t) = t[1]
  BY LenProperties, EmptySeq
<1>3. DOMAIN Tail(t) = 1..Len(t) - 1
  BY <1>1, LenProperties
<1>4. ASSUME NEW n \in 1..Len(t)
      PROVE  t[n] \in {Head(t)} \cup Range(Tail(t))
  <2>1. CASE n = 1
    BY <1>2, <2>1
  <2>2. CASE n # 1
    <3>1. n - 1 \in DOMAIN Tail(t) /\ Tail(t)[n - 1] = t[n]
      BY <1>1, <1>2, <1>3, <2>2
    <3> QED BY <3>1 DEF Range
  <2> QED BY <2>1, <2>2
<1>5. ASSUME NEW n \in 1..Len(t) - 1
      PROVE  Tail(t)[n] \in Range(t)
  <2>1. n + 1 \in DOMAIN t /\ Tail(t)[n] = t[n + 1]
    BY <1>1, <1>2, <1>3
  <2> QED BY <2>1 DEF Range
<1>6. Head(t) \in Range(t)
  BY <1>2 DEF Range
<1>7. Range(Tail(t)) \subseteq Range(t)
  BY <1>3, <1>5 DEF Range
<1>8. Range(t) \subseteq {Head(t)} \cup Range(Tail(t))
  BY <1>2, <1>4 DEF Range
<1> QED BY <1>1, <1>6, <1>7, <1>8

LEMMA TodoJoined ==
  ASSUME NEW a \in Seq(Steps), NEW b \in Seq(Steps), NEW c, c = a \o b
  PROVE  c \in Seq(Steps) /\ Range(c) = Range(a) \cup Range(b)
<1>1. /\ c \in Seq(Steps) /\ Len(c) = Len(a) + Len(b)
      /\ \A n \in 1..Len(a) + Len(b) : c[n] = IF n <= Len(a) THEN a[n] ELSE b[n - Len(a)]
  BY ConcatProperties
<1>2. /\ Len(a) \in Nat /\ Len(b) \in Nat
      /\ DOMAIN a = 1..Len(a) /\ DOMAIN b = 1..Len(b) /\ DOMAIN c = 1..Len(a) + Len(b)
  BY <1>1, LenProperties
<1>3. ASSUME NEW n \in 1..Len(a) + Len(b)
      PROVE  c[n] \in Range(a) \cup Range(b)
  <2>1. CASE n <= Len(a)
    <3>1. n \in DOMAIN a /\ c[n] = a[n]
      BY <1>1, <1>2, <2>1
    <3> QED BY <3>1 DEF Range
  <2>2. CASE n > Len(a)
    <3>1. n - Len(a) \in DOMAIN b /\ c[n] = b[n - Len(a)]
      BY <1>1, <1>2, <2>2
    <3> QED BY <3>1 DEF Range
  <2> QED BY <1>2, <2>1, <2>2
<1>4. ASSUME NEW n \in 1..Len(a)
      PROVE  a[n] \in Range(c)
  <2>1. n \in DOMAIN c /\ c[n] = a[n]
    BY <1>1, <1>2
  <2> QED BY <2>1 DEF Range
<1>5. ASSUME NEW n \in 1..Len(b)
      PROVE  b[n] \in Range(c)
  <2>1. n + Len(a) \in DOMAIN c /\ ~(n + Len(a) <= Len(a)) /\ (n + Len(a)) - Len(a) = n
    BY <1>2
  <2>2. n + Len(a) \in DOMAIN c /\ c[n + Len(a)] = b[n]
    BY <1>1, <1>2, <2>1
  <2> QED BY <2>2 DEF Range
<1>6. Range(c) \subseteq Range(a) \cup Range(b)
  BY <1>2, <1>3 DEF Range
<1>7. Range(a) \subseteq Range(c) /\ Range(b) \subseteq Range(c)
  BY <1>2, <1>4, <1>5 DEF Range
<1> QED BY <1>1, <1>6, <1>7

LEMMA EmptyTodo ==
  << >> \in Seq(Steps) /\ Range(<< >>) = {}
BY DEF Range

LEMMA TodoOf1 ==
  ASSUME NEW a \in Steps,
         NEW t, t = <<a>>
  PROVE  t \in Seq(Steps) /\ Range(t) = {a}
<1>1. DOMAIN t = {1} /\ t[1] = a
  OBVIOUS
<1>2. t \in Seq(Steps)
  OBVIOUS
<1>3. Range(t) = {a}
  BY <1>1 DEF Range
<1> QED BY <1>2, <1>3

LEMMA TodoOf2 ==
  ASSUME NEW a \in Steps, NEW b \in Steps,
         NEW t, t = <<a, b>>
  PROVE  t \in Seq(Steps) /\ Range(t) = {a, b}
<1>1. DOMAIN t = {1, 2} /\ t[1] = a /\ t[2] = b
  OBVIOUS
<1>2. t \in Seq(Steps)
  OBVIOUS
<1>3. Range(t) = {a, b}
  BY <1>1 DEF Range
<1> QED BY <1>2, <1>3

LEMMA TodoOf3 ==
  ASSUME NEW a \in Steps, NEW b \in Steps, NEW c \in Steps,
         NEW t, t = <<a, b, c>>
  PROVE  t \in Seq(Steps) /\ Range(t) = {a, b, c}
<1>1. DOMAIN t = {1, 2, 3} /\ t[1] = a /\ t[2] = b /\ t[3] = c
  OBVIOUS
<1>2. t \in Seq(Steps)
  OBVIOUS
<1>3. Range(t) = {a, b, c}
  BY <1>1 DEF Range
<1> QED BY <1>2, <1>3

LEMMA TodoOf4 ==
  ASSUME NEW a \in Steps, NEW b \in Steps, NEW c \in Steps, NEW d \in Steps,
         NEW t, t = <<a, b, c, d>>
  PROVE  t \in Seq(Steps) /\ Range(t) = {a, b, c, d}
<1>1. DOMAIN t = {1, 2, 3, 4} /\ t[1] = a /\ t[2] = b /\ t[3] = c /\ t[4] = d
  OBVIOUS
<1>2. t \in Seq(Steps)
  OBVIOUS
<1>3. Range(t) = {a, b, c, d}
  BY <1>1 DEF Range
<1> QED BY <1>2, <1>3

LEMMA TodoOf5 ==
  ASSUME NEW a \in Steps, NEW b \in Steps, NEW c \in Steps, NEW d \in Steps, NEW e \in Steps,
         NEW t, t = <<a, b, c, d, e>>
  PROVE  t \in Seq(Steps) /\ Range(t) = {a, b, c, d, e}
<1>1. DOMAIN t = {1, 2, 3, 4, 5} /\ t[1] = a /\ t[2] = b /\ t[3] = c /\ t[4] = d /\ t[5] = e
  OBVIOUS
<1>2. t \in Seq(Steps)
  OBVIOUS
<1>3. Range(t) = {a, b, c, d, e}
  BY <1>1 DEF Range
<1> QED BY <1>2, <1>3

-----------------------------------------------------------------------------
(* The steps that scripts are made of, and the scripts. *)

LEMMA StepFields ==
  /\ \A p, c : /\ Link(p, c).op = "link" /\ Link(p, c).path = p /\ Link(p, c).content = c
               /\ Replace(p, c).op = "replace" /\ Replace(p, c).path = p
               /\ Replace(p, c).content = c
               /\ Canonical(p, c).op = "canonical" /\ Canonical(p, c).path = p
               /\ Canonical(p, c).content = c
               /\ Absent(p).op = "absent" /\ Absent(p).path = p
  /\ \A run : Merge(run).op = "merge" /\ Merge(run).path = Review /\ Merge(run).content = run
  /\ OwnSidecar.op = "sidecar" /\ OwnSidecar.path = Sidecar
  /\ Inspect.op = "inspect" /\ Inspect.path = ReportJson
  /\ Unlink.op = "unlink" /\ Unlink.path = ReportJson
  /\ Sync.op = "sync" /\ Sync.path = OutDir
BY DEF Link, Replace, Canonical, Absent, Merge, OwnSidecar, Inspect, Unlink, Sync

LEMMA WritesMade ==
  ASSUME NEW p \in Files, NEW c \in Fits(p)
  PROVE  Link(p, c) \in Steps /\ Replace(p, c) \in Steps
<1>1. c \in Contents
  BY DEF Fits, Contents
<1>2. "link" \in Ops /\ "replace" \in Ops
  BY DEF Ops
<1> DEFINE Raw == [op : Ops, path : Files \cup {OutDir}, content : Contents]
<1>3. Link(p, c) \in Raw /\ Replace(p, c) \in Raw
  BY <1>1, <1>2 DEF Link, Replace
<1>4. StepFits(Link(p, c)) /\ StepFits(Replace(p, c))
  BY StepFields DEF StepFits, Writes
<1> QED BY <1>3, <1>4 DEF Steps

LEMMA OthersMade ==
  /\ \A p \in {Summary, ReportCsv}, c \in Documents : Canonical(p, c) \in Steps
  /\ \A run \in Runs : Merge(run) \in Steps
  /\ \A p \in Files : Absent(p) \in Steps
  /\ OwnSidecar \in Steps /\ Inspect \in Steps /\ Unlink \in Steps /\ Sync \in Steps
<1>1. /\ Sidecar \in Files /\ ReportJson \in Files /\ Review \in Files
      /\ Summary \in Files /\ ReportCsv \in Files
  BY DEF Files
<1>2. {"absent", "canonical", "merge", "sidecar", "inspect", "unlink", "sync"} \subseteq Ops
  BY DEF Ops
<1> DEFINE Short == [op : Ops, path : Files \cup {OutDir}]
           Long  == [op : Ops, path : Files \cup {OutDir}, content : Contents]
<1>3. ASSUME NEW p \in {Summary, ReportCsv}, NEW c \in Documents
      PROVE  Canonical(p, c) \in Steps
  <2>1. Canonical(p, c) \in Long
    BY <1>1, <1>2 DEF Canonical, Contents
  <2>2. StepFits(Canonical(p, c))
    BY StepFields DEF StepFits, Writes
  <2> QED BY <2>1, <2>2 DEF Steps
<1>4. ASSUME NEW run \in Runs
      PROVE  Merge(run) \in Steps
  <2>1. Merge(run) \in Long
    BY <1>1, <1>2 DEF Merge, Contents
  <2>2. StepFits(Merge(run))
    BY StepFields DEF StepFits, Writes
  <2> QED BY <2>1, <2>2 DEF Steps
<1>5. ASSUME NEW p \in Files
      PROVE  Absent(p) \in Steps
  <2>1. Absent(p) \in Short
    BY <1>2 DEF Absent
  <2>2. StepFits(Absent(p))
    BY StepFields DEF StepFits, Writes
  <2> QED BY <2>1, <2>2 DEF Steps
<1>6. OwnSidecar \in Short /\ Inspect \in Short /\ Unlink \in Short /\ Sync \in Short
  BY <1>1, <1>2 DEF OwnSidecar, Inspect, Unlink, Sync
<1>7. StepFits(OwnSidecar) /\ StepFits(Inspect) /\ StepFits(Unlink) /\ StepFits(Sync)
  BY StepFields DEF StepFits, Writes
<1> QED BY <1>3, <1>4, <1>5, <1>6, <1>7 DEF Steps

(* The run and the documents of an invocation whose state is open. *)
LEMMA Reported ==
  ASSUME TypeInv, NEW i \in Invocations, inv[i].pc \in {"measure", "publish", "done"}
  PROVE  /\ RunOf(i) \in Runs /\ RunOf(i).id = inv[i].id
         /\ Document(RunOf(i), i) \in Documents
         /\ Document(RunOf(i), i).run = RunOf(i) /\ Document(RunOf(i), i).by = i
         /\ ReviewOf(RunOf(i), {}, TRUE) \in Reviews
         /\ ReviewOf(RunOf(i), {}, TRUE).run = RunOf(i)
         /\ ReviewOf(RunOf(i), {}, TRUE).notes = {}
<1>1. inv[i].id \in Identities /\ inv[i].state \in States /\ ledger[inv[i].state] # None
  BY DEF TypeInv, Knows
<1>2. ledger[inv[i].state] \in Runs
  BY <1>1 DEF TypeInv
<1>3. RunOf(i) \in Runs /\ RunOf(i).id = inv[i].id
  BY <1>1, <1>2 DEF RunOf, Runs
<1> HIDE DEF RunOf, Runs
<1>4. /\ Document(RunOf(i), i) \in Documents
      /\ Document(RunOf(i), i).run = RunOf(i) /\ Document(RunOf(i), i).by = i
  BY <1>3 DEF Document, Documents
<1>5. /\ ReviewOf(RunOf(i), {}, TRUE) \in Reviews
      /\ ReviewOf(RunOf(i), {}, TRUE).run = RunOf(i)
      /\ ReviewOf(RunOf(i), {}, TRUE).notes = {}
  BY <1>3 DEF ReviewOf, Reviews
<1> QED BY <1>3, <1>4, <1>5

FreshSteps(i) ==
  LET doc   == Document(RunOf(i), i)
      fresh == ReviewOf(RunOf(i), {}, TRUE)
  IN  {Sync, Canonical(Summary, doc), OwnSidecar} \cup
      IF inv[i].replace
      THEN {Replace(ReportJson, doc), Replace(ReportCsv, doc), Replace(Review, fresh)}
      ELSE {Absent(ReportJson), Absent(ReportCsv),
            Link(ReportJson, doc), Link(ReportCsv, doc), Link(Review, fresh)}

LEMMA FreshScriptSteps ==
  ASSUME TypeInv, NEW i \in Invocations, inv[i].pc \in {"measure", "publish", "done"}
  PROVE  FreshScript(i) \in Seq(Steps) /\ Range(FreshScript(i)) = FreshSteps(i)
<1> DEFINE doc == Document(RunOf(i), i)
           fresh == ReviewOf(RunOf(i), {}, TRUE)
           pair == PairScript(i)
           summary == <<Canonical(Summary, doc)>>
           review == ReviewScript(i)
           own == <<OwnSidecar>>
<1>1. doc \in Documents /\ fresh \in Reviews
  BY Reported
<1>2. /\ ReportJson \in Files /\ ReportCsv \in Files /\ Review \in Files
      /\ Fits(ReportJson) = Documents /\ Fits(ReportCsv) = Documents /\ Fits(Review) = Reviews
  BY FilesDiffer DEF Files, Fits
<1> HIDE DEF doc, fresh
<1>3. /\ Link(ReportJson, doc) \in Steps /\ Replace(ReportJson, doc) \in Steps
      /\ Link(ReportCsv, doc) \in Steps /\ Replace(ReportCsv, doc) \in Steps
      /\ Link(Review, fresh) \in Steps /\ Replace(Review, fresh) \in Steps
  BY <1>1, <1>2, WritesMade
<1>4. /\ Canonical(Summary, doc) \in Steps /\ OwnSidecar \in Steps /\ Sync \in Steps
      /\ Absent(ReportJson) \in Steps /\ Absent(ReportCsv) \in Steps
  BY <1>1, <1>2, OthersMade
<1>5. /\ pair \in Seq(Steps)
      /\ Range(pair) = IF inv[i].replace
                       THEN {Replace(ReportJson, doc), Replace(ReportCsv, doc), Sync}
                       ELSE {Absent(ReportJson), Absent(ReportCsv),
                             Link(ReportJson, doc), Link(ReportCsv, doc), Sync}
  <2>1. CASE inv[i].replace
    <3>1. pair = <<Replace(ReportJson, doc), Replace(ReportCsv, doc), Sync>>
      BY <2>1 DEF PairScript, doc
    <3> HIDE DEF pair
    <3> QED BY <2>1, <3>1, <1>3, <1>4, TodoOf3
  <2>2. CASE ~inv[i].replace
    <3>1. pair = <<Absent(ReportJson), Absent(ReportCsv),
                   Link(ReportJson, doc), Link(ReportCsv, doc), Sync>>
      BY <2>2 DEF PairScript, doc
    <3> HIDE DEF pair
    <3>2. /\ pair \in Seq(Steps)
          /\ Range(pair) = {Absent(ReportJson), Absent(ReportCsv),
                            Link(ReportJson, doc), Link(ReportCsv, doc), Sync}
      <4> DEFINE a == Absent(ReportJson)
                 b == Absent(ReportCsv)
                 c == Link(ReportJson, doc)
                 d == Link(ReportCsv, doc)
      <4>1. /\ a \in Steps /\ b \in Steps /\ c \in Steps /\ d \in Steps /\ Sync \in Steps
            /\ pair = <<a, b, c, d, Sync>>
        BY <3>1, <1>3, <1>4
      <4> HIDE DEF a, b, c, d
      <4>2. pair \in Seq(Steps) /\ Range(pair) = {a, b, c, d, Sync}
        BY <4>1, TodoOf5
      <4> QED BY <4>2 DEF a, b, c, d
    <3> QED BY <2>2, <3>2
  <2> QED BY <2>1, <2>2
<1>6. /\ review \in Seq(Steps)
      /\ Range(review) = IF inv[i].replace THEN {Replace(Review, fresh), Sync}
                         ELSE {Link(Review, fresh), Sync}
  <2>1. CASE inv[i].replace
    <3>1. review = <<Replace(Review, fresh), Sync>>
      BY <2>1 DEF ReviewScript, fresh
    <3> HIDE DEF review
    <3> QED BY <2>1, <3>1, <1>3, <1>4, TodoOf2
  <2>2. CASE ~inv[i].replace
    <3>1. review = <<Link(Review, fresh), Sync>>
      BY <2>2 DEF ReviewScript, fresh
    <3> HIDE DEF review
    <3> QED BY <2>2, <3>1, <1>3, <1>4, TodoOf2
  <2> QED BY <2>1, <2>2
<1>7. /\ summary \in Seq(Steps) /\ Range(summary) = {Canonical(Summary, doc)}
      /\ own \in Seq(Steps) /\ Range(own) = {OwnSidecar}
  BY <1>4, TodoOf1
<1>8. FreshScript(i) = ((pair \o summary) \o review) \o own
  BY DEF FreshScript, doc
<1> HIDE DEF pair, summary, review, own
<1> DEFINE one == pair \o summary
           two == one \o review
           three == two \o own
<1>9. one \in Seq(Steps) /\ Range(one) = Range(pair) \cup Range(summary)
  BY <1>5, <1>7, TodoJoined
<1> HIDE DEF one
<1>10. two \in Seq(Steps) /\ Range(two) = Range(one) \cup Range(review)
  BY <1>6, <1>9, TodoJoined
<1> HIDE DEF two
<1>11. three \in Seq(Steps) /\ Range(three) = Range(two) \cup Range(own)
  BY <1>7, <1>10, TodoJoined
<1>12. FreshScript(i) = three
  BY <1>8 DEF one, two
<1> HIDE DEF three
<1>13. Range(three) = FreshSteps(i)
  <2>1. CASE inv[i].replace
    BY <2>1, <1>5, <1>6, <1>7, <1>9, <1>10, <1>11 DEF FreshSteps, doc, fresh
  <2>2. CASE ~inv[i].replace
    BY <2>2, <1>5, <1>6, <1>7, <1>9, <1>10, <1>11 DEF FreshSteps, doc, fresh
  <2> QED BY <2>1, <2>2
<1> QED BY <1>11, <1>12, <1>13

LEMMA ReuseScriptSteps ==
  ASSUME TypeInv, NEW i \in Invocations, inv[i].pc \in {"measure", "publish", "done"}
  PROVE  /\ ReuseScript(i) \in Seq(Steps)
         /\ Range(ReuseScript(i)) =
              {Canonical(Summary, Document(RunOf(i), i)),
               Canonical(ReportCsv, Document(RunOf(i), i)), Merge(RunOf(i)), OwnSidecar}
<1>1. /\ Canonical(Summary, Document(RunOf(i), i)) \in Steps
      /\ Canonical(ReportCsv, Document(RunOf(i), i)) \in Steps
      /\ Merge(RunOf(i)) \in Steps /\ OwnSidecar \in Steps
  BY Reported, OthersMade
<1> DEFINE script == ReuseScript(i)
<1>2. script = <<Canonical(Summary, Document(RunOf(i), i)),
                 Canonical(ReportCsv, Document(RunOf(i), i)), Merge(RunOf(i)), OwnSidecar>>
  BY DEF ReuseScript
<1> HIDE DEF script
<1>3. /\ script \in Seq(Steps)
      /\ Range(script) = {Canonical(Summary, Document(RunOf(i), i)),
                          Canonical(ReportCsv, Document(RunOf(i), i)), Merge(RunOf(i)),
                          OwnSidecar}
  BY <1>1, <1>2, TodoOf4
<1> QED BY <1>3 DEF script

LEMMA SidecarScriptSteps ==
  ASSUME NEW id \in Identities
  PROVE  /\ SidecarScript(id) \in Seq(Steps)
         /\ Range(SidecarScript(id)) = {Replace(Sidecar, IdentityRecord(id)), Sync}
<1>1. Sidecar \in Files /\ IdentityRecord(id) \in Fits(Sidecar)
  BY DEF Files, Fits, IdentityRecords
<1>2. Replace(Sidecar, IdentityRecord(id)) \in Steps /\ Sync \in Steps
  BY <1>1, WritesMade, OthersMade
<1> QED BY <1>2, TodoOf2 DEF SidecarScript

-----------------------------------------------------------------------------
(* How an invocation moves: it goes on, with these steps before it, or it is *)
(* over.                                                                     *)
Others(i) ==
  /\ inv' \in [Invocations -> Invs]
  /\ \A j \in Invocations : j # i => inv'[j] = inv[j]

Moves(i, pc, steps) ==
  /\ Others(i)
  /\ inv'[i].pc = pc /\ inv'[i].id = inv[i].id /\ inv'[i].state = inv[i].state
  /\ inv'[i].replace = inv[i].replace
  /\ Todo(i)' = steps

Rest(i) == Range(Tail(inv[i].todo))

(* The step before it is done, and these are to do before the rest.          *)
Continued(i, more) == inv[i].todo # << >> /\ Moves(i, inv[i].pc, more \cup Rest(i))

Ended(i) == Others(i) /\ inv'[i] = Off

LEMMA InvFields ==
  ASSUME TypeInv, NEW i \in Invocations
  PROVE  /\ inv[i] \in Invs /\ inv[i].pc \in Pcs /\ inv[i].todo \in Seq(Steps)
         /\ inv[i].todo # << >> =>
              /\ Due(i) \in Steps /\ StepFits(Due(i)) /\ Due(i) \in Todo(i)
              /\ Todo(i) = {Due(i)} \cup Rest(i)
         /\ inv[i].todo = << >> => Todo(i) = {}
<1>1. inv[i] \in Invs /\ inv[i].pc \in Pcs /\ inv[i].todo \in Seq(Steps)
  BY DEF TypeInv, Invs
<1>2. ASSUME inv[i].todo # << >>
      PROVE  Due(i) \in Steps /\ Todo(i) = {Due(i)} \cup Rest(i)
  BY <1>1, <1>2, TodoParts DEF Due, Todo, Rest
<1>3. \A s \in Steps : StepFits(s)
  BY DEF Steps
<1>4. inv[i].todo = << >> => Todo(i) = {}
  BY EmptyTodo DEF Todo
<1> QED BY <1>1, <1>2, <1>3, <1>4

LEMMA OffFits ==
  /\ Off \in Invs /\ Off.pc = "off" /\ Off.replace = FALSE /\ Range(Off.todo) = {}
<1>1. << >> \in Seq(Steps) /\ Range(<< >>) = {}
  BY EmptyTodo
<1>2. /\ Off.pc = "off" /\ Off.id = "none" /\ Off.state = "none" /\ Off.replace = FALSE
      /\ Off.look = None /\ Off.todo = << >>
  BY DEF Off
<1>3. Off \in Invs
  BY <1>1 DEF Off, Invs, Pcs
<1> QED BY <1>1, <1>2, <1>3

LEMMA ContinuesMoves ==
  ASSUME TypeInv, NEW i \in Invocations, inv[i].todo # << >>,
         NEW more \in Seq(Steps), Continues(i, more)
  PROVE  Continued(i, Range(more))
<1> DEFINE todo == more \o Tail(inv[i].todo)
<1>1. inv[i].todo \in Seq(Steps)
  BY InvFields
<1>2. Tail(inv[i].todo) \in Seq(Steps)
  BY <1>1, TodoParts
<1>3. todo \in Seq(Steps) /\ Range(todo) = Range(more) \cup Rest(i)
  BY <1>2, TodoJoined DEF Rest
<1>4. inv' = [inv EXCEPT ![i].todo = todo]
  BY DEF Continues
<1> HIDE DEF todo
<1>5. inv \in [Invocations -> Invs]
  BY DEF TypeInv
<1>6. inv' \in [Invocations -> Invs]
  <2> DEFINE new == [inv[i] EXCEPT !.todo = todo]
  <2>1. new \in Invs
    BY <1>3, <1>5 DEF Invs
  <2>2. inv' = [inv EXCEPT ![i] = new]
    BY <1>4
  <2> HIDE DEF new
  <2> QED BY <1>5, <2>1, <2>2
<1>7. /\ inv'[i].todo = todo /\ inv'[i].pc = inv[i].pc /\ inv'[i].id = inv[i].id
      /\ inv'[i].state = inv[i].state /\ inv'[i].replace = inv[i].replace
      /\ \A j \in Invocations : j # i => inv'[j] = inv[j]
  BY <1>4, <1>5 DEF Invs
<1>8. Todo(i)' = Range(more) \cup Rest(i)
  BY <1>3, <1>7 DEF Todo
<1> QED BY <1>6, <1>7, <1>8 DEF Continued, Moves, Others

LEMMA GoesWithMoves ==
  ASSUME TypeInv, NEW i \in Invocations, NEW pc \in Pcs,
         NEW script \in Seq(Steps), GoesWith(i, pc, script)
  PROVE  Moves(i, pc, Range(script))
<1>1. inv \in [Invocations -> Invs]
  BY DEF TypeInv
<1> DEFINE new == [inv[i] EXCEPT !.pc = pc, !.todo = script]
<1>2. inv' = [inv EXCEPT ![i] = new]
  BY <1>1 DEF GoesWith, Invs
<1>3. new \in Invs
  BY <1>1 DEF Invs
<1>4. /\ new.todo = script /\ new.pc = pc /\ new.id = inv[i].id
      /\ new.state = inv[i].state /\ new.replace = inv[i].replace
  BY <1>1 DEF Invs
<1> HIDE DEF new
<1>5. inv' \in [Invocations -> Invs]
  BY <1>1, <1>2, <1>3
<1>6. /\ inv'[i].todo = script /\ inv'[i].pc = pc /\ inv'[i].id = inv[i].id
      /\ inv'[i].state = inv[i].state /\ inv'[i].replace = inv[i].replace
      /\ \A j \in Invocations : j # i => inv'[j] = inv[j]
  BY <1>1, <1>2, <1>4
<1>7. Todo(i)' = Range(script)
  BY <1>6 DEF Todo
<1> QED BY <1>5, <1>6, <1>7 DEF Moves, Others

LEMMA GoesMoves ==
  ASSUME TypeInv, NEW i \in Invocations, inv[i].todo = << >>, NEW pc \in Pcs, Goes(i, pc)
  PROVE  Moves(i, pc, {})
<1>1. inv \in [Invocations -> Invs]
  BY DEF TypeInv
<1>2. inv' = [inv EXCEPT ![i].pc = pc]
  BY DEF Goes
<1>3. inv' \in [Invocations -> Invs]
  BY <1>1, <1>2 DEF Invs
<1>4. /\ inv'[i].todo = << >> /\ inv'[i].pc = pc /\ inv'[i].id = inv[i].id
      /\ inv'[i].state = inv[i].state /\ inv'[i].replace = inv[i].replace
      /\ \A j \in Invocations : j # i => inv'[j] = inv[j]
  BY <1>1, <1>2 DEF Invs
<1>5. Todo(i)' = {}
  BY <1>4, EmptyTodo DEF Todo
<1> QED BY <1>3, <1>4, <1>5 DEF Moves, Others

LEMMA RaisesEnds ==
  ASSUME TypeInv, NEW i \in Invocations, Raises(i)
  PROVE  Ended(i)
<1>1. inv \in [Invocations -> Invs]
  BY DEF TypeInv
<1>2. inv' = [inv EXCEPT ![i] = Off]
  BY DEF Raises
<1>3. inv' \in [Invocations -> Invs]
  BY <1>1, <1>2, OffFits
<1>4. inv'[i] = Off /\ \A j \in Invocations : j # i => inv'[j] = inv[j]
  BY <1>1, <1>2
<1> QED BY <1>3, <1>4 DEF Ended, Others

(* An invocation abandons its script by ending, or by looking at its report  *)
(* once more when it did not get to the CSV file.                            *)
LEMMA AbandonsMoves ==
  ASSUME TypeInv, NEW i \in Invocations, inv[i].todo # << >>, Abandons(i)
  PROVE  \/ Ended(i)
         \/ Moves(i, "off", {Inspect}) /\ ~inv[i].replace /\ inv[i].pc = "done"
<1>1. CASE HalfPublished(i)
  <2>1. Due(i).op = "link" /\ MayDo(i, Due(i))
    BY <1>1, InvFields DEF HalfPublished, Doing, Due, TypeInv
  <2>2. inv[i].pc = "done" /\ ~inv[i].replace
    BY <2>1 DEF MayDo
  <2>3. <<Inspect>> \in Seq(Steps) /\ Range(<<Inspect>>) = {Inspect}
    BY OthersMade, TodoOf1
  <2>4. GoesWith(i, "off", <<Inspect>>) /\ "off" \in Pcs
    BY <1>1 DEF Abandons, Pcs
  <2>5. Moves(i, "off", Range(<<Inspect>>))
    BY <2>3, <2>4, GoesWithMoves
  <2> QED BY <2>2, <2>3, <2>5
<1>2. CASE ~HalfPublished(i)
  BY <1>2, RaisesEnds DEF Abandons
<1> QED BY <1>1, <1>2

-----------------------------------------------------------------------------
(* Types: one step of one invocation. *)

LEMMA TypeMoves ==
  ASSUME TypeInv, NEW i \in Invocations, Others(i),
         ledger' \in [States -> {None} \cup Runs],
         \A s \in States : ledger[s] # None => ledger'[s] # None,
         DiskFits(disk'), trouble' \in 0..MaxTrouble,
         Knows(i)', \A s \in Todo(i)' : MayDo(i, s)'
  PROVE  TypeInv'
<1>1. ASSUME NEW j \in Invocations, j # i
      PROVE  Knows(j)' /\ \A s \in Todo(j)' : MayDo(j, s)'
  <2>1. inv'[j] = inv[j] /\ Knows(j) /\ \A s \in Todo(j) : MayDo(j, s)
    BY <1>1 DEF TypeInv, Others
  <2>2. Todo(j)' = Todo(j)
    BY <2>1 DEF Todo
  <2>3. \A s : MayDo(j, s)' <=> MayDo(j, s)
    BY <2>1 DEF MayDo
  <2>4. Knows(j)'
    BY <2>1, InvFields DEF Knows
  <2> QED BY <2>1, <2>2, <2>3, <2>4
<1>2. inv' \in [Invocations -> Invs]
  BY DEF Others
<1> QED BY <1>1, <1>2 DEF TypeInv

LEMMA TypeEnds ==
  ASSUME TypeInv, NEW i \in Invocations, Ended(i), ledger' = ledger, DiskFits(disk'),
         trouble' \in 0..MaxTrouble
  PROVE  TypeInv'
<1>1. Knows(i)'
  BY OffFits DEF Knows, Ended
<1>2. Todo(i)' = {}
  BY OffFits DEF Todo, Ended
<1>3. ledger' \in [States -> {None} \cup Runs] /\ \A s \in States : ledger[s] # None => ledger'[s] # None
  BY DEF TypeInv
<1> QED BY <1>1, <1>2, <1>3, TypeMoves DEF Ended

(* The invocation goes on where it is, with these steps before the rest. *)
LEMMA TypeContinues ==
  ASSUME TypeInv, NEW i \in Invocations, ledger' = ledger, DiskFits(disk'),
         trouble' \in 0..MaxTrouble, NEW more, Continued(i, more), \A s \in more : MayDo(i, s)
  PROVE  TypeInv'
<1>1. inv'[i].pc = inv[i].pc /\ inv'[i].id = inv[i].id /\ inv'[i].state = inv[i].state
      /\ inv'[i].replace = inv[i].replace /\ Todo(i)' = more \cup Rest(i) /\ Others(i)
      /\ inv[i].todo # << >>
  BY DEF Moves, Continued
<1>2. Knows(i)'
  <2>1. Knows(i)
    BY DEF TypeInv
  <2> QED BY <2>1, <1>1 DEF Knows
<1>3. \A s : MayDo(i, s)' <=> MayDo(i, s)
  BY <1>1 DEF MayDo
<1>4. \A s \in Rest(i) : MayDo(i, s)
  BY <1>1, InvFields DEF TypeInv
<1>5. \A s \in Todo(i)' : MayDo(i, s)'
  BY <1>1, <1>3, <1>4
<1>6. ledger' \in [States -> {None} \cup Runs] /\ \A s \in States : ledger[s] # None => ledger'[s] # None
  BY DEF TypeInv
<1> QED BY <1>1, <1>2, <1>5, <1>6, TypeMoves

LEMMA TypeDrops ==
  ASSUME TypeInv, NEW i \in Invocations, ledger' = ledger, DiskFits(disk'),
         trouble' \in 0..MaxTrouble, Continued(i, {})
  PROVE  TypeInv'
BY TypeContinues

LEMMA TypeReplaces ==
  ASSUME TypeInv, NEW i \in Invocations, ledger' = ledger, DiskFits(disk'),
         trouble' \in 0..MaxTrouble, NEW s, NEW t, Continued(i, {s, t}), MayDo(i, s), MayDo(i, t)
  PROVE  TypeInv'
<1> DEFINE more == {s, t}
<1>1. \A x \in more : MayDo(i, x)
  OBVIOUS
<1>2. Continued(i, more)
  OBVIOUS
<1> HIDE DEF more
<1> QED BY <1>1, <1>2, TypeContinues

LEMMA TypeAbandons ==
  ASSUME TypeInv, NEW i \in Invocations, inv[i].todo # << >>, Abandons(i),
         ledger' = ledger, disk' = disk, trouble' \in 0..MaxTrouble
  PROVE  TypeInv'
<1>0. DiskFits(disk')
  BY DEF TypeInv
<1>1. CASE Ended(i)
  BY <1>0, <1>1, TypeEnds
<1>2. CASE Moves(i, "off", {Inspect}) /\ ~inv[i].replace
  <2>1. Others(i) /\ inv'[i].pc = "off" /\ ~inv'[i].replace /\ Todo(i)' = {Inspect}
    BY <1>2 DEF Moves
  <2>2. Knows(i)'
    BY <2>1 DEF Knows
  <2>3. MayDo(i, Inspect)'
    BY <2>1, StepFields DEF MayDo, Writes
  <2>4. ledger' \in [States -> {None} \cup Runs]
        /\ \A s \in States : ledger[s] # None => ledger'[s] # None
    BY DEF TypeInv
  <2>5. \A s \in Todo(i)' : MayDo(i, s)'
    BY <2>1, <2>3
  <2> QED BY <1>0, <2>1, <2>2, <2>4, <2>5, TypeMoves
<1> QED BY <1>1, <1>2, AbandonsMoves

-----------------------------------------------------------------------------
(* What each step of a script does. *)
Wrote(p, c) ==
  /\ DiskFits(disk') /\ disk'.kept = disk.kept
  /\ \A q : Seen(q)' = IF q = p THEN c ELSE Seen(q)
  /\ NotesIn(disk'.seen) = IF p = Review THEN c.notes ELSE NotesIn(disk.seen)

LEMMA NamedWrites ==
  ASSUME TypeInv, NEW p \in Files, NEW c \in Fits(p), disk' = Named(disk, p, c)
  PROVE  Wrote(p, c)
<1>1. DiskFits(disk)
  BY DEF TypeInv
<1>2. \A q : Seen(q) = SeenIn(disk.seen, q) /\ Seen(q)' = SeenIn(disk'.seen, q)
  BY DEF Seen, SeenIn, Exists
<1>3. /\ DiskFits(disk') /\ disk'.kept = disk.kept
      /\ \A q : SeenIn(disk'.seen, q) = IF q = p THEN c ELSE SeenIn(disk.seen, q)
      /\ NotesIn(disk'.seen) = IF p = Review THEN c.notes ELSE NotesIn(disk.seen)
  BY <1>1, NamedTree
<1> QED BY <1>2, <1>3 DEF Wrote

LEMMA Dropped ==
  ASSUME TypeInv, NEW i \in Invocations, inv[i].todo # << >>, Continues(i, << >>)
  PROVE  Continued(i, {})
BY ContinuesMoves, EmptyTodo

LEMMA Replaced ==
  ASSUME TypeInv, NEW i \in Invocations, inv[i].todo # << >>,
         NEW s \in Steps, Continues(i, <<s, Sync>>)
  PROVE  Continued(i, {s, Sync})
<1>1. Sync \in Steps
  BY OthersMade
<1> DEFINE more == <<s, Sync>>
<1>2. more \in Seq(Steps) /\ Range(more) = {s, Sync}
  BY <1>1, TodoOf2
<1> HIDE DEF more
<1>3. Continues(i, more)
  BY DEF more
<1>4. Continued(i, Range(more))
  BY <1>2, <1>3, ContinuesMoves
<1> QED BY <1>2, <1>4

LEMMA CheckAbsentDoes ==
  ASSUME TypeInv, NEW i \in Invocations, CheckAbsent(i)
  PROVE  /\ inv[i].todo # << >> /\ Due(i).op = "absent"
         /\ Ended(i) \/ Continued(i, {})
<1>1. inv[i].todo # << >> /\ Due(i).op = "absent"
  BY DEF CheckAbsent, Doing, Due
<1> QED BY <1>1, Dropped, RaisesEnds DEF CheckAbsent

LEMMA InstallDoes ==
  ASSUME TypeInv, NEW i \in Invocations, Install(i)
  PROVE  /\ inv[i].todo # << >> /\ Due(i).op = "replace" /\ Writes(Due(i))
         /\ Due(i).path \in Files /\ Due(i).content \in Fits(Due(i).path)
         /\ Wrote(Due(i).path, Due(i).content)
         /\ Continued(i, {})
<1>1. inv[i].todo # << >> /\ Due(i).op = "replace" /\ Continues(i, << >>)
      /\ disk' = Named(disk, Due(i).path, Due(i).content)
  BY DEF Install, Doing, Due
<1>2. Writes(Due(i)) /\ Due(i).path \in Files /\ Due(i).content \in Fits(Due(i).path)
  BY <1>1, InvFields DEF StepFits, Writes
<1>3. Wrote(Due(i).path, Due(i).content)
  BY <1>1, <1>2, NamedWrites
<1>4. Continued(i, {})
  BY <1>1, Dropped
<1> QED BY <1>1, <1>2, <1>3, <1>4

LEMMA InstallNewDoes ==
  ASSUME TypeInv, NEW i \in Invocations, InstallNew(i)
  PROVE  /\ inv[i].todo # << >> /\ Due(i).op = "link" /\ Writes(Due(i))
         /\ Due(i).path \in Files /\ Due(i).content \in Fits(Due(i).path)
         /\ \/ /\ Seen(Due(i).path) = None /\ Wrote(Due(i).path, Due(i).content)
               /\ Continued(i, {})
            \/ disk' = disk /\ Abandons(i)
<1>1. /\ inv[i].todo # << >> /\ Due(i).op = "link"
      /\ \/ /\ Seen(Due(i).path) = None /\ Continues(i, << >>)
            /\ disk' = Named(disk, Due(i).path, Due(i).content)
         \/ disk' = disk /\ Abandons(i)
  BY DEF InstallNew, Doing, Due
<1>2. Writes(Due(i)) /\ Due(i).path \in Files /\ Due(i).content \in Fits(Due(i).path)
  BY <1>1, InvFields DEF StepFits, Writes
<1>3. disk' = Named(disk, Due(i).path, Due(i).content) => Wrote(Due(i).path, Due(i).content)
  BY <1>2, NamedWrites
<1>4. Continues(i, << >>) => Continued(i, {})
  BY <1>1, Dropped
<1> QED BY <1>1, <1>2, <1>3, <1>4

LEMMA SyncDirDoes ==
  ASSUME TypeInv, NEW i \in Invocations, SyncDir(i)
  PROVE  /\ inv[i].todo # << >> /\ Due(i).op = "sync"
         /\ DiskFits(disk') /\ disk'.seen = disk.seen
         /\ NotesIn(disk'.kept) = NotesIn(disk'.seen)
         /\ Continued(i, {})
<1>1. inv[i].todo # << >> /\ Due(i).op = "sync" /\ Continues(i, << >>)
      /\ disk' = Synced(disk, OutDir) /\ DiskFits(disk)
  BY DEF SyncDir, Doing, Due, TypeInv
<1>2. DiskFits(disk') /\ disk'.seen = disk.seen /\ NotesIn(disk'.kept) = NotesIn(disk'.seen)
  BY <1>1, SyncedTree
<1>3. Continued(i, {})
  BY <1>1, Dropped
<1> QED BY <1>1, <1>2, <1>3

LEMMA RepairDoes ==
  ASSUME TypeInv, NEW i \in Invocations, Repair(i)
  PROVE  /\ inv[i].todo # << >> /\ Due(i).op = "canonical"
         /\ Due(i).path \in {Summary, ReportCsv} /\ Due(i).content \in Documents
         /\ \/ /\ Seen(Due(i).path) # None /\ Seen(Due(i).path).run = Due(i).content.run
               /\ Continued(i, {})
            \/ Continued(i, {Replace(Due(i).path, Due(i).content), Sync})
<1>1. /\ inv[i].todo # << >> /\ Due(i).op = "canonical"
      /\ Continues(i, IF SameBytes(Seen(Due(i).path), Due(i).content) THEN << >>
                      ELSE <<Replace(Due(i).path, Due(i).content), Sync>>)
  BY DEF Repair, Doing, Due
<1>2. Due(i).path \in {Summary, ReportCsv} /\ Due(i).content \in Documents
  BY <1>1, InvFields DEF StepFits
<1>3. Due(i).path \in Files /\ Fits(Due(i).path) = Documents
  BY <1>2, FilesDiffer DEF Files, Fits
<1>4. CASE SameBytes(Seen(Due(i).path), Due(i).content)
  <2>1. Seen(Due(i).path) = None \/ Seen(Due(i).path) \in Documents
    BY <1>3, SeenWhat DEF TypeInv
  <2>2. Seen(Due(i).path) # None
    <3>1. ~("run" \in DOMAIN None) /\ None.kind = "none" /\ Due(i).content.kind = "document"
      BY <1>2 DEF None, Documents
    <3> QED BY <3>1, <1>4 DEF SameBytes
  <2>3. Seen(Due(i).path).run = Due(i).content.run
    BY <1>4 DEF SameBytes
  <2> QED BY <1>1, <1>2, <1>4, <2>2, <2>3, Dropped
<1>5. CASE ~SameBytes(Seen(Due(i).path), Due(i).content)
  <2>1. Replace(Due(i).path, Due(i).content) \in Steps
    BY <1>2, <1>3, WritesMade
  <2> QED BY <1>1, <1>2, <1>5, <2>1, Replaced
<1> QED BY <1>4, <1>5

LEMMA MergeReviewDoes ==
  ASSUME TypeInv, NEW i \in Invocations, MergeReview(i)
  PROVE  /\ inv[i].todo # << >> /\ Due(i).op = "merge" /\ Due(i).path = Review
         /\ \E merged \in Reviews :
              /\ merged.run = Due(i).content /\ merged.notes = NotesIn(disk.seen)
              /\ \/ Seen(Review) = merged /\ Continued(i, {})
                 \/ Continued(i, {Replace(Review, merged), Sync})
<1> DEFINE notes == IF Seen(Review) = None THEN {} ELSE Seen(Review).notes
           merged == ReviewOf(Due(i).content, notes, TRUE)
<1>1. /\ inv[i].todo # << >> /\ Due(i).op = "merge"
      /\ Continues(i, IF Seen(Review) = merged THEN << >> ELSE <<Replace(Review, merged), Sync>>)
  BY DEF MergeReview, Doing, Due
<1>2. Due(i).path = Review /\ Due(i).content \in Runs
  BY <1>1, InvFields DEF StepFits
<1>3. Review \in Files /\ Fits(Review) = Reviews
  BY FilesDiffer DEF Files, Fits
<1>4. notes \in SUBSET Runs /\ notes = NotesIn(disk.seen)
  <2>1. Seen(Review) # None => Seen(Review) \in Reviews
    BY <1>3, SeenWhat DEF TypeInv
  <2>2. notes = NotesIn(disk.seen)
    BY NotesSeen DEF TypeInv
  <2> QED BY <2>1, <2>2 DEF Reviews
<1> HIDE DEF notes
<1>5. merged \in Reviews /\ merged.run = Due(i).content /\ merged.notes = notes
  BY <1>2, <1>4 DEF ReviewOf, Reviews
<1> HIDE DEF merged
<1>6. Replace(Review, merged) \in Steps
  BY <1>3, <1>5, WritesMade
<1>7. CASE Seen(Review) = merged
  BY <1>1, <1>2, <1>4, <1>5, <1>7, Dropped
<1>8. CASE Seen(Review) # merged
  <2>1. Continues(i, <<Replace(Review, merged), Sync>>)
    BY <1>1, <1>8
  <2>2. Continued(i, {Replace(Review, merged), Sync})
    BY <1>1, <1>6, <2>1, Replaced
  <2> QED BY <1>1, <1>2, <1>4, <1>5, <2>2
<1> QED BY <1>7, <1>8

LEMMA OwnIdentityDoes ==
  ASSUME TypeInv, NEW i \in Invocations, OwnIdentity(i)
  PROVE  /\ inv[i].todo # << >> /\ Due(i).op = "sidecar" /\ Due(i).path = Sidecar
         /\ inv[i].pc # "off" /\ inv[i].id \in Identities
         /\ \/ /\ Seen(Sidecar) = IdentityRecord(inv[i].id)
               /\ Continued(i, {})
            \/ Continued(i, {Replace(Sidecar, IdentityRecord(inv[i].id)), Sync})
<1>1. /\ inv[i].todo # << >> /\ Due(i).op = "sidecar"
      /\ Continues(i, IF Seen(Sidecar) = IdentityRecord(inv[i].id) THEN << >>
                      ELSE SidecarScript(inv[i].id))
  BY DEF OwnIdentity, Doing, Due
<1>2. Due(i).path = Sidecar /\ MayDo(i, Due(i)) /\ Knows(i)
  BY <1>1, InvFields DEF StepFits, TypeInv
<1>3. inv[i].pc # "off" /\ inv[i].id \in Identities
  BY <1>1, <1>2 DEF MayDo, Knows
<1>4. CASE Seen(Sidecar) = IdentityRecord(inv[i].id)
  BY <1>1, <1>2, <1>3, <1>4, Dropped
<1>5. CASE Seen(Sidecar) # IdentityRecord(inv[i].id)
  <2> DEFINE script == SidecarScript(inv[i].id)
  <2>1. script \in Seq(Steps)
        /\ Range(script) = {Replace(Sidecar, IdentityRecord(inv[i].id)), Sync}
    BY <1>3, SidecarScriptSteps
  <2>2. Continues(i, script)
    BY <1>1, <1>5
  <2> HIDE DEF script
  <2>3. Continued(i, Range(script))
    BY <1>1, <2>1, <2>2, ContinuesMoves
  <2> QED BY <1>1, <1>2, <1>3, <2>1, <2>3
<1> QED BY <1>4, <1>5

LEMMA InspectOwnDoes ==
  ASSUME TypeInv, NEW i \in Invocations, InspectOwn(i)
  PROVE  /\ inv[i].todo # << >> /\ Due(i).op = "inspect"
         /\ \/ Ended(i)
            \/ /\ Seen(ReportJson) # None /\ Seen(ReportJson).by = i
               /\ Continued(i, {Unlink})
<1>1. inv[i].todo # << >> /\ Due(i).op = "inspect"
  BY DEF InspectOwn, Doing, Due
<1>2. <<Unlink>> \in Seq(Steps) /\ Range(<<Unlink>>) = {Unlink}
  BY OthersMade, TodoOf1
<1>3. CASE Seen(ReportJson) # None /\ Seen(ReportJson).by = i
  <2>1. Continues(i, <<Unlink>>)
    BY <1>3 DEF InspectOwn
  <2>2. Continued(i, Range(<<Unlink>>))
    BY <1>1, <1>2, <2>1, ContinuesMoves
  <2> QED BY <1>1, <1>2, <1>3, <2>2
<1>4. CASE ~(Seen(ReportJson) # None /\ Seen(ReportJson).by = i)
  BY <1>1, <1>4, RaisesEnds DEF InspectOwn
<1> QED BY <1>3, <1>4

LEMMA TakeBackDoes ==
  ASSUME TypeInv, NEW i \in Invocations, TakeBack(i)
  PROVE  /\ inv[i].todo # << >> /\ Due(i).op = "unlink"
         /\ Ended(i) /\ DiskFits(disk') /\ disk'.kept = disk.kept
         /\ \A q : Seen(q)' = IF q = ReportJson THEN None ELSE Seen(q)
         /\ NotesIn(disk'.seen) = NotesIn(disk.seen)
<1>1. /\ inv[i].todo # << >> /\ Due(i).op = "unlink" /\ Raises(i)
      /\ disk' = Unnamed(disk, ReportJson) /\ DiskFits(disk)
  BY DEF TakeBack, Doing, Due, TypeInv
<1>2. ReportJson \in Files /\ ReportJson # Review
  BY FilesDiffer DEF Files
<1>3. /\ DiskFits(disk') /\ disk'.kept = disk.kept
      /\ \A q : SeenIn(disk'.seen, q) = IF q = ReportJson THEN None ELSE SeenIn(disk.seen, q)
      /\ NotesIn(disk'.seen) = NotesIn(disk.seen)
  BY <1>1, <1>2, UnnamedTree
<1>4. \A q : Seen(q) = SeenIn(disk.seen, q) /\ Seen(q)' = SeenIn(disk'.seen, q)
  BY DEF Seen, SeenIn, Exists
<1> QED BY <1>1, <1>3, <1>4, RaisesEnds

-----------------------------------------------------------------------------
(* What the other operations of an invocation do. *)
Begins(i) == \* and has read nothing
  \E id \in Identities, s \in States, replace \in Replaces :
    inv'[i] = [Off EXCEPT !.pc = "sidecar", !.id = id, !.state = s, !.replace = replace]

LEMMA AtIdle ==
  ASSUME TypeInv, NEW i \in Invocations, NEW pc, At(i, pc)
  PROVE  inv[i].pc = pc /\ inv[i].todo = << >> /\ Todo(i) = {}
BY InvFields DEF At

LEMMA StartDoes ==
  ASSUME TypeInv, NEW i \in Invocations, Start(i)
  PROVE  /\ Others(i) /\ Todo(i)' = {}
         /\ inv'[i].pc = "sidecar" /\ inv'[i].id \in Identities /\ inv'[i].state \in States
<1>1. PICK id \in Identities, s \in States, replace \in Replaces :
        inv' = [inv EXCEPT ![i] =
                  [Off EXCEPT !.pc = "sidecar", !.id = id, !.state = s, !.replace = replace]]
  BY DEF Start
<1> DEFINE new == [Off EXCEPT !.pc = "sidecar", !.id = id, !.state = s, !.replace = replace]
<1>2. /\ new \in Invs /\ new.pc = "sidecar" /\ new.id = id /\ new.state = s
      /\ new.todo = << >>
  BY OffFits DEF Off, Invs, Pcs
<1> HIDE DEF new
<1>3. inv \in [Invocations -> Invs] /\ inv' = [inv EXCEPT ![i] = new]
  BY <1>1 DEF TypeInv, new
<1>4. inv' \in [Invocations -> Invs] /\ inv'[i] = new
      /\ \A j \in Invocations : j # i => inv'[j] = inv[j]
  BY <1>2, <1>3
<1>5. Todo(i)' = {}
  BY <1>2, <1>4, EmptyTodo DEF Todo
<1> QED BY <1>2, <1>4, <1>5 DEF Others

LEMMA ReadSidecarDoes ==
  ASSUME TypeInv, NEW i \in Invocations, ReadSidecar(i)
  PROVE  /\ inv[i].pc = "sidecar" /\ Moves(i, "identity", {})
         /\ inv'[i].look = Seen(Sidecar)
<1>1. inv[i].pc = "sidecar" /\ inv[i].todo = << >> /\ inv \in [Invocations -> Invs]
  BY DEF ReadSidecar, At, TypeInv
<1>2. Seen(Sidecar) \in {None} \cup IdentityRecords
  <2>1. Sidecar \in Files /\ Fits(Sidecar) = IdentityRecords
    BY DEF Files, Fits
  <2> QED BY <2>1, SeenWhat DEF TypeInv
<1> DEFINE new == [inv[i] EXCEPT !.pc = "identity", !.look = Seen(Sidecar)]
<1>3. inv' = [inv EXCEPT ![i] = new]
  BY <1>1 DEF ReadSidecar, Invs
<1>4. "identity" \in Pcs
  BY DEF Pcs
<1>5. /\ new \in Invs /\ new.pc = "identity" /\ new.look = Seen(Sidecar) /\ new.todo = << >>
      /\ new.id = inv[i].id /\ new.state = inv[i].state /\ new.replace = inv[i].replace
  BY <1>1, <1>2, <1>4 DEF Invs
<1> HIDE DEF new
<1>6. inv' \in [Invocations -> Invs] /\ inv'[i] = new
      /\ \A j \in Invocations : j # i => inv'[j] = inv[j]
  BY <1>1, <1>3, <1>5
<1>7. Todo(i)' = {}
  BY <1>5, <1>6, EmptyTodo DEF Todo
<1> QED BY <1>1, <1>5, <1>6, <1>7 DEF Moves, Others

LEMMA EstablishDoes ==
  ASSUME TypeInv, NEW i \in Invocations, Establish(i)
  PROVE  /\ inv[i].pc = "identity" /\ inv[i].id \in Identities
         /\ \/ Ended(i)
            \/ Moves(i, "state", {Replace(Sidecar, IdentityRecord(inv[i].id)), Sync})
            \/ Moves(i, "state", {}) /\ inv[i].look = IdentityRecord(inv[i].id)
            \/ Moves(i, "state", {}) /\ ~inv[i].replace /\ Seen(ReportJson) # None
<1>1. inv[i].pc = "identity" /\ inv[i].todo = << >> /\ Knows(i) /\ "state" \in Pcs
  BY DEF Establish, At, TypeInv, Pcs
<1>2. inv[i].id \in Identities
  BY <1>1 DEF Knows
<1>3. \/ GoesWith(i, "state", SidecarScript(inv[i].id))
      \/ Goes(i, "state") /\ inv[i].look = IdentityRecord(inv[i].id)
      \/ Goes(i, "state") /\ ~inv[i].replace /\ Seen(ReportJson) # None
      \/ Raises(i)
  BY DEF Establish
<1>4. CASE GoesWith(i, "state", SidecarScript(inv[i].id))
  <2> DEFINE script == SidecarScript(inv[i].id)
  <2>1. script \in Seq(Steps)
        /\ Range(script) = {Replace(Sidecar, IdentityRecord(inv[i].id)), Sync}
    BY <1>2, SidecarScriptSteps
  <2>2. GoesWith(i, "state", script)
    BY <1>4
  <2> HIDE DEF script
  <2>3. Moves(i, "state", Range(script))
    BY <1>1, <2>1, <2>2, GoesWithMoves
  <2> QED BY <1>1, <1>2, <2>1, <2>3
<1>5. Goes(i, "state") => Moves(i, "state", {})
  BY <1>1, GoesMoves
<1> QED BY <1>1, <1>2, <1>3, <1>4, <1>5, RaisesEnds

LEMMA OpenStateDoes ==
  ASSUME TypeInv, NEW i \in Invocations, OpenState(i)
  PROVE  /\ inv[i].pc = "state" /\ Todo(i) = {}
         /\ ledger' \in [States -> {None} \cup Runs]
         /\ \A s \in States : ledger[s] # None => ledger'[s] # None
         /\ \/ Ended(i) /\ ledger' = ledger
            \/ Moves(i, "measure", {}) /\ ledger'[inv[i].state] # None
<1>1. inv[i].pc = "state" /\ inv[i].todo = << >> /\ Todo(i) = {} /\ Knows(i) /\ "measure" \in Pcs
  BY AtIdle DEF OpenState, TypeInv, Pcs
<1>2. inv[i].id \in Identities /\ inv[i].state \in States
  BY <1>1 DEF Knows
<1> DEFINE s == inv[i].state
           new == [id |-> inv[i].id, result |-> Unmeasured]
<1>3. ledger \in [States -> {None} \cup Runs]
  BY DEF TypeInv
<1>4. new \in Runs /\ new # None
  <2>1. new \in Runs
    BY <1>2 DEF Runs
  <2>2. "id" \in DOMAIN new /\ ~("id" \in DOMAIN None)
    BY DEF None
  <2> QED BY <2>1, <2>2
<1>5. CASE ledger[s] # None /\ ledger[s].id # inv[i].id
  BY <1>1, <1>3, <1>5, RaisesEnds DEF OpenState
<1>6. CASE ~(ledger[s] # None /\ ledger[s].id # inv[i].id)
  <2>1. Goes(i, "measure")
        /\ ledger' = IF ledger[s] = None THEN [ledger EXCEPT ![s] = new] ELSE ledger
    BY <1>6 DEF OpenState
  <2> HIDE DEF new
  <2>2. /\ ledger' \in [States -> {None} \cup Runs] /\ ledger'[s] # None
        /\ \A t \in States : ledger[t] # None => ledger'[t] # None
    BY <1>2, <1>3, <1>4, <2>1
  <2>3. Moves(i, "measure", {})
    BY <1>1, <2>1, GoesMoves
  <2> QED BY <1>1, <2>2, <2>3
<1> QED BY <1>5, <1>6

LEMMA MeasureDoes ==
  ASSUME TypeInv, NEW i \in Invocations, Measure(i)
  PROVE  /\ inv[i].pc = "measure" /\ Todo(i) = {} /\ Moves(i, "publish", {})
         /\ ledger' \in [States -> {None} \cup Runs]
         /\ \A s \in States : ledger[s] # None => ledger'[s] # None
<1>1. inv[i].pc = "measure" /\ inv[i].todo = << >> /\ Todo(i) = {} /\ Knows(i) /\ "publish" \in Pcs
  BY AtIdle DEF Measure, TypeInv, Pcs
<1> DEFINE s == inv[i].state
<1>2. s \in States /\ ledger[s] # None /\ ledger \in [States -> {None} \cup Runs]
  BY <1>1 DEF Knows, TypeInv
<1>3. ledger[s] \in Runs
  BY <1>2
<1>4. Moves(i, "publish", {})
  BY <1>1, GoesMoves DEF Measure
<1>5. CASE ledger[s].result = Unmeasured
  <2>1. PICK v \in Results : ledger' = [ledger EXCEPT ![s].result = v]
    BY <1>5 DEF Measure
  <2> DEFINE new == [ledger[s] EXCEPT !.result = v]
  <2>2. ledger' = [ledger EXCEPT ![s] = new]
    BY <1>2, <2>1
  <2>3. new \in Runs /\ "id" \in DOMAIN new
    BY <1>3 DEF Runs
  <2>4. new # None
    <3>1. ~("id" \in DOMAIN None)
      BY DEF None
    <3> QED BY <2>3, <3>1
  <2> HIDE DEF new
  <2>5. /\ ledger' \in [States -> {None} \cup Runs]
        /\ \A t \in States : ledger[t] # None => ledger'[t] # None
    BY <1>2, <2>2, <2>3, <2>4
  <2> QED BY <1>1, <1>4, <2>5
<1>6. CASE ledger[s].result # Unmeasured
  BY <1>1, <1>2, <1>4, <1>6 DEF Measure
<1> QED BY <1>5, <1>6

LEMMA PublishDoes ==
  ASSUME TypeInv, NEW i \in Invocations, Publish(i)
  PROVE  /\ inv[i].pc = "publish" /\ Todo(i) = {}
         /\ \/ Ended(i)
            \/ /\ Moves(i, "done", FreshSteps(i))
               /\ Seen(ReportJson) = None \/ inv[i].replace
            \/ /\ Moves(i, "done", {Canonical(Summary, Document(RunOf(i), i)),
                                    Canonical(ReportCsv, Document(RunOf(i), i)),
                                    Merge(RunOf(i)), OwnSidecar})
               /\ Seen(ReportJson) # None /\ ~inv[i].replace /\ Seen(ReportJson).run = RunOf(i)
<1>1. inv[i].pc = "publish" /\ inv[i].todo = << >> /\ Todo(i) = {} /\ "done" \in Pcs
  BY AtIdle DEF Publish, Pcs
<1>2. CASE Seen(ReportJson) = None \/ inv[i].replace
  <2> DEFINE script == FreshScript(i)
  <2>1. script \in Seq(Steps) /\ Range(script) = FreshSteps(i)
    BY <1>1, FreshScriptSteps
  <2>2. GoesWith(i, "done", script)
    BY <1>2 DEF Publish
  <2> HIDE DEF script
  <2>3. Moves(i, "done", Range(script))
    BY <1>1, <2>1, <2>2, GoesWithMoves
  <2> QED BY <1>1, <1>2, <2>1, <2>3
<1>3. CASE ~(Seen(ReportJson) = None \/ inv[i].replace)
  <2>1. CASE Seen(ReportJson).run = RunOf(i)
    <3> DEFINE script == ReuseScript(i)
    <3>1. /\ script \in Seq(Steps)
          /\ Range(script) =
               {Canonical(Summary, Document(RunOf(i), i)),
                Canonical(ReportCsv, Document(RunOf(i), i)), Merge(RunOf(i)), OwnSidecar}
      BY <1>1, ReuseScriptSteps
    <3>2. GoesWith(i, "done", script)
      BY <1>3, <2>1 DEF Publish
    <3> HIDE DEF script
    <3>3. Moves(i, "done", Range(script))
      BY <1>1, <3>1, <3>2, GoesWithMoves
    <3> QED BY <1>1, <1>3, <2>1, <3>1, <3>3
  <2>2. CASE Seen(ReportJson).run # RunOf(i)
    <3>1. Raises(i)
      BY <1>3, <2>2 DEF Publish
    <3> QED BY <1>1, <3>1, RaisesEnds
  <2> QED BY <2>1, <2>2
<1> QED BY <1>2, <1>3

(* With no invocation in progress a human writes notes, and they are durable. *)
LEMMA AnnotateDoes ==
  ASSUME TypeInv, Annotate
  PROVE  /\ inv' = inv /\ \A i \in Invocations : inv[i] = Off
         /\ DiskFits(disk')
         /\ \A q : q # Review => Seen(q)' = Seen(q)
         /\ NotesIn(disk.seen) \subseteq NotesIn(disk'.seen)
         /\ NotesIn(disk'.kept) = NotesIn(disk'.seen)
<1> DEFINE found == Seen(Review)
           noted == ReviewOf(found.run, found.notes \cup {found.run}, FALSE)
           mid == Named(disk, Review, noted)
<1>1. /\ inv' = inv /\ inv = [i \in Invocations |-> Off] /\ found # None
      /\ disk' = Synced(mid, OutDir) /\ DiskFits(disk)
  BY DEF Annotate, TypeInv
<1>2. Review \in Files /\ Fits(Review) = Reviews
  BY FilesDiffer DEF Files, Fits
<1>3. found \in Reviews
  BY <1>1, <1>2, SeenWhat
<1>4. noted \in Reviews /\ noted.notes = found.notes \cup {found.run}
  BY <1>3 DEF ReviewOf, Reviews
<1>5. NotesIn(disk.seen) = found.notes
  BY <1>1, NotesSeen
<1> HIDE DEF noted, mid
<1>6. /\ DiskFits(mid)
      /\ \A q : SeenIn(mid.seen, q) = IF q = Review THEN noted ELSE SeenIn(disk.seen, q)
      /\ NotesIn(mid.seen) = noted.notes
  <2>1. mid = Named(disk, Review, noted)
    BY DEF mid
  <2>2. noted \in Fits(Review)
    BY <1>2, <1>4
  <2> HIDE DEF found
  <2> QED BY <1>1, <1>2, <2>1, <2>2, NamedTree
<1>7. DiskFits(disk') /\ disk'.seen = mid.seen /\ NotesIn(disk'.kept) = NotesIn(disk'.seen)
  BY <1>1, <1>6, SyncedTree
<1>8. \A q : Seen(q) = SeenIn(disk.seen, q) /\ Seen(q)' = SeenIn(disk'.seen, q)
  BY DEF Seen, SeenIn, Exists
<1> QED BY <1>1, <1>4, <1>5, <1>6, <1>7, <1>8

-----------------------------------------------------------------------------
(* Types: every step. *)

LEMMA QuietMay ==
  ASSUME TypeInv, NEW i \in Invocations, inv[i].pc # "off"
  PROVE  MayDo(i, Sync)
<1>1. Sync.op = "sync"
  BY StepFields
<1> QED BY <1>1 DEF MayDo, Writes

LEMMA SidecarMay ==
  ASSUME NEW i \in Invocations, NEW c, inv[i].pc # "off"
  PROVE  MayDo(i, Replace(Sidecar, c))
BY StepFields, FilesDiffer DEF MayDo, Writes

LEMMA TypeStep ==
  ASSUME TypeInv, NEW i \in Invocations, Step(i)
  PROVE  TypeInv'
<1>1. ledger' = ledger /\ trouble' \in 0..MaxTrouble
  BY DEF Step, CheckAbsent, Install, InstallNew, SyncDir, Repair, MergeReview, OwnIdentity,
         InspectOwn, TakeBack, TypeInv
<1>2. CASE CheckAbsent(i)
  <2>1. disk' = disk /\ DiskFits(disk')
    BY <1>2 DEF CheckAbsent, TypeInv
  <2> QED BY <1>1, <1>2, <2>1, CheckAbsentDoes, TypeEnds, TypeDrops
<1>3. CASE Install(i)
  <2>1. Continued(i, {}) /\ DiskFits(disk')
    BY <1>3, InstallDoes DEF Wrote
  <2> QED BY <1>1, <2>1, TypeDrops
<1>4. CASE InstallNew(i)
  <2>1. CASE Continued(i, {}) /\ DiskFits(disk')
    BY <1>1, <2>1, TypeDrops
  <2>2. CASE inv[i].todo # << >> /\ disk' = disk /\ Abandons(i)
    BY <1>1, <2>2, TypeAbandons
  <2>3. \/ Continued(i, {}) /\ DiskFits(disk')
        \/ inv[i].todo # << >> /\ disk' = disk /\ Abandons(i)
    BY <1>4, InstallNewDoes DEF Wrote
  <2> QED BY <2>1, <2>2, <2>3
<1>5. CASE SyncDir(i)
  BY <1>1, <1>5, SyncDirDoes, TypeDrops
<1>6. CASE Repair(i)
  <2>1. disk' = disk /\ DiskFits(disk')
    BY <1>6 DEF Repair, TypeInv
  <2>2. /\ inv[i].todo # << >> /\ Due(i).op = "canonical"
        /\ Due(i).path \in {Summary, ReportCsv}
    BY <1>6, RepairDoes
  <2>3. MayDo(i, Due(i))
    BY <2>2, InvFields DEF TypeInv
  <2>4. inv[i].pc # "off"
    BY <2>2, <2>3 DEF MayDo
  <2>5. MayDo(i, Sync)
    BY <2>4, QuietMay
  <2>6. MayDo(i, Replace(Due(i).path, Due(i).content))
    BY <2>2, <2>4, StepFields, FilesDiffer DEF MayDo
  <2>7. CASE Continued(i, {})
    BY <1>1, <2>1, <2>2, <2>7, TypeDrops
  <2>8. CASE Continued(i, {Replace(Due(i).path, Due(i).content), Sync})
    BY <1>1, <2>1, <2>2, <2>5, <2>6, <2>8, TypeReplaces
  <2> QED BY <1>6, <2>7, <2>8, RepairDoes
<1>7. CASE MergeReview(i)
  <2>1. disk' = disk /\ DiskFits(disk')
    BY <1>7 DEF MergeReview, TypeInv
  <2>2. PICK merged \in Reviews :
          /\ inv[i].todo # << >> /\ Due(i).op = "merge"
          /\ \/ Continued(i, {})
             \/ Continued(i, {Replace(Review, merged), Sync})
    BY <1>7, MergeReviewDoes
  <2>3. MayDo(i, Due(i))
    BY <2>2, InvFields DEF TypeInv
  <2>4. inv[i].pc # "off"
    BY <2>2, <2>3 DEF MayDo
  <2>5. MayDo(i, Sync)
    BY <2>4, QuietMay
  <2>6. MayDo(i, Replace(Review, merged))
    BY <2>4, StepFields, FilesDiffer DEF MayDo
  <2>7. CASE Continued(i, {})
    BY <1>1, <2>1, <2>2, <2>7, TypeDrops
  <2>8. CASE Continued(i, {Replace(Review, merged), Sync})
    BY <1>1, <2>1, <2>2, <2>5, <2>6, <2>8, TypeReplaces
  <2> QED BY <2>2, <2>7, <2>8
<1>8. CASE OwnIdentity(i)
  <2>1. disk' = disk /\ DiskFits(disk')
    BY <1>8 DEF OwnIdentity, TypeInv
  <2>2. inv[i].todo # << >> /\ inv[i].pc # "off"
    BY <1>8, OwnIdentityDoes
  <2>3. MayDo(i, Sync) /\ MayDo(i, Replace(Sidecar, IdentityRecord(inv[i].id)))
    BY <2>2, QuietMay, SidecarMay
  <2>4. CASE Continued(i, {})
    BY <1>1, <2>1, <2>2, <2>4, TypeDrops
  <2>5. CASE Continued(i, {Replace(Sidecar, IdentityRecord(inv[i].id)), Sync})
    BY <1>1, <2>1, <2>2, <2>3, <2>5, TypeReplaces
  <2> QED BY <1>8, <2>4, <2>5, OwnIdentityDoes
<1>9. CASE InspectOwn(i)
  <2>1. disk' = disk /\ DiskFits(disk')
    BY <1>9 DEF InspectOwn, TypeInv
  <2>2. inv[i].todo # << >> /\ Due(i).op = "inspect" /\ MayDo(i, Due(i))
    BY <1>9, InspectOwnDoes, InvFields DEF TypeInv
  <2>3. MayDo(i, Unlink)
    BY <2>2, StepFields DEF MayDo, Writes
  <2>4. CASE Ended(i)
    BY <1>1, <2>1, <2>4, TypeEnds
  <2>5. CASE Continued(i, {Unlink})
    <3>1. Continued(i, {Unlink, Unlink})
      BY <2>5
    <3> QED BY <1>1, <2>1, <2>3, <3>1, TypeReplaces
  <2> QED BY <1>9, <2>4, <2>5, InspectOwnDoes
<1>10. CASE TakeBack(i)
  BY <1>1, <1>10, TakeBackDoes, TypeEnds
<1> QED BY <1>2, <1>3, <1>4, <1>5, <1>6, <1>7, <1>8, <1>9, <1>10 DEF Step

(* The steps of a fresh publication. *)
LEMMA FreshKinds ==
  ASSUME NEW i \in Invocations, NEW s \in FreshSteps(i)
  PROVE  /\ s.op \notin {"inspect", "unlink"}
         /\ s.op = "link" => ~inv[i].replace
         /\ s.op = "merge" => ~inv[i].replace
         /\ s.op = "replace" => inv[i].replace
         /\ s.path = ReportJson /\ Writes(s) => s.content = Document(RunOf(i), i)
<1> DEFINE doc == Document(RunOf(i), i)
           fresh == ReviewOf(RunOf(i), {}, TRUE)
<1>1. \/ s = Sync \/ s = Canonical(Summary, doc) \/ s = OwnSidecar
      \/ inv[i].replace /\ s = Replace(ReportJson, doc)
      \/ inv[i].replace /\ s = Replace(ReportCsv, doc)
      \/ inv[i].replace /\ s = Replace(Review, fresh)
      \/ ~inv[i].replace /\ s = Absent(ReportJson)
      \/ ~inv[i].replace /\ s = Absent(ReportCsv)
      \/ ~inv[i].replace /\ s = Link(ReportJson, doc)
      \/ ~inv[i].replace /\ s = Link(ReportCsv, doc)
      \/ ~inv[i].replace /\ s = Link(Review, fresh)
  BY DEF FreshSteps
<1> HIDE DEF doc, fresh
<1>2. \/ s.op \in {"sync", "canonical", "sidecar", "absent"}
      \/ s.op = "replace" /\ inv[i].replace
      \/ s.op = "link" /\ ~inv[i].replace
  BY <1>1, StepFields
<1>3. s.path = ReportJson /\ Writes(s) => s.content = doc
  BY <1>1, StepFields, FilesDiffer DEF Writes
<1> QED BY <1>2, <1>3 DEF doc

LEMMA TypeWork ==
  ASSUME TypeInv, NEW i \in Invocations, Work(i)
  PROVE  TypeInv'
<1> DEFINE Kept == /\ ledger' \in [States -> {None} \cup Runs]
                   /\ \A s \in States : ledger[s] # None => ledger'[s] # None
<1>1. /\ trouble \in 0..MaxTrouble /\ DiskFits(disk) /\ Knows(i)
      /\ ledger \in [States -> {None} \cup Runs]
  BY DEF TypeInv
<1>2. CASE Start(i)
  <2>1. disk' = disk /\ trouble' = trouble /\ ledger' = ledger
    BY <1>2 DEF Start
  <2>2. Others(i) /\ Todo(i)' = {} /\ Knows(i)'
    BY <1>2, StartDoes DEF Knows
  <2> QED BY <1>1, <2>1, <2>2, TypeMoves
<1>3. CASE ReadSidecar(i)
  <2>1. disk' = disk /\ trouble' = trouble /\ ledger' = ledger
    BY <1>3 DEF ReadSidecar
  <2>2. Others(i) /\ Todo(i)' = {} /\ Knows(i)'
    BY <1>1, <1>3, ReadSidecarDoes DEF Knows, Moves
  <2> QED BY <1>1, <2>1, <2>2, TypeMoves
<1>4. CASE Establish(i)
  <2>1. disk' = disk /\ trouble' = trouble /\ ledger' = ledger
    BY <1>4 DEF Establish
  <2>2. CASE Ended(i)
    BY <1>1, <2>1, <2>2, TypeEnds
  <2>3. ASSUME NEW steps, Moves(i, "state", steps),
               steps \in {{}, {Replace(Sidecar, IdentityRecord(inv[i].id)), Sync}}
        PROVE  TypeInv'
    <3>1. /\ Others(i) /\ Todo(i)' = steps /\ inv'[i].pc = "state"
          /\ inv'[i].id = inv[i].id /\ inv'[i].state = inv[i].state
      BY <2>3 DEF Moves
    <3>2. Knows(i)'
      BY <1>1, <1>4, <3>1, EstablishDoes DEF Knows
    <3>3. ASSUME NEW s \in steps
          PROVE  MayDo(i, s)'
      <4>1. s = Replace(Sidecar, IdentityRecord(inv[i].id)) \/ s = Sync
        BY <2>3
      <4>2. s.op \in {"replace", "sync"} /\ s.path # ReportJson
        BY <4>1, StepFields, FilesDiffer, OutDirDiffers DEF Files
      <4> QED BY <3>1, <4>2 DEF MayDo, Writes
    <3>4. \A s \in Todo(i)' : MayDo(i, s)'
      BY <3>1, <3>3
    <3> QED BY <1>1, <2>1, <3>1, <3>2, <3>4, TypeMoves
  <2> QED BY <1>4, <2>2, <2>3, EstablishDoes
<1>5. CASE OpenState(i)
  <2>1. disk' = disk /\ trouble' = trouble
    BY <1>5 DEF OpenState
  <2>2. CASE Ended(i) /\ ledger' = ledger
    BY <1>1, <2>1, <2>2, TypeEnds
  <2>3. CASE Moves(i, "measure", {}) /\ ledger'[inv[i].state] # None
    <3>1. /\ Others(i) /\ Todo(i)' = {} /\ inv'[i].pc = "measure"
          /\ inv'[i].id = inv[i].id /\ inv'[i].state = inv[i].state
      BY <2>3 DEF Moves
    <3>2. Knows(i)'
      BY <1>1, <1>5, <2>3, <3>1, OpenStateDoes DEF Knows
    <3> QED BY <1>1, <1>5, <2>1, <3>1, <3>2, OpenStateDoes, TypeMoves
  <2> QED BY <1>5, <2>2, <2>3, OpenStateDoes
<1>6. CASE Measure(i)
  <2>1. disk' = disk /\ trouble' = trouble
    BY <1>6 DEF Measure
  <2>2. /\ Others(i) /\ Todo(i)' = {} /\ inv'[i].pc = "publish" /\ inv[i].pc = "measure"
        /\ inv'[i].id = inv[i].id /\ inv'[i].state = inv[i].state
    BY <1>6, MeasureDoes DEF Moves
  <2>3. Kept
    BY <1>6, MeasureDoes
  <2>4. Knows(i)'
    BY <1>1, <2>2, <2>3 DEF Knows
  <2> QED BY <1>1, <2>1, <2>2, <2>3, <2>4, TypeMoves
<1>7. CASE Publish(i)
  <2>1. disk' = disk /\ trouble' = trouble /\ ledger' = ledger
    BY <1>7 DEF Publish
  <2>2. CASE Ended(i)
    BY <1>1, <2>1, <2>2, TypeEnds
  <2>3. ASSUME NEW steps, Moves(i, "done", steps),
               \/ steps = FreshSteps(i)
               \/ /\ steps = {Canonical(Summary, Document(RunOf(i), i)),
                              Canonical(ReportCsv, Document(RunOf(i), i)),
                              Merge(RunOf(i)), OwnSidecar}
                  /\ ~inv[i].replace
        PROVE  TypeInv'
    <3>1. /\ Others(i) /\ Todo(i)' = steps /\ inv'[i].pc = "done" /\ inv[i].pc = "publish"
          /\ inv'[i].id = inv[i].id /\ inv'[i].state = inv[i].state
          /\ inv'[i].replace = inv[i].replace
      BY <1>7, <2>3, PublishDoes DEF Moves
    <3>2. Knows(i)'
      BY <1>1, <2>1, <3>1 DEF Knows
    <3>3. ASSUME NEW s \in steps
          PROVE  MayDo(i, s)'
      <4>1. /\ s.op \notin {"inspect", "unlink"}
            /\ s.op = "link" => ~inv[i].replace
            /\ s.op = "merge" => ~inv[i].replace
            /\ s.op = "replace" => inv[i].replace
            /\ s.path = ReportJson /\ Writes(s) => s.content = Document(RunOf(i), i)
        <5>1. CASE s \in FreshSteps(i)
          BY <5>1, FreshKinds
        <5>2. CASE s \in {Canonical(Summary, Document(RunOf(i), i)),
                         Canonical(ReportCsv, Document(RunOf(i), i)),
                         Merge(RunOf(i)), OwnSidecar} /\ ~inv[i].replace
          <6>1. s.op \in {"canonical", "merge", "sidecar"}
            BY <5>2, StepFields
          <6> QED BY <5>2, <6>1 DEF Writes
        <5> QED BY <2>3, <3>3, <5>1, <5>2
      <4>2. Document(RunOf(i), i).by = i
        BY <3>1, Reported
      <4> QED BY <3>1, <4>1, <4>2 DEF MayDo, Writes
    <3>4. \A s \in Todo(i)' : MayDo(i, s)'
      BY <3>1, <3>3
    <3>5. Others(i) /\ DiskFits(disk') /\ trouble' \in 0..MaxTrouble /\ Kept
      BY <1>1, <2>1, <3>1
    <3> QED BY <3>2, <3>4, <3>5, TypeMoves
  <2> QED BY <1>7, <2>2, <2>3, PublishDoes
<1>8. CASE Finish(i)
  <2>1. disk' = disk /\ trouble' = trouble /\ ledger' = ledger /\ Raises(i)
    BY <1>8 DEF Finish
  <2> QED BY <1>1, <2>1, RaisesEnds, TypeEnds
<1>9. CASE Step(i)
  BY <1>9, TypeStep
<1> QED BY <1>2, <1>3, <1>4, <1>5, <1>6, <1>7, <1>8, <1>9 DEF Work

(* All that is off knows nothing and has nothing to do. *)
LEMMA OffTodo ==
  ASSUME NEW i, inv[i] = Off
  PROVE  Todo(i) = {} /\ Knows(i) /\ inv[i].pc = "off"
BY OffFits DEF Todo, Knows

LEMMA TypeNext ==
  ASSUME TypeInv, [Next]_vars
  PROVE  TypeInv'
<1>1. CASE UNCHANGED vars
  BY <1>1 DEF vars, TypeInv, Knows, Todo, MayDo
<1>2. CASE PowerLoss
  <2>1. disk' \in AfterPowerLoss(disk) /\ DiskFits(disk)
        /\ inv' = [i \in Invocations |-> Off] /\ ledger' = ledger
    BY <1>2 DEF PowerLoss, TypeInv
  <2>2. DiskFits(disk')
    BY <2>1, PowerLossTree
  <2>3. inv' \in [Invocations -> Invs] /\ \A i \in Invocations : inv'[i] = Off
    BY <2>1, OffFits
  <2>4. \A i \in Invocations : Todo(i)' = {} /\ Knows(i)'
    BY <2>3, OffFits DEF Todo, Knows
  <2>5. trouble' \in 0..MaxTrouble
    BY <1>2, OutputsAssumption DEF PowerLoss, TypeInv
  <2>6. ledger' \in [States -> {None} \cup Runs]
    BY <2>1 DEF TypeInv
  <2> QED BY <2>2, <2>3, <2>4, <2>5, <2>6 DEF TypeInv
<1>3. CASE Annotate
  <2>1. inv' = inv /\ DiskFits(disk') /\ ledger' = ledger /\ trouble' = trouble
    BY <1>3, AnnotateDoes DEF Annotate
  <2> QED BY <2>1 DEF TypeInv, Knows, Todo, MayDo
<1>4. ASSUME NEW i \in Invocations, Work(i)
      PROVE  TypeInv'
  BY <1>4, TypeWork
<1>5. ASSUME NEW i \in Invocations, StepFails(i)
      PROVE  TypeInv'
  <2>1. inv[i].todo # << >> /\ Abandons(i) /\ ledger' = ledger /\ disk' = disk
    BY <1>5 DEF StepFails
  <2>2. trouble' \in 0..MaxTrouble
    BY <1>5, OutputsAssumption DEF StepFails, TypeInv
  <2> QED BY <2>1, <2>2, TypeAbandons
<1>6. ASSUME NEW i \in Invocations, Killed(i)
      PROVE  TypeInv'
  <2>1. Raises(i) /\ ledger' = ledger /\ disk' = disk /\ DiskFits(disk')
    BY <1>6 DEF Killed, TypeInv
  <2>2. trouble' \in 0..MaxTrouble
    BY <1>6, OutputsAssumption DEF Killed, TypeInv
  <2> QED BY <2>1, <2>2, RaisesEnds, TypeEnds
<1> QED BY <1>1, <1>2, <1>3, <1>4, <1>5, <1>6 DEF Next

LEMMA InitFits ==
  ASSUME Init
  PROVE  /\ DiskFits(disk) /\ NotesIn(disk.seen) = {}
         /\ \A i \in Invocations : inv[i] = Off
         /\ TypeInv
<1>1. disk = [seen |-> << >>, kept |-> << >>] /\ DOMAIN << >> = {}
  BY DEF Init, Durable
<1>2. DiskFits(disk) /\ NotesIn(disk.seen) = {}
  BY <1>1 DEF DiskFits, TreeFits, NotesIn
<1>3. inv \in [Invocations -> Invs] /\ \A i \in Invocations : inv[i] = Off
  BY OffFits DEF Init
<1>4. \A i \in Invocations : Todo(i) = {} /\ Knows(i)
  BY <1>3, OffTodo
<1>5. ledger \in [States -> {None} \cup Runs] /\ trouble \in 0..MaxTrouble
  BY OutputsAssumption DEF Init
<1> QED BY <1>2, <1>3, <1>4, <1>5 DEF TypeInv

LEMMA TypeAlways == Spec => []TypeInv
BY InitFits, TypeNext, PTL DEF Spec

LEMMA TypeInvTyped == TypeInv => OutputsTypeOK
<1> SUFFICES ASSUME TypeInv PROVE OutputsTypeOK
  OBVIOUS
<1>1. ASSUME NEW s \in States, ledger[s] # None
      PROVE  ledger[s].id \in Identities /\ ledger[s].result \in Results \cup {Unmeasured}
  BY <1>1 DEF TypeInv, Runs
<1>2. ASSUME NEW i \in Invocations
      PROVE  /\ inv[i].pc \in {"off", "sidecar", "identity", "state", "measure", "publish", "done"}
             /\ inv[i].pc # "off" => inv[i].id \in Identities /\ inv[i].state \in States
             /\ inv[i].pc = "off" /\ inv[i].todo # << >> => ~inv[i].replace
  <2>1. inv[i].pc \in Pcs /\ Knows(i)
    BY InvFields DEF TypeInv
  <2>2. inv[i].todo # << >> => MayDo(i, Due(i))
    BY InvFields DEF TypeInv
  <2> QED BY <2>1, <2>2 DEF Pcs, Knows, MayDo
<1>3. DOMAIN disk.seen \subseteq {Sidecar, ReportJson, ReportCsv, Summary, Review}
  BY DEF TypeInv, DiskFits, TreeFits, Files
<1>4. trouble \in 0..MaxTrouble
  BY DEF TypeInv
<1> QED BY <1>1, <1>2, <1>3, <1>4 DEF OutputsTypeOK

(* The state files, the invocations and the files in the output directory are *)
(* of their kinds, and an invocation that takes its report back does not       *)
(* replace, with any number of invocations.                                    *)
THEOREM OutputsTyped == Spec => []OutputsTypeOK
BY TypeAlways, TypeInvTyped, PTL

-----------------------------------------------------------------------------
(* Reports, when no invocation replaces. *)

(* What an invocation does to the report that is there. *)
LEMMA ReportWork ==
  ASSUME TypeInv, Replaces \subseteq {FALSE}, NEW i \in Invocations, Work(i), ~TakeBack(i)
  PROVE  Seen(ReportJson)' = Seen(ReportJson) \/ Seen(ReportJson) = None
<1>1. disk' = disk => Seen(ReportJson)' = Seen(ReportJson)
  BY DEF Seen
<1>2. CASE Install(i)
  <2>1. Due(i) \in Todo(i) /\ Due(i).op = "replace" /\ Writes(Due(i))
        /\ Wrote(Due(i).path, Due(i).content)
    BY <1>2, InstallDoes, InvFields
  <2>2. MayDo(i, Due(i)) /\ ~inv[i].replace
    BY <2>1, InvFields DEF TypeInv, Invs
  <2>3. Due(i).path # ReportJson
    BY <2>1, <2>2 DEF MayDo
  <2> QED BY <2>1, <2>3 DEF Wrote
<1>3. CASE InstallNew(i)
  <2>1. \/ Seen(Due(i).path) = None /\ Wrote(Due(i).path, Due(i).content)
        \/ disk' = disk
    BY <1>3, InstallNewDoes
  <2> QED BY <1>1, <2>1 DEF Wrote
<1>4. CASE SyncDir(i)
  <2>1. disk'.seen = disk.seen
    BY <1>4, SyncDirDoes
  <2> QED BY <2>1 DEF Seen
<1>5. CASE Start(i) \/ ReadSidecar(i) \/ Establish(i) \/ OpenState(i) \/ Measure(i)
           \/ Publish(i) \/ Finish(i)
  BY <1>1, <1>5 DEF Start, ReadSidecar, Establish, OpenState, Measure, Publish, Finish
<1>6. CASE CheckAbsent(i) \/ Repair(i) \/ MergeReview(i) \/ OwnIdentity(i) \/ InspectOwn(i)
  BY <1>1, <1>6 DEF CheckAbsent, Repair, MergeReview, OwnIdentity, InspectOwn
<1> QED BY <1>2, <1>3, <1>4, <1>5, <1>6 DEF Work, Step

(* Nobody but the one who has just inspected its report is about to unlink. *)
LEMMA NoUnlink ==
  ASSUME TypeInv, TypeInv', NEW i \in Invocations,
         \/ Work(i) /\ ~TakeBack(i) /\ ~InspectOwn(i)
         \/ StepFails(i)
  PROVE  \A s \in Todo(i)' : s.op # "unlink"
<1>1. CASE Ended(i)
  BY <1>1, OffFits DEF Ended, Todo
<1>2. CASE Moves(i, "off", {Inspect})
  BY <1>2, StepFields DEF Moves
<1>3. CASE inv'[i].pc # "off"
  BY <1>3 DEF TypeInv, MayDo
<1>4. ASSUME NEW more, Continued(i, more), Due(i).op \notin {"inspect", "unlink"}
      PROVE  inv'[i].pc # "off"
  <2>1. inv'[i].pc = inv[i].pc /\ inv[i].todo # << >>
    BY <1>4 DEF Continued, Moves
  <2>2. MayDo(i, Due(i))
    BY <2>1, InvFields DEF TypeInv
  <2> QED BY <1>4, <2>1, <2>2 DEF MayDo
<1>5. CASE StepFails(i)
  BY <1>1, <1>2, <1>5, AbandonsMoves DEF StepFails
<1>6. CASE CheckAbsent(i)
  BY <1>1, <1>3, <1>4, <1>6, CheckAbsentDoes
<1>7. CASE Install(i)
  BY <1>3, <1>4, <1>7, InstallDoes
<1>8. CASE InstallNew(i)
  BY <1>1, <1>2, <1>3, <1>4, <1>8, InstallNewDoes, AbandonsMoves
<1>9. CASE SyncDir(i)
  BY <1>3, <1>4, <1>9, SyncDirDoes
<1>10. CASE Repair(i)
  BY <1>3, <1>4, <1>10, RepairDoes
<1>11. CASE MergeReview(i)
  BY <1>3, <1>4, <1>11, MergeReviewDoes
<1>12. CASE OwnIdentity(i)
  BY <1>3, <1>4, <1>12, OwnIdentityDoes
<1>13. CASE Start(i)
  BY <1>3, <1>13, StartDoes
<1>14. CASE ReadSidecar(i)
  BY <1>3, <1>14, ReadSidecarDoes DEF Moves
<1>15. CASE Establish(i)
  BY <1>1, <1>3, <1>15, EstablishDoes DEF Moves
<1>16. CASE OpenState(i)
  BY <1>1, <1>3, <1>16, OpenStateDoes DEF Moves
<1>17. CASE Measure(i)
  BY <1>3, <1>17, MeasureDoes DEF Moves
<1>18. CASE Publish(i)
  BY <1>1, <1>3, <1>18, PublishDoes DEF Moves
<1>19. CASE Finish(i)
  BY <1>1, <1>19, RaisesEnds DEF Finish
<1> QED BY <1>5, <1>6, <1>7, <1>8, <1>9, <1>10, <1>11, <1>12, <1>13, <1>14, <1>15, <1>16,
           <1>17, <1>18, <1>19 DEF Work, Step

LEMMA OwnReportNext ==
  ASSUME ReportInv, Replaces \subseteq {FALSE}, [Next]_vars
  PROVE  ReportInv'
<1>1. TypeInv /\ TypeInv' /\ \A i \in Invocations : OwnReport(i)
  BY TypeNext DEF ReportInv
<1>2. ASSUME NEW j \in Invocations, inv'[j] = inv[j],
             Seen(ReportJson)' = Seen(ReportJson) \/ Seen(ReportJson) = None
      PROVE  OwnReport(j)'
  <2>1. Todo(j)' = Todo(j) /\ OwnReport(j)
    BY <1>1, <1>2 DEF Todo
  <2> QED BY <1>2, <2>1 DEF OwnReport
<1>3. ASSUME NEW i \in Invocations, \A s \in Todo(i)' : s.op # "unlink", Others(i),
             Seen(ReportJson)' = Seen(ReportJson) \/ Seen(ReportJson) = None
      PROVE  \A j \in Invocations : OwnReport(j)'
  <2>1. OwnReport(i)'
    BY <1>3 DEF OwnReport
  <2> QED BY <1>2, <1>3, <2>1 DEF Others
<1>4. ASSUME NEW i \in Invocations, Work(i) \/ StepFails(i) \/ Killed(i)
      PROVE  Others(i)
  <2>1. inv' \in [Invocations -> Invs]
    BY <1>1 DEF TypeInv
  <2>2. \E x : inv' = [inv EXCEPT ![i] = x]
    <3>1. \/ Raises(i)
          \/ Goes(i, "state") \/ Goes(i, "measure") \/ Goes(i, "publish")
          \/ \E pc, script : GoesWith(i, pc, script)
          \/ \E more : Continues(i, more)
          \/ Start(i) \/ ReadSidecar(i)
      BY <1>4 DEF Work, Step, StepFails, Killed, Start, ReadSidecar, Establish, OpenState, Measure,
           Publish, Finish, CheckAbsent, Install, InstallNew, SyncDir, Repair, MergeReview,
           OwnIdentity, InspectOwn, TakeBack, Abandons
    <3>2. inv \in [Invocations -> Invs]
      BY <1>1 DEF TypeInv
    <3> QED BY <3>1, <3>2 DEF Raises, Goes, GoesWith, Continues, Start, ReadSidecar, Invs
  <2>3. inv \in [Invocations -> Invs]
    BY <1>1 DEF TypeInv
  <2> QED BY <2>1, <2>2, <2>3 DEF Others
<1>5. CASE UNCHANGED vars
  BY <1>1, <1>2, <1>5 DEF vars, Seen, ReportInv
<1>6. CASE PowerLoss
  <2>1. inv' = [i \in Invocations |-> Off]
    BY <1>6 DEF PowerLoss
  <2>2. \A i \in Invocations : Todo(i)' = {}
    BY <2>1, OffFits DEF Todo
  <2> QED BY <1>1, <2>2 DEF ReportInv, OwnReport
<1>7. CASE Annotate
  <2>1. inv' = inv /\ Seen(ReportJson)' = Seen(ReportJson)
    BY <1>1, <1>7, AnnotateDoes, FilesDiffer
  <2> QED BY <1>1, <1>2, <2>1 DEF ReportInv
<1>8. ASSUME NEW i \in Invocations, TakeBack(i)
      PROVE  ReportInv'
  <2>1. Due(i) \in Todo(i) /\ Due(i).op = "unlink" /\ Ended(i)
    BY <1>1, <1>8, TakeBackDoes, InvFields
  <2>2. Seen(ReportJson).by = i
    BY <1>1, <2>1 DEF OwnReport
  <2>3. ASSUME NEW j \in Invocations, j # i
        PROVE  OwnReport(j)'
    <3>1. Todo(j)' = Todo(j) /\ OwnReport(j)
      BY <1>1, <2>1, <2>3 DEF Todo, Ended, Others
    <3> QED BY <2>2, <2>3, <3>1 DEF OwnReport
  <2>4. Todo(i)' = {}
    BY <2>1, OffFits DEF Ended, Todo
  <2>5. OwnReport(i)'
    BY <2>4 DEF OwnReport
  <2> QED BY <1>1, <2>3, <2>5 DEF ReportInv
<1>9. ASSUME NEW i \in Invocations, InspectOwn(i)
      PROVE  ReportInv'
  <2>1. Seen(ReportJson)' = Seen(ReportJson)
    BY <1>9 DEF InspectOwn, Seen
  <2>2. \/ Ended(i)
        \/ Seen(ReportJson) # None /\ Seen(ReportJson).by = i /\ Others(i)
    BY <1>1, <1>9, InspectOwnDoes DEF Continued, Moves
  <2>3. Others(i)
    BY <2>2 DEF Ended
  <2>4. OwnReport(i)'
    <3>1. CASE Ended(i)
      BY <3>1, OffFits DEF Ended, Todo, OwnReport
    <3>2. CASE Seen(ReportJson) # None /\ Seen(ReportJson).by = i
      BY <2>1, <3>2 DEF OwnReport
    <3> QED BY <2>2, <3>1, <3>2
  <2>5. \A j \in Invocations : j # i => OwnReport(j)'
    BY <1>2, <2>1, <2>3 DEF Others
  <2> QED BY <1>1, <2>4, <2>5 DEF ReportInv
<1>10. ASSUME NEW i \in Invocations, Work(i), ~TakeBack(i), ~InspectOwn(i)
       PROVE  ReportInv'
  <2>1. \A s \in Todo(i)' : s.op # "unlink"
    BY <1>1, <1>10, NoUnlink
  <2> QED BY <1>1, <1>3, <1>4, <1>10, <2>1, ReportWork DEF ReportInv
<1>11. ASSUME NEW i \in Invocations, StepFails(i)
       PROVE  ReportInv'
  <2>1. \A s \in Todo(i)' : s.op # "unlink"
    BY <1>1, <1>11, NoUnlink
  <2>2. Seen(ReportJson)' = Seen(ReportJson)
    BY <1>11 DEF StepFails, Seen
  <2> QED BY <1>1, <1>3, <1>4, <1>11, <2>1, <2>2 DEF ReportInv
<1>12. ASSUME NEW i \in Invocations, Killed(i)
       PROVE  ReportInv'
  <2>1. Ended(i)
    BY <1>1, <1>12, RaisesEnds DEF Killed
  <2>2. Todo(i)' = {}
    BY <2>1, OffFits DEF Ended, Todo
  <2>3. Seen(ReportJson)' = Seen(ReportJson)
    BY <1>12 DEF Killed, Seen
  <2>4. \A s \in Todo(i)' : s.op # "unlink"
    BY <2>2
  <2> QED BY <1>1, <1>3, <1>4, <1>12, <2>3, <2>4 DEF ReportInv
<1> QED BY <1>5, <1>6, <1>7, <1>8, <1>9, <1>10, <1>11, <1>12 DEF Next

LEMMA ReportStep ==
  ASSUME ReportInv, Replaces \subseteq {FALSE}, [Next]_vars,
         Seen(ReportJson) # None, Seen(ReportJson)' # Seen(ReportJson), trouble' = trouble
  PROVE  Doing(Seen(ReportJson).by, "unlink")
<1>1. TypeInv /\ \A i \in Invocations : OwnReport(i)
  BY DEF ReportInv
<1>2. ~(UNCHANGED vars)
  BY DEF vars, Seen
<1>3. ~PowerLoss /\ \A i \in Invocations : ~StepFails(i) /\ ~Killed(i)
  <2>1. trouble \in Nat
    BY <1>1, OutputsAssumption DEF TypeInv
  <2>2. trouble' # trouble + 1
    BY <2>1
  <2> QED BY <2>2 DEF PowerLoss, StepFails, Killed
<1>4. ~Annotate
  BY <1>1, AnnotateDoes, FilesDiffer
<1>5. PICK i \in Invocations : Work(i)
  BY <1>2, <1>3, <1>4 DEF Next
<1>6. TakeBack(i)
  BY <1>1, <1>5, ReportWork
<1>7. Due(i) \in Todo(i) /\ Due(i).op = "unlink"
  BY <1>1, <1>6, TakeBackDoes, InvFields
<1>8. Seen(ReportJson).by = i
  BY <1>1, <1>7 DEF OwnReport
<1> QED BY <1>6, <1>8 DEF TakeBack

(* Invocations that do not replace, any number of them at once, never         *)
(* overwrite a report, and take back only the half published one of their own. *)
THEOREM ReportStays ==
  ASSUME Replaces \subseteq {FALSE}
  PROVE  Spec => ReportKept
<1>1. Init => ReportInv
  <2> SUFFICES ASSUME Init PROVE ReportInv
    OBVIOUS
  <2>1. TypeInv /\ \A i \in Invocations : Todo(i) = {}
    BY InitFits, OffTodo
  <2> QED BY <2>1 DEF ReportInv, OwnReport
<1>2. ReportInv /\ [Next]_vars => ReportInv'
  BY OwnReportNext
<1>3. ReportInv /\ [Next]_vars =>
        [Seen(ReportJson) # None /\ Seen(ReportJson)' # Seen(ReportJson) =>
           \/ trouble' # trouble
           \/ ~NoReplacement
           \/ Doing(Seen(ReportJson).by, "unlink")]_vars
  BY ReportStep
<1> QED BY <1>1, <1>2, <1>3, PTL DEF Spec, ReportKept

-----------------------------------------------------------------------------
(* One invocation after another. *)
Alone == \A i, j \in Invocations : i = j

LEMMA AloneOne ==
  ASSUME Alone, TypeInv', NotesIn(disk'.seen) \subseteq NotesIn(disk'.kept),
         NEW i \in Invocations, \A s \in Todo(i)' : Means(i, s)', Looked(i)', Leads(i)',
         Completes(i)'
  PROVE  AloneInv'
<1>1. \A j \in Invocations : j = i
  BY DEF Alone
<1> QED BY <1>1 DEF AloneInv

LEMMA AloneEnds ==
  ASSUME Alone, TypeInv', NotesIn(disk'.seen) \subseteq NotesIn(disk'.kept),
         NEW i \in Invocations, Ended(i)
  PROVE  AloneInv'
<1>1. inv'[i].pc = "off" /\ Todo(i)' = {}
  BY OffFits DEF Ended, Todo
<1>2. Looked(i)' /\ Leads(i)' /\ Completes(i)'
  BY <1>1 DEF Looked, Leads, Completes
<1> QED BY <1>1, <1>2, AloneOne

LEMMA AloneOff ==
  ASSUME TypeInv', NotesIn(disk'.seen) \subseteq NotesIn(disk'.kept),
         \A i \in Invocations : inv'[i] = Off
  PROVE  AloneInv'
<1>1. ASSUME NEW i \in Invocations
      PROVE  /\ \A s \in Todo(i)' : Means(i, s)'
             /\ Looked(i)' /\ Leads(i)' /\ Completes(i)'
  <2>1. inv'[i].pc = "off" /\ Todo(i)' = {}
    BY OffFits DEF Todo
  <2> QED BY <2>1 DEF Looked, Leads, Completes
<1> QED BY <1>1 DEF AloneInv

(* The notes stay as they are while nothing is written. *)
LEMMA SameDisk ==
  ASSUME AloneInv, disk' = disk
  PROVE  /\ NotesIn(disk'.seen) \subseteq NotesIn(disk'.kept)
         /\ NotesIn(disk'.seen) = NotesIn(disk.seen)
         /\ \A q : Seen(q)' = Seen(q)
BY DEF AloneInv, Seen

LEMMA AloneAbandons ==
  ASSUME Alone, AloneInv, TypeInv', NEW i \in Invocations, inv[i].todo # << >>, Abandons(i),
         disk' = disk
  PROVE  AloneInv'
<1>1. TypeInv
  BY DEF AloneInv
<1>2. CASE Ended(i)
  BY <1>2, SameDisk, AloneEnds
<1>3. CASE Moves(i, "off", {Inspect})
  <2>1. inv'[i].pc = "off" /\ Todo(i)' = {Inspect}
    BY <1>3 DEF Moves
  <2>2. Looked(i)' /\ Leads(i)' /\ Completes(i)'
    BY <2>1 DEF Looked, Leads, Completes
  <2>3. Means(i, Inspect)'
    BY <2>1, StepFields DEF Means, Writes
  <2>4. \A s \in Todo(i)' : Means(i, s)'
    BY <2>1, <2>3
  <2> QED BY <2>2, <2>4, SameDisk, AloneOne
<1> QED BY <1>1, <1>2, <1>3, AbandonsMoves

(* The run an invocation reports stays, and with it what is as it should be. *)
LEMMA SameRun ==
  ASSUME NEW i \in Invocations, ledger' = ledger, inv'[i].id = inv[i].id,
         inv'[i].state = inv[i].state
  PROVE  RunOf(i)' = RunOf(i)
BY DEF RunOf

LEMMA ReadySame ==
  ASSUME NEW i \in Invocations, RunOf(i)' = RunOf(i), inv'[i].id = inv[i].id, NEW p,
         Seen(p)' = Seen(p), Ready(i, p)
  PROVE  Ready(i, p)'
<1>1. CASE p = Sidecar
  BY <1>1 DEF Ready
<1>2. CASE p # Sidecar
  BY <1>2 DEF Ready, Describes
<1> QED BY <1>1, <1>2

(* One step of a script is done and makes way for others: what they and the  *)
(* outputs must satisfy.                                                     *)
LEMMA AloneContinues ==
  ASSUME Alone, AloneInv, TypeInv', NEW i \in Invocations, NEW more, Continued(i, more),
         ledger' = ledger, NotesIn(disk'.seen) \subseteq NotesIn(disk'.kept),
         inv[i].replace \/ NotesIn(disk'.seen) = NotesIn(disk.seen),
         \A s \in more : Means(i, s)' /\ (Writes(s) => s.path # ReportJson),
         \/ Seen(Sidecar)' = Seen(Sidecar)
         \/ Seen(Sidecar)' = IdentityRecord(inv[i].id),
         Seen(ReportJson) # None => Seen(ReportJson)' # None,
         Due(i).op = "replace" /\ Due(i).path = Sidecar =>
           Seen(Sidecar)' = IdentityRecord(inv[i].id),
         inv[i].pc = "done" =>
           /\ \A p \in Files : Ready(i, p) => Ready(i, p)'
           /\ \A p \in Files : Settles(Due(i)) /\ Due(i).path = p =>
                Ready(i, p)' \/ \E s \in more : Settles(s) /\ s.path = p
  PROVE  AloneInv'
<1>1. /\ inv[i].todo # << >> /\ inv'[i].pc = inv[i].pc /\ inv'[i].id = inv[i].id
      /\ inv'[i].state = inv[i].state /\ inv'[i].replace = inv[i].replace
      /\ Todo(i)' = more \cup Rest(i)
  BY DEF Continued, Moves
<1>2. TypeInv /\ Todo(i) = {Due(i)} \cup Rest(i)
  BY <1>1, InvFields DEF AloneInv
<1>3. RunOf(i)' = RunOf(i)
  BY <1>1, SameRun
<1>4. ASSUME NEW s \in Rest(i)
      PROVE  Means(i, s)'
  <2>1. Means(i, s)
    BY <1>2 DEF AloneInv
  <2> QED BY <1>1, <1>3, <2>1 DEF Means
<1>5. Looked(i)'
  <2>1. inv[i].pc # "identity"
    BY <1>2 DEF AloneInv, Looked
  <2> QED BY <1>1, <2>1 DEF Looked
<1>6. Leads(i)'
  <2> SUFFICES ASSUME inv[i].pc \in {"state", "measure", "publish", "done"}
               PROVE  \/ Seen(Sidecar)' = IdentityRecord(inv[i].id)
                      \/ /\ ~inv[i].replace /\ Seen(ReportJson)' # None
                         /\ \A s \in more \cup Rest(i) : Writes(s) => s.path # ReportJson
                      \/ /\ inv[i].pc = "state"
                         /\ \E s \in more \cup Rest(i) : s.op = "replace" /\ s.path = Sidecar
    BY <1>1 DEF Leads
  <2>1. Leads(i)
    BY DEF AloneInv
  <2>2. CASE Seen(Sidecar) = IdentityRecord(inv[i].id)
    BY <2>2
  <2>3. CASE /\ ~inv[i].replace /\ Seen(ReportJson) # None
             /\ \A s \in Todo(i) : Writes(s) => s.path # ReportJson
    BY <1>2, <2>3
  <2>4. CASE /\ inv[i].pc = "state"
             /\ \E s \in Todo(i) : s.op = "replace" /\ s.path = Sidecar
    BY <1>2, <2>4
  <2> QED BY <2>1, <2>2, <2>3, <2>4 DEF Leads
<1>7. Completes(i)'
  <2> SUFFICES ASSUME inv[i].pc = "done", NEW p \in Files
               PROVE  Ready(i, p)' \/ Promised(i, p)'
    BY <1>1 DEF Completes
  <2>1. Ready(i, p) \/ Promised(i, p)
    BY DEF AloneInv, Completes
  <2>2. CASE Ready(i, p)
    BY <2>2
  <2>3. CASE Promised(i, p)
    <3>1. PICK s \in Todo(i) : Settles(s) /\ s.path = p
      BY <2>3 DEF Promised
    <3>2. CASE s \in Rest(i)
      BY <1>1, <3>1, <3>2 DEF Promised
    <3>3. CASE s = Due(i)
      BY <1>1, <3>1, <3>3 DEF Promised
    <3> QED BY <1>2, <3>2, <3>3
  <2> QED BY <2>1, <2>2, <2>3
<1>8. \A s \in Todo(i)' : Means(i, s)'
  BY <1>1, <1>4
<1> QED BY <1>5, <1>6, <1>7, <1>8, AloneOne

(* The same when nothing is written. *)
LEMMA AlonePlans ==
  ASSUME Alone, AloneInv, TypeInv', NEW i \in Invocations, NEW more, Continued(i, more),
         ledger' = ledger, disk' = disk,
         \A s \in more : Means(i, s)' /\ (Writes(s) => s.path # ReportJson),
         ~(Due(i).op = "replace"),
         inv[i].pc = "done" /\ Settles(Due(i)) =>
           \/ Ready(i, Due(i).path)
           \/ \E s \in more : Settles(s) /\ s.path = Due(i).path
  PROVE  AloneInv'
<1>1. /\ NotesIn(disk'.seen) \subseteq NotesIn(disk'.kept)
      /\ NotesIn(disk'.seen) = NotesIn(disk.seen)
      /\ Seen(Sidecar)' = Seen(Sidecar) /\ Seen(ReportJson)' = Seen(ReportJson)
  BY SameDisk
<1>2. \A p \in Files : Ready(i, p) => Ready(i, p)'
  <2>1. RunOf(i)' = RunOf(i) /\ inv'[i].id = inv[i].id
    BY SameRun DEF Continued, Moves
  <2>2. \A p : Seen(p)' = Seen(p)
    BY SameDisk
  <2> QED BY <2>1, <2>2, ReadySame
<1>3. inv[i].pc = "done" =>
        /\ \A p \in Files : Ready(i, p) => Ready(i, p)'
        /\ \A p \in Files : Settles(Due(i)) /\ Due(i).path = p =>
             Ready(i, p)' \/ \E s \in more : Settles(s) /\ s.path = p
  BY <1>2
<1> QED BY <1>1, <1>3, AloneContinues

(* The same when the step before it writes its file. *)
LEMMA AloneWrites ==
  ASSUME Alone, AloneInv, TypeInv', NEW i \in Invocations, Continued(i, {}), ledger' = ledger,
         Writes(Due(i)), Due(i).path \in Files, Due(i).content \in Fits(Due(i).path),
         Wrote(Due(i).path, Due(i).content),
         Due(i).op = "link" => Seen(Due(i).path) = None
  PROVE  /\ AloneInv'
         /\ ~inv[i].replace => NotesIn(disk.seen) \subseteq NotesIn(disk'.seen)
<1>0. PICK p \in Files, c \in Fits(Due(i).path) : p = Due(i).path /\ c = Due(i).content
  OBVIOUS
<1>1. TypeInv /\ inv[i].todo # << >> /\ Due(i) \in Todo(i) /\ Means(i, Due(i)) /\ MayDo(i, Due(i))
  <2>1. TypeInv /\ inv[i].todo # << >>
    BY DEF AloneInv, Continued
  <2>2. Due(i) \in Todo(i)
    BY <2>1, InvFields
  <2> QED BY <2>1, <2>2 DEF AloneInv, TypeInv
<1>2. /\ disk'.kept = disk.kept /\ Seen(p)' = c /\ \A q : q # p => Seen(q)' = Seen(q)
      /\ NotesIn(disk'.seen) = IF p = Review THEN c.notes ELSE NotesIn(disk.seen)
      /\ NotesIn(disk.seen) \subseteq NotesIn(disk.kept)
  BY <1>0 DEF Wrote, AloneInv
<1>3. c # None
  BY <1>0, FileKinds
<1>4. p = Review => c.notes = IF Due(i).op = "link" \/ inv[i].replace THEN {}
                              ELSE NotesIn(disk.seen)
  BY <1>0, <1>1 DEF Means
<1>5. Due(i).op = "link" /\ p = Review => NotesIn(disk.seen) = {}
  BY <1>0, <1>1, NotesSeen DEF TypeInv
<1>6. p = Sidecar => c = IdentityRecord(inv[i].id)
  BY <1>0, <1>1 DEF Means
<1>7. RunOf(i)' = RunOf(i) /\ inv'[i].id = inv[i].id
  BY SameRun DEF Continued, Moves
<1>8. NotesIn(disk'.seen) \subseteq NotesIn(disk'.kept)
  BY <1>2, <1>4
<1>9. inv[i].replace \/ NotesIn(disk'.seen) = NotesIn(disk.seen)
  BY <1>2, <1>4, <1>5
<1>10. Seen(Sidecar)' = Seen(Sidecar) \/ Seen(Sidecar)' = IdentityRecord(inv[i].id)
  BY <1>2, <1>6
<1>11. Seen(ReportJson) # None => Seen(ReportJson)' # None
  BY <1>2, <1>3
<1>12. p = Sidecar => Seen(Sidecar)' = IdentityRecord(inv[i].id)
  BY <1>2, <1>6
<1>13. ASSUME inv[i].pc = "done"
       PROVE  Ready(i, p)'
  <2>1. CASE p = Sidecar
    BY <1>6, <1>7, <1>2, <2>1 DEF Ready
  <2>2. CASE p # Sidecar
    <3>1. c.run = RunOf(i)
      BY <1>0, <1>1, <1>13, <2>2 DEF Means
    <3>2. Seen(p)' = c /\ RunOf(i)' = RunOf(i)
      BY <1>2, <1>7
    <3>3. Describes(p, RunOf(i))'
      BY <1>3, <3>1, <3>2 DEF Describes
    <3> QED BY <2>2, <3>3 DEF Ready
  <2> QED BY <2>1, <2>2
<1>14. ASSUME inv[i].pc = "done", NEW q \in Files, Ready(i, q)
       PROVE  Ready(i, q)'
  <2>1. CASE q = p
    BY <1>13, <1>14, <2>1
  <2>2. CASE q # p
    BY <1>2, <1>7, <1>14, <2>2, ReadySame
  <2> QED BY <2>1, <2>2
<1>15. AloneInv'
  <2>1. /\ inv[i].pc = "done" =>
             /\ \A q \in Files : Ready(i, q) => Ready(i, q)'
             /\ \A q \in Files : Settles(Due(i)) /\ Due(i).path = q => Ready(i, q)'
        /\ Due(i).op = "replace" /\ Due(i).path = Sidecar =>
             Seen(Sidecar)' = IdentityRecord(inv[i].id)
    BY <1>0, <1>12, <1>13, <1>14
  <2> QED BY <1>8, <1>9, <1>10, <1>11, <2>1, AloneContinues
<1> QED BY <1>9, <1>15

-----------------------------------------------------------------------------
(* One invocation after another: every step. *)

LEMMA SyncMeans ==
  ASSUME NEW i \in Invocations
  PROVE  Means(i, Sync)' /\ ~Writes(Sync)
BY StepFields DEF Means, Writes

LEMMA AloneCheckAbsent ==
  ASSUME Alone, AloneInv, TypeInv', NEW i \in Invocations, CheckAbsent(i)
  PROVE  AloneInv'
<1>1. TypeInv /\ disk' = disk /\ ledger' = ledger
  BY DEF AloneInv, CheckAbsent
<1>2. Due(i).op = "absent" /\ (Ended(i) \/ Continued(i, {}))
  BY <1>1, CheckAbsentDoes
<1>3. CASE Ended(i)
  BY <1>1, <1>3, SameDisk, AloneEnds
<1>4. CASE Continued(i, {})
  <2>1. ~Settles(Due(i)) /\ ~(Due(i).op = "replace")
    BY <1>2 DEF Settles
  <2> QED BY <1>1, <1>4, <2>1, AlonePlans
<1> QED BY <1>2, <1>3, <1>4

LEMMA AloneSyncDir ==
  ASSUME Alone, AloneInv, TypeInv', NEW i \in Invocations, SyncDir(i)
  PROVE  AloneInv' /\ NotesIn(disk'.seen) = NotesIn(disk.seen)
<1>1. TypeInv /\ ledger' = ledger
  BY DEF AloneInv, SyncDir
<1>2. Due(i).op = "sync" /\ Continued(i, {}) /\ disk'.seen = disk.seen
      /\ NotesIn(disk'.kept) = NotesIn(disk'.seen)
  BY <1>1, SyncDirDoes
<1>3. \A q : Seen(q)' = Seen(q)
  BY <1>2 DEF Seen
<1>4. NotesIn(disk'.seen) = NotesIn(disk.seen)
  BY <1>2
<1>5. \A p \in Files : Ready(i, p) => Ready(i, p)'
  <2>1. RunOf(i)' = RunOf(i) /\ inv'[i].id = inv[i].id
    BY <1>1, <1>2, SameRun DEF Continued, Moves
  <2> QED BY <1>3, <2>1, ReadySame
<1>6. ~Settles(Due(i)) /\ ~(Due(i).op = "replace")
  BY <1>2 DEF Settles
<1>7. /\ NotesIn(disk'.seen) \subseteq NotesIn(disk'.kept)
      /\ Seen(Sidecar)' = Seen(Sidecar) /\ Seen(ReportJson)' = Seen(ReportJson)
  BY <1>2, <1>3
<1>8. AloneInv'
  BY <1>1, <1>2, <1>4, <1>5, <1>6, <1>7, AloneContinues
<1> QED BY <1>4, <1>8

LEMMA AloneInstall ==
  ASSUME Alone, AloneInv, TypeInv', NEW i \in Invocations, Install(i) \/ InstallNew(i)
  PROVE  AloneInv' /\ (~inv[i].replace => NotesIn(disk.seen) \subseteq NotesIn(disk'.seen))
<1>1. TypeInv
  BY DEF AloneInv
<1>2. CASE Install(i)
  <2>1. ledger' = ledger
    BY <1>2 DEF Install
  <2>2. /\ Due(i).op = "replace" /\ Writes(Due(i)) /\ Continued(i, {})
        /\ Due(i).path \in Files /\ Due(i).content \in Fits(Due(i).path)
        /\ Wrote(Due(i).path, Due(i).content)
    BY <1>1, <1>2, InstallDoes
  <2> QED BY <2>1, <2>2, AloneWrites
<1>3. CASE InstallNew(i)
  <2>1. ledger' = ledger
    BY <1>3 DEF InstallNew
  <2>2. /\ inv[i].todo # << >> /\ Due(i).op = "link" /\ Writes(Due(i))
        /\ Due(i).path \in Files /\ Due(i).content \in Fits(Due(i).path)
        /\ \/ /\ Seen(Due(i).path) = None /\ Wrote(Due(i).path, Due(i).content)
              /\ Continued(i, {})
           \/ disk' = disk /\ Abandons(i)
    BY <1>1, <1>3, InstallNewDoes
  <2>3. CASE disk' = disk /\ Abandons(i)
    BY <2>2, <2>3, SameDisk, AloneAbandons
  <2>4. CASE /\ Seen(Due(i).path) = None /\ Wrote(Due(i).path, Due(i).content)
             /\ Continued(i, {})
    BY <2>1, <2>2, <2>4, AloneWrites
  <2> QED BY <2>2, <2>3, <2>4
<1> QED BY <1>2, <1>3

LEMMA AloneRepair ==
  ASSUME Alone, AloneInv, TypeInv', NEW i \in Invocations, Repair(i)
  PROVE  AloneInv'
<1>1. TypeInv /\ disk' = disk /\ ledger' = ledger
  BY DEF AloneInv, Repair
<1>2. PICK p \in {Summary, ReportCsv}, c \in Documents :
        /\ p = Due(i).path /\ c = Due(i).content
        /\ inv[i].todo # << >> /\ Due(i).op = "canonical"
        /\ \/ /\ Seen(p) # None /\ Seen(p).run = c.run /\ Continued(i, {})
           \/ Continued(i, {Replace(p, c), Sync})
  BY <1>1, RepairDoes
<1>3. p \in Files /\ p # Sidecar /\ p # ReportJson /\ p # Review
  BY FilesDiffer DEF Files
<1>4. inv[i].pc = "done" => c.run = RunOf(i)
  <2>1. Means(i, Due(i))
    BY <1>1, <1>2, InvFields DEF AloneInv
  <2> QED BY <1>2, <1>3, <2>1 DEF Means
<1>5. CASE /\ Seen(p) # None /\ Seen(p).run = c.run /\ Continued(i, {})
  <2>1. inv[i].pc = "done" => Ready(i, Due(i).path)
    BY <1>2, <1>3, <1>4, <1>5 DEF Ready, Describes
  <2>2. ~(Due(i).op = "replace")
    BY <1>2
  <2> QED BY <1>1, <1>5, <2>1, <2>2, AlonePlans
<1>6. CASE Continued(i, {Replace(p, c), Sync})
  <2>1. RunOf(i)' = RunOf(i) /\ inv'[i].pc = inv[i].pc
    BY <1>1, <1>6, SameRun DEF Continued, Moves
  <2>2. Means(i, Replace(p, c))'
    BY <1>3, <1>4, <2>1, StepFields DEF Means
  <2>3. \A s \in {Replace(p, c), Sync} : Means(i, s)' /\ (Writes(s) => s.path # ReportJson)
    BY <1>3, <2>2, SyncMeans, StepFields
  <2>4. \E s \in {Replace(p, c), Sync} : Settles(s) /\ s.path = Due(i).path
    BY <1>2, StepFields DEF Settles
  <2>5. ~(Due(i).op = "replace")
    BY <1>2
  <2> DEFINE more == {Replace(p, c), Sync}
  <2> HIDE DEF more
  <2>6. /\ Continued(i, more)
        /\ \A s \in more : Means(i, s)' /\ (Writes(s) => s.path # ReportJson)
        /\ \E s \in more : Settles(s) /\ s.path = Due(i).path
    BY <1>6, <2>3, <2>4 DEF more
  <2> QED BY <1>1, <2>5, <2>6, AlonePlans
<1> QED BY <1>2, <1>5, <1>6

LEMMA AloneMerge ==
  ASSUME Alone, AloneInv, TypeInv', NEW i \in Invocations, MergeReview(i)
  PROVE  AloneInv'
<1>1. TypeInv /\ disk' = disk /\ ledger' = ledger
  BY DEF AloneInv, MergeReview
<1>2. /\ inv[i].todo # << >> /\ Due(i).op = "merge" /\ Due(i).path = Review
      /\ \E merged \in Reviews :
           /\ merged.run = Due(i).content /\ merged.notes = NotesIn(disk.seen)
           /\ \/ Seen(Review) = merged /\ Continued(i, {})
              \/ Continued(i, {Replace(Review, merged), Sync})
  BY <1>1, MergeReviewDoes
<1>3. PICK merged \in Reviews :
        /\ merged.run = Due(i).content /\ merged.notes = NotesIn(disk.seen)
        /\ \/ Seen(Review) = merged /\ Continued(i, {})
           \/ Continued(i, {Replace(Review, merged), Sync})
  BY <1>2
<1>4. Review # Sidecar /\ Review # ReportJson /\ Review \in Files
  BY FilesDiffer DEF Files
<1>5. Means(i, Due(i)) /\ MayDo(i, Due(i))
  BY <1>1, <1>2, InvFields DEF AloneInv, TypeInv
<1>6. inv[i].pc = "done" => merged.run = RunOf(i)
  BY <1>2, <1>3, <1>4, <1>5 DEF Means
<1>7. ~inv[i].replace
  BY <1>2, <1>5 DEF MayDo
<1>8. ~(Due(i).op = "replace")
  BY <1>2
<1>9. CASE Seen(Review) = merged /\ Continued(i, {})
  <2>1. merged # None
    BY <1>4, FileKinds, FilesDiffer DEF Fits
  <2>2. inv[i].pc = "done" => Ready(i, Due(i).path)
    BY <1>2, <1>4, <1>6, <1>9, <2>1 DEF Ready, Describes
  <2> QED BY <1>1, <1>8, <1>9, <2>2, AlonePlans
<1>10. CASE Continued(i, {Replace(Review, merged), Sync})
  <2>1. /\ RunOf(i)' = RunOf(i) /\ inv'[i].pc = inv[i].pc /\ inv'[i].replace = inv[i].replace
        /\ NotesIn(disk'.seen) = NotesIn(disk.seen)
    BY <1>1, <1>10, SameRun, SameDisk DEF Continued, Moves
  <2>2. Means(i, Replace(Review, merged))'
    BY <1>3, <1>4, <1>6, <1>7, <2>1, StepFields DEF Means
  <2>3. \A s \in {Replace(Review, merged), Sync} :
          Means(i, s)' /\ (Writes(s) => s.path # ReportJson)
    BY <1>4, <2>2, SyncMeans, StepFields
  <2>4. \E s \in {Replace(Review, merged), Sync} : Settles(s) /\ s.path = Due(i).path
    BY <1>2, StepFields DEF Settles
  <2> DEFINE more == {Replace(Review, merged), Sync}
  <2> HIDE DEF more
  <2>5. /\ Continued(i, more)
        /\ \A s \in more : Means(i, s)' /\ (Writes(s) => s.path # ReportJson)
        /\ \E s \in more : Settles(s) /\ s.path = Due(i).path
    BY <1>10, <2>3, <2>4 DEF more
  <2> QED BY <1>1, <1>8, <2>5, AlonePlans
<1> QED BY <1>3, <1>9, <1>10

LEMMA SidecarMeans ==
  ASSUME NEW i \in Invocations, inv'[i].id = inv[i].id
  PROVE  \A s \in {Replace(Sidecar, IdentityRecord(inv[i].id)), Sync} :
           Means(i, s)' /\ (Writes(s) => s.path # ReportJson)
<1>1. PICK c : c = IdentityRecord(inv[i].id)
  OBVIOUS
<1>2. c = IdentityRecord(inv'[i].id)
  BY <1>1
<1>3. Means(i, Replace(Sidecar, c))'
  BY <1>2, StepFields, FilesDiffer DEF Means
<1> QED BY <1>1, <1>3, SyncMeans, StepFields, FilesDiffer

LEMMA AloneOwnIdentity ==
  ASSUME Alone, AloneInv, TypeInv', NEW i \in Invocations, OwnIdentity(i)
  PROVE  AloneInv'
<1>1. TypeInv /\ disk' = disk /\ ledger' = ledger
  BY DEF AloneInv, OwnIdentity
<1>2. /\ inv[i].todo # << >> /\ Due(i).op = "sidecar" /\ Due(i).path = Sidecar
      /\ \/ Seen(Sidecar) = IdentityRecord(inv[i].id) /\ Continued(i, {})
         \/ Continued(i, {Replace(Sidecar, IdentityRecord(inv[i].id)), Sync})
  BY <1>1, OwnIdentityDoes
<1>3. ~(Due(i).op = "replace")
  BY <1>2
<1>4. CASE Seen(Sidecar) = IdentityRecord(inv[i].id) /\ Continued(i, {})
  <2>1. Ready(i, Due(i).path)
    BY <1>2, <1>4 DEF Ready
  <2> QED BY <1>1, <1>3, <1>4, <2>1, AlonePlans
<1>5. CASE Continued(i, {Replace(Sidecar, IdentityRecord(inv[i].id)), Sync})
  <2>1. PICK more : more = {Replace(Sidecar, IdentityRecord(inv[i].id)), Sync}
    OBVIOUS
  <2>2. Continued(i, more) /\ inv'[i].id = inv[i].id
    BY <1>5, <2>1 DEF Continued, Moves
  <2>3. \A s \in more : Means(i, s)' /\ (Writes(s) => s.path # ReportJson)
    BY <2>1, <2>2, SidecarMeans
  <2>4. \E s \in more : Settles(s) /\ s.path = Due(i).path
    BY <1>2, <2>1, StepFields DEF Settles
  <2> QED BY <1>1, <1>3, <2>2, <2>3, <2>4, AlonePlans
<1> QED BY <1>2, <1>4, <1>5

LEMMA AloneInspect ==
  ASSUME Alone, AloneInv, TypeInv', NEW i \in Invocations, InspectOwn(i)
  PROVE  AloneInv'
<1>1. TypeInv /\ disk' = disk /\ ledger' = ledger
  BY DEF AloneInv, InspectOwn
<1>2. Due(i).op = "inspect" /\ (Ended(i) \/ Continued(i, {Unlink}))
  BY <1>1, InspectOwnDoes
<1>3. CASE Ended(i)
  BY <1>1, <1>3, SameDisk, AloneEnds
<1>4. CASE Continued(i, {Unlink})
  <2>1. PICK more : more = {Unlink}
    OBVIOUS
  <2>2. Means(i, Unlink)' /\ ~Writes(Unlink)
    BY StepFields DEF Means, Writes
  <2>3. ~Settles(Due(i)) /\ ~(Due(i).op = "replace")
    BY <1>2 DEF Settles
  <2>4. Continued(i, more) /\ \A s \in more : Means(i, s)' /\ (Writes(s) => s.path # ReportJson)
    BY <1>4, <2>1, <2>2
  <2> QED BY <1>1, <2>3, <2>4, AlonePlans
<1> QED BY <1>2, <1>3, <1>4

LEMMA AloneTakeBack ==
  ASSUME Alone, AloneInv, TypeInv', NEW i \in Invocations, TakeBack(i)
  PROVE  AloneInv' /\ NotesIn(disk'.seen) = NotesIn(disk.seen)
<1>1. /\ Ended(i) /\ disk'.kept = disk.kept
      /\ NotesIn(disk'.seen) = NotesIn(disk.seen)
      /\ NotesIn(disk.seen) \subseteq NotesIn(disk.kept)
  BY TakeBackDoes DEF AloneInv
<1> QED BY <1>1, AloneEnds

LEMMA AloneEarly ==
  ASSUME Alone, AloneInv, TypeInv', NEW i \in Invocations, Start(i) \/ ReadSidecar(i)
  PROVE  AloneInv'
<1>1. TypeInv /\ disk' = disk
  BY DEF AloneInv, Start, ReadSidecar
<1>2. CASE Start(i)
  <2>1. Todo(i)' = {} /\ inv'[i].pc = "sidecar"
    BY <1>1, <1>2, StartDoes
  <2>2. Looked(i)' /\ Leads(i)' /\ Completes(i)'
    BY <2>1 DEF Looked, Leads, Completes
  <2> QED BY <1>1, <2>1, <2>2, SameDisk, AloneOne
<1>3. CASE ReadSidecar(i)
  <2>1. Todo(i)' = {} /\ inv'[i].pc = "identity" /\ inv'[i].look = Seen(Sidecar)
    BY <1>1, <1>3, ReadSidecarDoes DEF Moves
  <2>2. Seen(Sidecar)' = Seen(Sidecar)
    BY <1>1, SameDisk
  <2>3. Looked(i)' /\ Leads(i)' /\ Completes(i)'
    BY <2>1, <2>2 DEF Looked, Leads, Completes
  <2> QED BY <1>1, <2>1, <2>3, SameDisk, AloneOne
<1> QED BY <1>2, <1>3

(* The record is there, is next, or the report of this run came before it. *)
LEMMA AloneEstablish ==
  ASSUME Alone, AloneInv, TypeInv', NEW i \in Invocations, Establish(i)
  PROVE  AloneInv'
<1>1. TypeInv /\ disk' = disk /\ Looked(i)
  BY DEF AloneInv, Establish
<1>2. /\ inv[i].pc = "identity"
      /\ \/ Ended(i)
         \/ Moves(i, "state", {Replace(Sidecar, IdentityRecord(inv[i].id)), Sync})
         \/ Moves(i, "state", {}) /\ inv[i].look = IdentityRecord(inv[i].id)
         \/ Moves(i, "state", {}) /\ ~inv[i].replace /\ Seen(ReportJson) # None
  BY <1>1, EstablishDoes
<1>3. Seen(Sidecar)' = Seen(Sidecar) /\ Seen(ReportJson)' = Seen(ReportJson)
  BY <1>1, SameDisk
<1>4. CASE Ended(i)
  BY <1>4, <1>1, SameDisk, AloneEnds
<1>5. CASE Moves(i, "state", {Replace(Sidecar, IdentityRecord(inv[i].id)), Sync})
  <2>1. PICK more : more = {Replace(Sidecar, IdentityRecord(inv[i].id)), Sync}
    OBVIOUS
  <2>2. Todo(i)' = more /\ inv'[i].pc = "state" /\ inv'[i].id = inv[i].id
    BY <1>5, <2>1 DEF Moves
  <2>3. \A s \in Todo(i)' : Means(i, s)'
    BY <2>1, <2>2, SidecarMeans
  <2>4. \E s \in more : s.op = "replace" /\ s.path = Sidecar
    BY <2>1, StepFields
  <2>5. Looked(i)' /\ Leads(i)' /\ Completes(i)'
    BY <2>2, <2>4 DEF Looked, Leads, Completes
  <2> QED BY <1>1, <2>3, <2>5, SameDisk, AloneOne
<1>6. CASE /\ Moves(i, "state", {})
           /\ \/ inv[i].look = IdentityRecord(inv[i].id)
              \/ ~inv[i].replace /\ Seen(ReportJson) # None
  <2>1. /\ Todo(i)' = {} /\ inv'[i].pc = "state" /\ inv'[i].id = inv[i].id
        /\ inv'[i].replace = inv[i].replace
    BY <1>6 DEF Moves
  <2>2. inv[i].look = Seen(Sidecar)
    BY <1>1, <1>2 DEF Looked
  <2>3. Leads(i)'
    BY <1>3, <1>6, <2>1, <2>2 DEF Leads
  <2>4. Looked(i)' /\ Completes(i)'
    BY <2>1 DEF Looked, Completes
  <2> QED BY <1>1, <2>1, <2>3, <2>4, SameDisk, AloneOne
<1> QED BY <1>2, <1>4, <1>5, <1>6

LEMMA AloneMeasures ==
  ASSUME Alone, AloneInv, TypeInv', NEW i \in Invocations, OpenState(i) \/ Measure(i)
  PROVE  AloneInv'
<1>1. TypeInv /\ disk' = disk /\ Leads(i)
  BY DEF AloneInv, OpenState, Measure
<1>2. /\ inv[i].pc \in {"state", "measure"} /\ Todo(i) = {}
      /\ Ended(i) \/ Moves(i, "measure", {}) \/ Moves(i, "publish", {})
  BY <1>1, OpenStateDoes, MeasureDoes
<1>3. CASE Ended(i)
  BY <1>1, <1>3, SameDisk, AloneEnds
<1>4. CASE Moves(i, "measure", {}) \/ Moves(i, "publish", {})
  <2>1. /\ Todo(i)' = {} /\ inv'[i].pc \in {"measure", "publish"} /\ inv'[i].id = inv[i].id
        /\ inv'[i].replace = inv[i].replace
    BY <1>4 DEF Moves
  <2>2. Seen(Sidecar)' = Seen(Sidecar) /\ Seen(ReportJson)' = Seen(ReportJson)
    BY <1>1, SameDisk
  <2>3. Leads(i)'
    BY <1>1, <1>2, <2>1, <2>2 DEF Leads
  <2>4. Looked(i)' /\ Completes(i)'
    BY <2>1 DEF Looked, Completes
  <2> QED BY <1>1, <2>1, <2>3, <2>4, SameDisk, AloneOne
<1> QED BY <1>2, <1>3, <1>4

(* Of a fresh publication each step writes this run, and each file has one. *)
LEMMA FreshMeans ==
  ASSUME TypeInv, NEW i \in Invocations, inv[i].pc = "publish", NEW s \in FreshSteps(i)
  PROVE  /\ s.path # Sidecar /\ (Writes(s) \/ s.op = "canonical") => s.content.run = RunOf(i)
         /\ s.op # "merge"
         /\ Writes(s) => s.path # Sidecar
         /\ Writes(s) /\ s.path = Review =>
              s.content.notes = {} /\ (s.op = "link" \/ inv[i].replace)
<1>1. PICK run, doc, fresh :
        /\ run = RunOf(i) /\ doc = Document(RunOf(i), i) /\ fresh = ReviewOf(RunOf(i), {}, TRUE)
  OBVIOUS
<1>2. doc.run = run /\ fresh.run = run /\ fresh.notes = {}
  BY <1>1, Reported
<1>3. \/ s \in {Sync, OwnSidecar, Absent(ReportJson), Absent(ReportCsv)}
      \/ s = Canonical(Summary, doc)
      \/ s \in {Replace(ReportJson, doc), Replace(ReportCsv, doc), Link(ReportJson, doc),
                Link(ReportCsv, doc)}
      \/ s = Replace(Review, fresh) /\ inv[i].replace
      \/ s = Link(Review, fresh)
  BY <1>1 DEF FreshSteps
<1>4. CASE s \in {Sync, OwnSidecar, Absent(ReportJson), Absent(ReportCsv)}
  BY <1>4, StepFields DEF Writes
<1>5. CASE s = Canonical(Summary, doc)
  BY <1>1, <1>2, <1>5, StepFields DEF Writes
<1>6. CASE s \in {Replace(ReportJson, doc), Replace(ReportCsv, doc), Link(ReportJson, doc),
                  Link(ReportCsv, doc)}
  <2>1. s.content = doc /\ s.op # "merge" /\ s.path \in {ReportJson, ReportCsv}
    BY <1>6, StepFields
  <2> QED BY <1>1, <1>2, <2>1, FilesDiffer
<1>7. CASE (s = Replace(Review, fresh) /\ inv[i].replace) \/ s = Link(Review, fresh)
  <2>1. /\ s.content = fresh /\ s.op # "merge" /\ s.path = Review
        /\ s.op = "link" \/ inv[i].replace
    BY <1>7, StepFields
  <2> QED BY <1>1, <1>2, <2>1, FilesDiffer
<1> QED BY <1>3, <1>4, <1>5, <1>6, <1>7

LEMMA FreshPromises ==
  ASSUME NEW i \in Invocations, NEW p \in Files
  PROVE  \E s \in FreshSteps(i) : Settles(s) /\ s.path = p
<1>1. PICK doc, fresh, made :
        /\ doc = Document(RunOf(i), i) /\ fresh = ReviewOf(RunOf(i), {}, TRUE)
        /\ made = FreshSteps(i)
  OBVIOUS
<1>2. Canonical(Summary, doc) \in made /\ OwnSidecar \in made
  BY <1>1 DEF FreshSteps
<1>3. /\ Replace(ReportJson, doc) \in made \/ Link(ReportJson, doc) \in made
      /\ Replace(ReportCsv, doc) \in made \/ Link(ReportCsv, doc) \in made
      /\ Replace(Review, fresh) \in made \/ Link(Review, fresh) \in made
  BY <1>1 DEF FreshSteps
<1>4. \E s \in made : Settles(s) /\ s.path = p
  BY <1>2, <1>3, StepFields DEF Settles, Files
<1> QED BY <1>1, <1>4

LEMMA AlonePublish ==
  ASSUME Alone, AloneInv, TypeInv', NEW i \in Invocations, Publish(i)
  PROVE  AloneInv'
<1>1. TypeInv /\ disk' = disk /\ ledger' = ledger /\ Leads(i)
  BY DEF AloneInv, Publish
<1>2. PICK made, reused, run, doc :
        /\ made = FreshSteps(i) /\ run = RunOf(i) /\ doc = Document(RunOf(i), i)
        /\ reused = {Canonical(Summary, doc), Canonical(ReportCsv, doc), Merge(run), OwnSidecar}
  OBVIOUS
<1>3. /\ inv[i].pc = "publish" /\ Todo(i) = {}
      /\ \/ Ended(i)
         \/ Moves(i, "done", made) /\ (Seen(ReportJson) = None \/ inv[i].replace)
         \/ /\ Moves(i, "done", reused)
            /\ Seen(ReportJson) # None /\ ~inv[i].replace /\ Seen(ReportJson).run = run
  BY <1>1, <1>2, PublishDoes
<1>4. /\ Seen(Sidecar)' = Seen(Sidecar) /\ Seen(ReportJson)' = Seen(ReportJson)
      /\ NotesIn(disk'.seen) = NotesIn(disk.seen)
      /\ NotesIn(disk'.seen) \subseteq NotesIn(disk'.kept)
  BY <1>1, SameDisk
<1>5. ASSUME NEW steps, Moves(i, "done", steps)
      PROVE  /\ RunOf(i)' = run /\ inv'[i].id = inv[i].id /\ inv'[i].replace = inv[i].replace
             /\ inv'[i].pc = "done" /\ Todo(i)' = steps
  <2>1. /\ inv'[i].pc = "done" /\ inv'[i].id = inv[i].id /\ inv'[i].state = inv[i].state
        /\ inv'[i].replace = inv[i].replace /\ Todo(i)' = steps
    BY <1>5 DEF Moves
  <2> QED BY <1>1, <1>2, <2>1, SameRun
<1>6. CASE Ended(i)
  BY <1>4, <1>6, AloneEnds
<1>7. CASE Moves(i, "done", made) /\ (Seen(ReportJson) = None \/ inv[i].replace)
  <2>1. /\ RunOf(i)' = run /\ inv'[i].id = inv[i].id /\ inv'[i].replace = inv[i].replace
        /\ inv'[i].pc = "done" /\ Todo(i)' = made
    BY <1>5, <1>7
  <2>2. ASSUME NEW s \in made
        PROVE  Means(i, s)'
    <3>1. /\ s.path # Sidecar /\ (Writes(s) \/ s.op = "canonical") => s.content.run = run
          /\ s.op # "merge"
          /\ Writes(s) => s.path # Sidecar
          /\ Writes(s) /\ s.path = Review =>
               s.content.notes = {} /\ (s.op = "link" \/ inv[i].replace)
      BY <1>1, <1>2, <1>3, <2>2, FreshMeans
    <3> QED BY <2>1, <3>1 DEF Means
  <2>3. Seen(Sidecar) = IdentityRecord(inv[i].id)
    BY <1>1, <1>3, <1>7 DEF Leads
  <2>4. Leads(i)'
    BY <1>4, <2>1, <2>3 DEF Leads
  <2>5. \A p \in Files : Promised(i, p)'
    <3>1. \A p \in Files : \E s \in made : Settles(s) /\ s.path = p
      BY <1>2, FreshPromises
    <3> QED BY <2>1, <3>1 DEF Promised
  <2>6. Looked(i)' /\ Completes(i)'
    BY <2>1, <2>5 DEF Looked, Completes
  <2> QED BY <1>4, <2>1, <2>2, <2>4, <2>6, AloneOne
<1>8. CASE /\ Moves(i, "done", reused)
           /\ Seen(ReportJson) # None /\ ~inv[i].replace /\ Seen(ReportJson).run = run
  <2>1. /\ RunOf(i)' = run /\ inv'[i].id = inv[i].id /\ inv'[i].replace = inv[i].replace
        /\ inv'[i].pc = "done" /\ Todo(i)' = reused
    BY <1>5, <1>8
  <2>2. doc.run = run
    BY <1>1, <1>2, <1>3, Reported
  <2>3. \A s \in reused :
          /\ ~Writes(s)
          /\ s.op = "canonical" => s.content.run = run
          /\ s.op = "merge" => s.content = run
    BY <1>2, <2>2, StepFields DEF Writes
  <2>4. \A s \in Todo(i)' : Means(i, s)'
    BY <2>1, <2>3 DEF Means
  <2>5. Leads(i)'
    BY <1>1, <1>3, <1>4, <1>8, <2>1, <2>3 DEF Leads
  <2>6. /\ Ready(i, ReportJson)'
        /\ \A p \in {Sidecar, ReportCsv, Summary, Review} :
             \E s \in reused : Settles(s) /\ s.path = p
    <3>1. Ready(i, ReportJson)'
      BY <1>4, <1>8, <2>1, FilesDiffer DEF Ready, Describes
    <3> QED BY <1>2, <3>1, StepFields DEF Settles
  <2>7. Completes(i)'
    BY <2>1, <2>6 DEF Completes, Promised, Files
  <2>8. Looked(i)'
    BY <2>1 DEF Looked
  <2> QED BY <1>4, <2>4, <2>5, <2>7, <2>8, AloneOne
<1> QED BY <1>3, <1>6, <1>7, <1>8

LEMMA AloneWork ==
  ASSUME Alone, AloneInv, TypeInv', NEW i \in Invocations, Work(i)
  PROVE  AloneInv' /\ (~inv[i].replace => NotesIn(disk.seen) \subseteq NotesIn(disk'.seen))
<1>1. TypeInv
  BY DEF AloneInv
<1>2. disk' = disk => NotesIn(disk.seen) \subseteq NotesIn(disk'.seen)
  OBVIOUS
<1>3. CASE Start(i) \/ ReadSidecar(i)
  BY <1>2, <1>3, AloneEarly DEF Start, ReadSidecar
<1>4. CASE Establish(i)
  BY <1>2, <1>4, AloneEstablish DEF Establish
<1>5. CASE OpenState(i) \/ Measure(i)
  BY <1>2, <1>5, AloneMeasures DEF OpenState, Measure
<1>6. CASE Publish(i)
  BY <1>2, <1>6, AlonePublish DEF Publish
<1>7. CASE Finish(i)
  <2>1. Ended(i) /\ disk' = disk
    BY <1>1, <1>7, RaisesEnds DEF Finish
  <2> QED BY <1>2, <2>1, SameDisk, AloneEnds
<1>8. CASE CheckAbsent(i)
  BY <1>2, <1>8, AloneCheckAbsent DEF CheckAbsent
<1>9. CASE Install(i) \/ InstallNew(i)
  BY <1>9, AloneInstall
<1>10. CASE SyncDir(i)
  BY <1>10, AloneSyncDir
<1>11. CASE Repair(i)
  BY <1>2, <1>11, AloneRepair DEF Repair
<1>12. CASE MergeReview(i)
  BY <1>2, <1>12, AloneMerge DEF MergeReview
<1>13. CASE OwnIdentity(i)
  BY <1>2, <1>13, AloneOwnIdentity DEF OwnIdentity
<1>14. CASE InspectOwn(i)
  BY <1>2, <1>14, AloneInspect DEF InspectOwn
<1>15. CASE TakeBack(i)
  BY <1>15, AloneTakeBack
<1> QED BY <1>3, <1>4, <1>5, <1>6, <1>7, <1>8, <1>9, <1>10, <1>11, <1>12, <1>13, <1>14, <1>15
        DEF Work, Step

LEMMA AloneNext ==
  ASSUME Alone, AloneInv, [Next]_vars
  PROVE  AloneInv' /\ (NoReplacement => NotesIn(disk.seen) \subseteq NotesIn(disk'.seen))
<1>1. TypeInv /\ TypeInv' /\ NotesIn(disk.seen) \subseteq NotesIn(disk.kept)
  BY TypeNext DEF AloneInv
<1>2. disk' = disk => NotesIn(disk.seen) \subseteq NotesIn(disk'.seen)
  OBVIOUS
<1>3. CASE PowerLoss
  <2>1. disk' \in AfterPowerLoss(disk) /\ DiskFits(disk) /\ \A i \in Invocations : inv'[i] = Off
    BY <1>1, <1>3 DEF PowerLoss, TypeInv
  <2>2. disk'.kept = disk'.seen /\ NotesIn(disk.seen) \subseteq NotesIn(disk'.seen)
    BY <1>1, <2>1, PowerLossTree
  <2>3. NotesIn(disk'.seen) \subseteq NotesIn(disk'.kept)
    BY <2>2
  <2> QED BY <1>1, <2>1, <2>2, <2>3, AloneOff
<1>4. CASE Annotate
  <2>1. /\ \A i \in Invocations : inv'[i] = Off
        /\ NotesIn(disk.seen) \subseteq NotesIn(disk'.seen)
        /\ NotesIn(disk'.seen) \subseteq NotesIn(disk'.kept)
    BY <1>1, <1>4, AnnotateDoes
  <2> QED BY <1>1, <2>1, AloneOff
<1>5. ASSUME NEW i \in Invocations, Work(i)
      PROVE  AloneInv' /\ (~inv[i].replace => NotesIn(disk.seen) \subseteq NotesIn(disk'.seen))
  BY <1>1, <1>5, AloneWork
<1>6. ASSUME NEW i \in Invocations, StepFails(i)
      PROVE  AloneInv' /\ disk' = disk
  BY <1>1, <1>6, AloneAbandons DEF StepFails
<1>7. ASSUME NEW i \in Invocations, Killed(i)
      PROVE  AloneInv' /\ disk' = disk
  <2>1. Ended(i) /\ disk' = disk
    BY <1>1, <1>7, RaisesEnds DEF Killed
  <2> QED BY <1>1, <2>1, SameDisk, AloneEnds
<1>8. CASE UNCHANGED vars
  <2>1. disk' = disk /\ ledger' = ledger /\ inv' = inv
    BY <1>8 DEF vars
  <2>2. ASSUME NEW i \in Invocations
        PROVE  /\ Todo(i)' = Todo(i) /\ RunOf(i)' = RunOf(i)
               /\ \A q : Seen(q)' = Seen(q)
    BY <2>1 DEF Todo, RunOf, Seen
  <2>3. ASSUME NEW i \in Invocations
        PROVE  \A s \in Todo(i)' : Means(i, s)'
    <3>1. \A s \in Todo(i) : Means(i, s)
      BY DEF AloneInv
    <3> QED BY <2>1, <2>2, <3>1 DEF Means
  <2>4. ASSUME NEW i \in Invocations
        PROVE  Looked(i)' /\ Leads(i)'
    <3>1. Looked(i) /\ Leads(i)
      BY DEF AloneInv
    <3> QED BY <2>1, <2>2, <3>1 DEF Looked, Leads
  <2>5. ASSUME NEW i \in Invocations
        PROVE  Completes(i)'
    <3>1. Completes(i)
      BY DEF AloneInv
    <3>2. ASSUME NEW p \in Files
          PROVE  /\ Ready(i, p) => Ready(i, p)'
                 /\ Promised(i, p) => Promised(i, p)'
      BY <2>1, <2>2, ReadySame DEF Promised
    <3> QED BY <2>1, <3>1, <3>2 DEF Completes
  <2>6. AloneInv'
    BY <1>1, <2>1, <2>3, <2>4, <2>5 DEF AloneInv
  <2> QED BY <1>2, <2>1, <2>6
<1> QED BY <1>2, <1>3, <1>4, <1>5, <1>6, <1>7, <1>8 DEF Next, NoReplacement

LEMMA AloneStarts ==
  ASSUME Init
  PROVE  AloneInv
<1>1. TypeInv /\ NotesIn(disk.seen) = {} /\ \A i \in Invocations : inv[i] = Off
  BY InitFits
<1>2. ASSUME NEW i \in Invocations
      PROVE  /\ \A s \in Todo(i) : Means(i, s)
             /\ Looked(i) /\ Leads(i) /\ Completes(i)
  <2>1. inv[i].pc = "off" /\ Todo(i) = {}
    BY <1>1, OffTodo
  <2> QED BY <2>1 DEF Looked, Leads, Completes
<1> QED BY <1>1, <1>2 DEF AloneInv

LEMMA AloneAlways ==
  ASSUME Alone
  PROVE  Spec => []AloneInv
<1>1. Init => AloneInv
  BY AloneStarts
<1>2. AloneInv /\ [Next]_vars => AloneInv'
  BY AloneNext
<1> QED BY <1>1, <1>2, PTL DEF Spec

-----------------------------------------------------------------------------
(* What follows for the outputs of one invocation after another. *)

(* An invocation that has nothing left to do has made every file ready. *)
LEMMA ReadyIsWhole ==
  ASSUME AloneInv
  PROVE  DoneIsWhole
<1>1. SUFFICES ASSUME NEW i \in Invocations, At(i, "done")
               PROVE  WholeOf(RunOf(i))
  BY DEF DoneIsWhole
<1>2. TypeInv /\ Completes(i)
  BY DEF AloneInv
<1>3. inv[i].pc = "done" /\ Todo(i) = {}
  BY <1>1, <1>2, AtIdle
<1>4. \A p \in Files : Ready(i, p)
  BY <1>2, <1>3 DEF Completes, Promised
<1>5. RunOf(i).id = inv[i].id
  BY <1>2, <1>3, Reported
<1>6. Seen(Sidecar) = IdentityRecord(RunOf(i).id)
  BY <1>4, <1>5 DEF Ready, Files
<1>7. \A p \in {ReportJson, ReportCsv, Summary, Review} : Describes(p, RunOf(i))
  BY <1>4, FilesDiffer DEF Ready, Files
<1> QED BY <1>6, <1>7 DEF WholeOf

(* "publish the five operator return files" (run.py:3043): for any           *)
(* identities, state files, results, failures, kills and power losses, an    *)
(* invocation that ends well leaves the identity record and four documents,  *)
(* and they all describe the run of its state file.  One invocation at a     *)
(* time, as in the run that checks it: beside another one it need not hold.  *)
THEOREM DoneWhole ==
  ASSUME \A i, j \in Invocations : i = j
  PROVE  Spec => []DoneIsWhole
<1>1. Alone
  BY DEF Alone
<1>2. AloneInv => DoneIsWhole
  BY ReadyIsWhole
<1> QED BY <1>1, <1>2, AloneAlways, PTL

LEMMA RecordLeads ==
  ASSUME Alone, AloneInv, [Next]_vars, PublishesReport
  PROVE  Seen(Sidecar) = IdentityRecord(Seen(ReportJson)'.run.id)
<1>1. /\ TypeInv /\ trouble' = trouble /\ Seen(ReportJson)' # Seen(ReportJson)
      /\ Seen(ReportJson)' # None
  BY DEF AloneInv, PublishesReport
<1>2. disk' = disk \/ disk'.seen = disk.seen => Seen(ReportJson)' = Seen(ReportJson)
  BY DEF Seen
<1>3. trouble \in 0..MaxTrouble
  BY <1>1 DEF TypeInv
<1>4. ~Annotate
  BY <1>1, AnnotateDoes, FilesDiffer
<1>5. PICK i \in Invocations : Install(i) \/ InstallNew(i)
  <2>1. PICK i \in Invocations : Work(i)
    BY <1>1, <1>2, <1>3, <1>4 DEF Next, PowerLoss, StepFails, Killed, vars
  <2>2. ~TakeBack(i)
    BY <1>1, TakeBackDoes
  <2>3. ~SyncDir(i)
    BY <1>1, <1>2, SyncDirDoes
  <2> QED BY <1>1, <1>2, <2>1, <2>2, <2>3 DEF Work, Step, Start, ReadSidecar, Establish, OpenState,
           Measure, Publish, Finish, CheckAbsent, Repair, MergeReview, OwnIdentity, InspectOwn
<1>6. PICK c : /\ inv[i].todo # << >> /\ Writes(Due(i))
               /\ Due(i).path = ReportJson /\ Due(i).content = c
               /\ Seen(ReportJson)' = c
               /\ Due(i).op = "link" => Seen(ReportJson) = None
  BY <1>1, <1>2, <1>5, InstallDoes, InstallNewDoes DEF Wrote
<1>7. Due(i) \in Todo(i) /\ MayDo(i, Due(i)) /\ Means(i, Due(i)) /\ Leads(i)
  BY <1>1, <1>6, InvFields DEF AloneInv, TypeInv
<1>8. inv[i].pc = "done"
  BY <1>6, <1>7 DEF MayDo
<1>9. c.run = RunOf(i)
  BY <1>6, <1>7, <1>8, FilesDiffer DEF Means
<1>10. RunOf(i).id = inv[i].id
  BY <1>1, <1>8, Reported
<1>11. Seen(Sidecar) = IdentityRecord(inv[i].id)
  BY <1>6, <1>7, <1>8 DEF Leads
<1> QED BY <1>6, <1>9, <1>10, <1>11

(* The identity record "can never trail a published report" (run.py:2447):   *)
(* whatever fails in between, and with --replace too, a report is published  *)
(* only while the record names its identity.  One invocation at a time.      *)
THEOREM SidecarLeadsReport ==
  ASSUME \A i, j \in Invocations : i = j
  PROVE  Spec => SidecarLeads
<1>1. Alone
  BY DEF Alone
<1>2. AloneInv /\ [Next]_vars =>
        [PublishesReport => Seen(Sidecar) = IdentityRecord(Seen(ReportJson)'.run.id)]_vars
  BY <1>1, RecordLeads
<1> QED BY <1>1, <1>2, AloneAlways, PTL DEF Spec, SidecarLeads

LEMMA NotesKept ==
  ASSUME Alone, AloneInv, [Next]_vars, NoReplacement, NEW run
  PROVE  KeepsNotes(run)
<1>1. DiskFits(disk) /\ DiskFits(disk)' /\ NotesIn(disk.seen) \subseteq NotesIn(disk'.seen)
  BY AloneNext DEF AloneInv, TypeInv
<1>2. NotesIn(disk.seen) = IF Seen(Review) = None THEN {} ELSE Seen(Review).notes
  BY <1>1, NotesSeen
<1>3. NotesIn(disk'.seen) = IF Seen(Review)' = None THEN {} ELSE Seen(Review)'.notes
  <2>1. Seen(Review)' = IF Review \in DOMAIN disk'.seen THEN disk'.seen[Review] ELSE None
    BY DEF Seen, Exists
  <2>2. Review \in DOMAIN disk'.seen => disk'.seen[Review] # None
    BY <1>1, FileKinds DEF DiskFits, TreeFits
  <2> QED BY <2>1, <2>2 DEF NotesIn
<1> QED BY <1>1, <1>2, <1>3 DEF KeepsNotes

(* The notes a human wrote about the published run stay in review.csv        *)
(* (_merge_review_rows, run.py:2755): through reruns, repairs, failures,     *)
(* kills and power losses, at any point of a publication, unless the         *)
(* operator asks for --replace.  One invocation at a time.                   *)
THEOREM NotesStay ==
  ASSUME \A i, j \in Invocations : i = j
  PROVE  Spec => NotesSurvive
<1>1. Alone
  BY DEF Alone
<1>2. AloneInv /\ [Next]_vars =>
        [NoReplacement /\ Seen(ReportJson) # None => KeepsNotes(Seen(ReportJson).run)]_vars
  BY <1>1, NotesKept
<1> QED BY <1>1, <1>2, AloneAlways, PTL DEF Spec, NotesSurvive
=============================================================================
