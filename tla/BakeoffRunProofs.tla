--------------------------- MODULE BakeoffRunProofs ---------------------------
(***************************************************************************)
(* The resumable run for any plan, any number of runners, failures,        *)
(* crashes and power losses under a durable run root: an entry of the      *)
(* state file that is complete has its evidence in the store, and what is  *)
(* published is whole.  That nobody is shut out of the store holds wherever *)
(* power may fail.                                                         *)
(***************************************************************************)
EXTENDS BakeoffRun, ArtifactStoreProofs

-----------------------------------------------------------------------------
(* The state file is none of the store's entries. *)
Depth(p) == Len(p)
First(p) == p[1]

LEMMA ShortPaths ==
  ASSUME NEW p, Depth(p) = 0 \/ (Depth(p) \in {1, 2} /\ First(p) # "artifacts")
  PROVE  Elsewhere(p)
<1>1. /\ Depth(Root) = 2 /\ Depth(Identity) = 3 /\ Depth(CellsDir) = 3
      /\ Depth(Parent) = 1 /\ First(Root) = "artifacts" /\ First(Parent) = "artifacts"
  BY TopPaths DEF Level, Root, Parent, Depth, First
<1>2. \A c \in Cells, a \in Nat : /\ \A q \in Own(c, a) : Depth(q) \in {6, 7}
                                  /\ \A q \in Dirs(c, a) : Depth(q) \in {4, 5, 6}
                                  /\ Depth(Pointer(c)) = 5
  BY Apart, CellPaths DEF Dirs, Level, Depth
<1>3. p \notin {Parent, Root, Identity, CellsDir}
  BY <1>1
<1>4. \A c \in Cells, a \in Nat : p \notin Own(c, a) /\ p \notin Dirs(c, a) /\ p # Pointer(c)
  BY <1>2
<1> QED BY <1>3, <1>4 DEF Elsewhere

LEMMA StatePaths ==
  /\ Elsewhere(StatePath) /\ Elsewhere(StateDir) /\ StateDir # StatePath
<1>1. CASE StateDir = << >>
  <2>1. StatePath = <<"state">>
    BY <1>1 DEF StatePath
  <2>2. Len(StatePath) = 1 /\ StatePath[1] = "state" /\ Len(StateDir) = 0
    BY <1>1, <2>1
  <2> QED BY <2>2, ShortPaths DEF Depth, First
<1>2. CASE StateDir = <<Head(StateDir)>> /\ Head(StateDir) # "artifacts"
  <2> DEFINE d == Head(StateDir)
  <2>1. StateDir = <<d>> /\ d # "artifacts"
    BY <1>2
  <2> HIDE DEF d
  <2>2. StatePath = <<d>> \o <<"state">>
    BY <2>1 DEF StatePath
  <2> DEFINE S == {d, "state"}
  <2>3. /\ <<d>> \in Seq(S) /\ <<"state">> \in Seq(S)
        /\ Len(<<d>>) = 1 /\ Len(<<"state">>) = 1 /\ <<d>>[1] = d
    OBVIOUS
  <2>4. Len(StatePath) = 2 /\ StatePath[1] = d /\ Len(StateDir) = 1 /\ StateDir[1] = d
    BY <2>1, <2>2, <2>3, ConcatProperties
  <2> QED BY <2>1, <2>4, ShortPaths DEF Depth, First
<1> QED BY <1>1, <1>2, StateDirAssumption

-----------------------------------------------------------------------------
(* The inductive invariant.                                                  *)

(* An entry that is complete names a reference all know, with its result.    *)
GoodEntry(i, entry, refs) ==
  /\ entry.at \in {"pending", "in_progress", "complete"}
  /\ entry.at = "complete" =>
       /\ entry.ref \in refs /\ entry.ref.cell = Plan[i]
       /\ "result" \in DOMAIN entry.ref.sha.files
       /\ entry.ref.sha.files["result"] = Payload(entry.result)

GoodEntries(entries, refs) ==
  /\ entries = [i \in DOMAIN Plan |-> entries[i]]
  /\ \A i \in DOMAIN Plan : GoodEntry(i, entries[i], refs)

(* What is left of a write of the state file. *)
WriteOK(todo, refs) ==
  \/ \E entries : GoodEntries(entries, refs) /\ todo = CreateScript(entries)
  \/ \E entries : GoodEntries(entries, refs) /\ todo = SaveScript(entries)
  \/ todo = <<Sync(StateDir)>>
  \/ todo = << >>

(* A runner x of the loop, with its attempt at and its call k. *)
RunOK(x, at, k, refs) ==
  /\ DOMAIN x = {"pc", "entries", "next", "result", "preview", "confirmed"}
  /\ x.pc \in {"off", "store", "resume", "cell", "measure", "begin", "result", "preview",
               "commit", "complete", "next", "records", "done", "exit"}
  /\ x.next \in 1..Len(Plan) + 1
  /\ x.preview \in BOOLEAN /\ x.confirmed \in Loadings \cup {"none"}
  /\ x.pc = "off" => k.method = "none"
  /\ x.pc # "off" => GoodEntries(x.entries, refs)
  /\ x.pc = "done" => AllComplete(x.entries)
  /\ x.pc \in {"measure", "begin", "result", "preview", "commit", "complete", "next"} =>
       x.next \in DOMAIN Plan
  /\ x.pc \in {"begin", "result", "preview", "commit"} => x.result \in Payloads
  /\ x.pc = "complete" => at # NoAttempt /\ (k.method = "commit" \/ at.ref # NoRef)
  /\ k.method \in {"create", "save"} => WriteOK(k.todo, refs)

(* A process goes on only with a state file, which its successors find too.  *)
Started(d, x, k) ==
  \/ x.pc \in {"off", "exit"}
  \/ StatePath \in DOMAIN d.seen
  \/ x.pc = "store" /\ k.method = "create" /\ \E entries : k.todo = CreateScript(entries)

StateOK(d, refs) ==
  /\ StatePath \in DOMAIN d.seen => GoodEntries(d.seen[StatePath].entries, refs)
  /\ StatePath \in DOMAIN d.kept => GoodEntries(d.kept[StatePath].entries, refs)

RInv ==
  /\ IInv
  /\ machine \in Loadings
  /\ StateOK(disk, known)
  /\ run = [r \in Runners |-> run[r]]
  /\ \A r \in Runners : /\ RunOK(run[r], attempt[r], call[r], known)
                        /\ Started(disk, run[r], call[r])

-----------------------------------------------------------------------------
LEMMA MoreEntries ==
  ASSUME NEW entries, NEW refs, NEW more, GoodEntries(entries, refs), refs \subseteq more
  PROVE  GoodEntries(entries, more)
BY DEF GoodEntries, GoodEntry

LEMMA MoreWrites ==
  ASSUME NEW todo, NEW refs, NEW more, WriteOK(todo, refs), refs \subseteq more
  PROVE  WriteOK(todo, more)
<1>1. CASE \E entries : GoodEntries(entries, refs) /\ todo = CreateScript(entries)
  BY <1>1, MoreEntries DEF WriteOK
<1>2. CASE \E entries : GoodEntries(entries, refs) /\ todo = SaveScript(entries)
  BY <1>2, MoreEntries DEF WriteOK
<1> QED BY <1>1, <1>2 DEF WriteOK

LEMMA MoreRun ==
  ASSUME NEW x, NEW at, NEW k, NEW refs, NEW more, RunOK(x, at, k, refs), refs \subseteq more
  PROVE  RunOK(x, at, k, more)
BY MoreEntries, MoreWrites DEF RunOK

(* A step of one runner keeps the invariant when it keeps that of the store  *)
(* and that runner's part.                                                   *)
Alone(r) ==
  /\ run' = [q \in Runners |-> run'[q]]
  /\ \A q \in Runners : q # r => /\ run'[q] = run[q]
                                 /\ attempt'[q] = attempt[q]
                                 /\ call'[q] = call[q]

LEMMA RunMoves ==
  ASSUME RInv, NEW r \in Runners, IInv', machine' \in Loadings, known \subseteq known',
         StateOK(disk', known'), DOMAIN disk.seen \subseteq DOMAIN disk'.seen,
         Alone(r), RunOK(run'[r], attempt'[r], call'[r], known'),
         Started(disk', run'[r], call'[r])
  PROVE  RInv'
<1>1. ASSUME NEW q \in Runners, q # r
      PROVE  RunOK(run'[q], attempt'[q], call'[q], known') /\ Started(disk', run'[q], call'[q])
  BY <1>1, MoreRun DEF RInv, Alone, Started
<1> QED BY <1>1 DEF RInv, Alone

(* A step that leaves the files as they are. *)
LEMMA QuietRun ==
  ASSUME RInv, NEW r \in Runners, IInv', machine' \in Loadings, UNCHANGED <<disk, known>>,
         Alone(r), RunOK(run'[r], attempt'[r], call'[r], known'), Started(disk, run'[r], call'[r])
  PROVE  RInv'
<1>1. StateOK(disk', known') /\ DOMAIN disk.seen \subseteq DOMAIN disk'.seen
  BY DEF RInv, StateOK
<1> QED BY <1>1, RunMoves

-----------------------------------------------------------------------------
(* The store in the steps of the run that are none of its own.               *)
LEMMA StoreStutters ==
  ASSUME IInv, UNCHANGED storeVars
  PROVE  IInv'
BY DEF storeVars, IInv, DiskOK, Fresh, Distinct, KnownRef, Sealed,
       AttemptOpen

(* A runner enters a method that is none of the store's.                     *)
LEMMA EntersElsewhere ==
  ASSUME IInv, NEW r \in Runners, Idle(r), NEW method \in {"create", "save"}, NEW script,
         ForeignOK(script), Enters(r, method, script, NoRef),
         UNCHANGED <<disk, lock, store, attempt, begun, known, trouble>>
  PROVE  IInv'
<1>1. call' = [call EXCEPT ![r] = [method |-> method, todo |-> script, answer |-> NoRef]]
  BY DEF Enters
<1>2. OnlyMoves(r) /\ Locks(r)
  BY <1>1 DEF IInv, OnlyMoves, Locks
<1>3. call'[r] = [method |-> method, todo |-> script, answer |-> NoRef]
  BY <1>1 DEF IInv
<1>4. RunnerOK(disk, store[r], attempt[r], call[r], known) /\ call[r].method = "none"
  BY DEF IInv, Idle
<1>5. RunnerOK(disk', store'[r], attempt'[r], call'[r], known')
  BY <1>3, <1>4 DEF RunnerOK
<1>6. Keeps(r)
  BY <1>4, <1>5, SameAttempt
<1> QED BY <1>2, <1>6, QuietMoves, Counters

(* It gives such a method up.                                                *)
LEMMA LeavesElsewhere ==
  ASSUME IInv, NEW r \in Runners, call[r].method \in {"create", "save"},
         call' = [call EXCEPT ![r] = NoCall],
         UNCHANGED <<disk, lock, store, attempt, begun, known, trouble>>
  PROVE  IInv'
<1>1. OnlyMoves(r) /\ Locks(r)
  BY DEF IInv, OnlyMoves, Locks
<1>2. call'[r] = NoCall /\ call'[r].method = "none"
  BY DEF IInv, NoCall
<1>3. RunnerOK(disk, store[r], attempt[r], call[r], known)
  BY DEF IInv
<1>4. RunnerOK(disk', store'[r], attempt'[r], call'[r], known')
  BY <1>2, <1>3 DEF RunnerOK, NoCall
<1>5. Keeps(r)
  BY <1>4, SameAttempt
<1> QED BY <1>1, <1>5, QuietMoves, Counters

-----------------------------------------------------------------------------
(* The steps of a call.                                                      *)

(* Of a write of the state file the rest is always such a rest.              *)
LEMMA WriteGoesOn ==
  ASSUME RInv, NEW r \in Runners, call[r].method \in {"create", "save"}, FileStep(r)
  PROVE  WriteOK(call'[r].todo, known') /\ call'[r].method = call[r].method
<1>1. WriteOK(Todo(r), known) /\ IInv
  BY DEF RInv, RunOK, Todo
<1>2. WriteOK(<<Sync(StateDir)>>, known') /\ WriteOK(<< >>, known')
  BY DEF WriteOK
<1>3. ASSUME NEW entries, Todo(r) = CreateScript(entries)
      PROVE  WriteOK(call'[r].todo, known') /\ call'[r].method = call[r].method
  <2> DEFINE x    == StateFile(entries)
             step == Create(StatePath, x, <<Sync(StateDir)>>)
             next == Sync(StateDir)
  <2>1. Todo(r) = <<step>> /\ step = Create(StatePath, x, <<next>>)
    BY <1>3 DEF CreateScript
  <2> HIDE DEF x, step, next
  <2>2. /\ Todo(r) # << >> /\ Head(Todo(r)) = step
        /\ << >> \o Tail(Todo(r)) = << >> /\ <<next>> \o Tail(Todo(r)) = <<next>>
    BY <2>1
  <2>3. Progress(r, <<next>>) \/ Progress(r, << >>)
    BY <1>1, <2>1, <2>2, CreateStep
  <2> QED BY <1>2, <2>3 DEF Progress, next
<1>4. ASSUME NEW entries, Todo(r) = SaveScript(entries)
      PROVE  WriteOK(call'[r].todo, known') /\ call'[r].method = call[r].method
  <2> DEFINE x    == StateFile(entries)
             step == Replace(StatePath, x)
             next == Sync(StateDir)
  <2>1. Todo(r) = <<step, next>> /\ step = Replace(StatePath, x)
    BY <1>4 DEF SaveScript
  <2> HIDE DEF x, step, next
  <2>2. Todo(r) # << >> /\ Head(Todo(r)) = step /\ << >> \o Tail(Todo(r)) = <<next>>
    BY <2>1
  <2>3. Progress(r, <<next>>)
    BY <1>1, <2>1, <2>2, ReplaceStep
  <2> QED BY <1>2, <2>3 DEF Progress, next
<1>5. ASSUME Todo(r) = <<Sync(StateDir)>>
      PROVE  WriteOK(call'[r].todo, known') /\ call'[r].method = call[r].method
  <2> DEFINE next == Sync(StateDir)
  <2>1. Todo(r) = <<next>> /\ next = Sync(StateDir)
    BY <1>5
  <2> HIDE DEF next
  <2>2. Todo(r) # << >> /\ Head(Todo(r)) = next /\ << >> \o Tail(Todo(r)) = << >>
    BY <2>1
  <2>3. Progress(r, << >>)
    BY <1>1, <2>1, <2>2, SyncStep
  <2> QED BY <1>2, <2>3 DEF Progress
<1>6. Todo(r) # << >>
  BY DEF FileStep, Making, Finding, Replacing, Syncing, Looking, Listing, Due
<1> QED BY <1>1, <1>3, <1>4, <1>5, <1>6 DEF WriteOK

(* Such a write puts good entries into the state file, and nothing else      *)
(* writes it.                                                                *)
LEMMA WritesGood ==
  ASSUME RInv, NEW r \in Runners, NEW x, Writing(r, StatePath, x)
  PROVE  GoodEntries(x.entries, known)
<1>1. WriteOK(Todo(r), known)
  BY StatePaths, Writes DEF RInv, RunOK, Todo
<1>2. ASSUME NEW entries, GoodEntries(entries, known), Todo(r) = CreateScript(entries)
      PROVE  GoodEntries(x.entries, known)
  <2> DEFINE step == Create(StatePath, StateFile(entries), <<Sync(StateDir)>>)
  <2>1. Todo(r) = <<step>> /\ step.content = StateFile(entries)
    BY <1>2 DEF CreateScript, Create
  <2> HIDE DEF step
  <2>2. x = StateFile(entries)
    BY <2>1 DEF Writing
  <2> QED BY <1>2, <2>2 DEF StateFile
<1>3. ASSUME NEW entries, GoodEntries(entries, known), Todo(r) = SaveScript(entries)
      PROVE  GoodEntries(x.entries, known)
  <2> DEFINE step == Replace(StatePath, StateFile(entries))
             next == Sync(StateDir)
  <2>1. Todo(r) = <<step, next>> /\ step.content = StateFile(entries)
    BY <1>3 DEF SaveScript, Replace
  <2> HIDE DEF step, next
  <2>2. x = StateFile(entries)
    BY <2>1 DEF Writing
  <2> QED BY <1>3, <2>2 DEF StateFile
<1>4. Todo(r) # <<Sync(StateDir)>>
  <2> DEFINE next == Sync(StateDir)
  <2>1. next.op \notin {"create", "replace"}
    BY DEF Sync
  <2> HIDE DEF next
  <2>2. Todo(r) # <<next>>
    BY <2>1 DEF Writing
  <2> QED BY <2>2 DEF next
<1> QED BY <1>1, <1>2, <1>3, <1>4 DEF WriteOK, Writing

LEMMA KnownGrows ==
  ASSUME NEW r \in Runners, FileStep(r)
  PROVE  known \subseteq known'
BY DEF FileStep, Making, Finding, Replacing, Syncing, Looking, Listing, Becomes

LEMMA StateKept ==
  ASSUME RInv, NEW r \in Runners, FileStep(r)
  PROVE  StateOK(disk', known') /\ DOMAIN disk.seen \subseteq DOMAIN disk'.seen
<1>1. WellFormed(disk) /\ StateOK(disk, known) /\ IInv
  BY DEF RInv, IInv, DiskOK, WellFormed
<1>2. StateOK(disk', known) /\ DOMAIN disk.seen \subseteq DOMAIN disk'.seen
  <2>1. CASE disk' = disk
    BY <1>1, <2>1
  <2>2. ASSUME NEW dir, disk' = Synced(disk, dir)
        PROVE  StateOK(disk', known) /\ DOMAIN disk.seen \subseteq DOMAIN disk'.seen
    <3>1. /\ WellFormed(disk') /\ disk'.seen = disk.seen
          /\ \A q \in DOMAIN disk'.kept :
               disk'.kept[q] = disk.seen[q] \/ (q \in DOMAIN disk.kept /\ disk'.kept[q] = disk.kept[q])
      BY <1>1, <2>2, SyncedKeeps
    <3> QED BY <1>1, <3>1 DEF StateOK, WellFormed
  <2>3. ASSUME NEW p, NEW x, disk' = Named(disk, p, x), Writing(r, p, x)
        PROVE  StateOK(disk', known) /\ DOMAIN disk.seen \subseteq DOMAIN disk'.seen
    <3>1. /\ disk'.kept = disk.kept /\ DOMAIN disk'.seen = DOMAIN disk.seen \cup {p}
          /\ disk'.seen[p] = x
          /\ \A q \in DOMAIN disk.seen : q # p => disk'.seen[q] = disk.seen[q]
      BY <1>1, <2>3, NamedDisk
    <3>2. p = StatePath => GoodEntries(x.entries, known)
      BY <2>3, WritesGood
    <3> QED BY <1>1, <3>1, <3>2 DEF StateOK
  <2> QED BY <1>1, <2>1, <2>2, <2>3, FileStepNames
<1> QED BY <1>2, KnownGrows, MoreEntries DEF StateOK

LEMMA FileStepRuns ==
  ASSUME RInv, NEW r \in Runners, FileStep(r)
  PROVE  /\ attempt' = attempt /\ \A q \in Runners : q # r => call'[q] = call[q]
         /\ \/ call'[r].method = call[r].method
            \/ call'[r].method = "none" /\ store'[r] = "refused"
<1>1. /\ call = [q \in Runners |-> call[q]] /\ store = [q \in Runners |-> store[q]]
      /\ call[r] = [method |-> call[r].method, todo |-> call[r].todo, answer |-> call[r].answer]
  BY DEF RInv, IInv, RunnerOK
<1>2. ASSUME NEW next, Rest(r, next)
      PROVE  /\ \A q \in Runners : q # r => call'[q] = call[q]
             /\ call'[r].method = call[r].method
  BY <1>1, <1>2 DEF Rest
<1>3. CASE Listing(r)
  <2>1. CASE Children(disk.seen, Root) \ {Identity} = {}
    BY <1>2, <1>3, <2>1 DEF Listing
  <2>2. CASE Children(disk.seen, Root) \ {Identity} # {}
    BY <1>1, <1>3, <2>2 DEF Listing, NoCall
  <2> QED BY <2>1, <2>2
<1>4. CASE Making(r) \/ Finding(r) \/ Replacing(r) \/ Syncing(r) \/ Looking(r)
  BY <1>2, <1>4 DEF Making, Finding, Replacing, Syncing, Looking
<1> QED BY <1>3, <1>4 DEF FileStep

(* The first step of its creation has the state file there.                  *)
LEMMA CreatesState ==
  ASSUME RInv, NEW r \in Runners, NEW entries, Todo(r) = CreateScript(entries), FileStep(r)
  PROVE  StatePath \in DOMAIN disk'.seen
<1> DEFINE x    == StateFile(entries)
           then == <<Sync(StateDir)>>
           step == Create(StatePath, x, then)
<1>1. Todo(r) = <<step>> /\ step = Create(StatePath, x, then) /\ IInv
  BY DEF CreateScript, RInv
<1> HIDE DEF x, then, step
<1>2. Todo(r) # << >> /\ Head(Todo(r)) = Create(StatePath, x, then)
  BY <1>1
<1>3. disk' = Named(disk, StatePath, x) \/ (StatePath \in DOMAIN disk.seen /\ disk' = disk)
  BY <1>1, <1>2, CreateStep
<1>4. WellFormed(disk)
  BY <1>1 DEF IInv, DiskOK, WellFormed
<1> QED BY <1>3, <1>4, NamedDisk

LEMMA CallStepKeeps ==
  ASSUME RInv, NEW r \in Runners, CallStep(r)
  PROVE  RInv'
<1>1. run' = run /\ machine' = machine /\ machine \in Loadings /\ IInv
      /\ run = [q \in Runners |-> run[q]] /\ RunOK(run[r], attempt[r], call[r], known)
  BY DEF CallStep, RInv
<1>2. CASE FileStep(r)
  <2>1. IInv'
    BY <1>1, <1>2, FileStepKeeps
  <2>2. /\ attempt' = attempt /\ \A q \in Runners : q # r => call'[q] = call[q]
        /\ \/ call'[r].method = call[r].method
           \/ call'[r].method = "none" /\ store'[r] = "refused"
    BY <1>2, FileStepRuns
  <2>3. store'[r] = "refused" => attempt'[r] = NoAttempt
    BY <2>1 DEF IInv, RunnerOK
  <2>4. call'[r].method \in {"create", "save"} => WriteOK(call'[r].todo, known')
    BY <1>2, <2>2, WriteGoesOn
  <2>5. RunOK(run[r], attempt[r], call[r], known')
    BY <1>1, <1>2, KnownGrows, MoreRun
  <2>6. RunOK(run'[r], attempt'[r], call'[r], known')
    BY <1>1, <2>2, <2>3, <2>4, <2>5 DEF RunOK
  <2>7. Alone(r)
    BY <1>1, <2>2 DEF Alone
  <2>8. Started(disk', run'[r], call'[r])
    BY <1>1, <1>2, StateKept, CreatesState DEF RInv, Started, Todo
  <2> QED BY <1>1, <1>2, <2>1, <2>6, <2>7, <2>8, KnownGrows, StateKept, RunMoves
<1>3. CASE Return(r)
  <2>1. IInv'
    BY <1>1, <1>3, ReturnKeeps
  <2>2. /\ call' = [call EXCEPT ![r] = NoCall]
        /\ attempt' = [attempt EXCEPT ![r] = AttemptAfterReturn(r)]
        /\ disk' = disk /\ known' = known
    BY <1>3 DEF Return
  <2>3. /\ call = [q \in Runners |-> call[q]] /\ attempt = [q \in Runners |-> attempt[q]]
    BY <1>1 DEF IInv
  <2>4. call'[r] = NoCall /\ attempt'[r] = AttemptAfterReturn(r) /\ Alone(r)
    BY <1>1, <2>2, <2>3 DEF Alone
  <2>5. call'[r].method = "none"
    BY <2>4 DEF NoCall
  <2>6. ASSUME run[r].pc = "complete"
        PROVE  attempt'[r] # NoAttempt /\ attempt'[r].ref # NoRef
    <3>1. CASE call[r].method = "commit"
      <4>1. /\ DOMAIN attempt[r] = {"kind", "cell", "id", "closed", "ref"}
            /\ attempt[r].kind = "attempt"
            /\ \E files : call[r].answer = Ref(Manifest(attempt[r].cell, attempt[r].id, files))
        BY <1>1, <3>1 DEF IInv, RunnerOK, AttemptOK, CommitOK
      <4>2. attempt'[r].kind = "attempt" /\ attempt'[r].ref = call[r].answer
        BY <2>4, <3>1, <4>1 DEF AttemptAfterReturn
      <4>3. call[r].answer # NoRef
        BY <4>1 DEF Ref, NoRef
      <4> QED BY <4>2, <4>3 DEF NoAttempt
    <3>2. CASE call[r].method # "commit"
      BY <1>1, <2>4, <2>6, <3>2 DEF RunOK, AttemptAfterReturn
    <3> QED BY <3>1, <3>2
  <2>7. RunOK(run'[r], attempt'[r], call'[r], known')
    BY <1>1, <2>2, <2>5, <2>6 DEF RunOK
  <2>8. \A entries : Todo(r) # CreateScript(entries)
    <3>1. Todo(r) = << >>
      BY <1>3 DEF Return
    <3> QED BY <3>1 DEF CreateScript
  <2>9. Started(disk, run'[r], call'[r])
    BY <1>1, <2>8 DEF RInv, Started, Todo
  <2> QED BY <1>1, <2>1, <2>2, <2>4, <2>7, <2>9, QuietRun
<1> QED BY <1>2, <1>3 DEF CallStep

-----------------------------------------------------------------------------
(* The steps of the loop.                                                    *)
LEMMA Runs ==
  ASSUME RInv, NEW r \in Runners
  PROVE  /\ IInv /\ machine \in Loadings
         /\ RunOK(run[r], attempt[r], call[r], known) /\ Started(disk, run[r], call[r])
         /\ run = [q \in Runners |-> run[q]] /\ call = [q \in Runners |-> call[q]]
         /\ attempt = [q \in Runners |-> attempt[q]]
BY DEF RInv, IInv

LEMMA PlanIndices ==
  /\ Len(Plan) \in Nat /\ DOMAIN Plan = 1..Len(Plan)
  /\ \A i \in DOMAIN Plan : Plan[i] \in Cells
BY PlanAssumption, LenProperties, ElementOfSeq

(* The runner enters a write of good entries.                                *)
LEMMA EntersWrite ==
  ASSUME RInv, NEW r \in Runners, Idle(r), NEW method \in {"create", "save"}, NEW entries,
         NEW script \in {CreateScript(entries), SaveScript(entries)},
         GoodEntries(entries, known), Enters(r, method, script, NoRef),
         UNCHANGED <<disk, lock, store, attempt, begun, known, trouble>>
  PROVE  /\ IInv' /\ WriteOK(call'[r].todo, known')
         /\ call'[r].method = method /\ call'[r].todo = script
         /\ \A q \in Runners : q # r => call'[q] = call[q]
<1>1. ForeignOK(script)
  BY StatePaths DEF ForeignOK, CreateScript, SaveScript
<1>2. IInv'
  BY <1>1, EntersElsewhere DEF RInv
<1>3. /\ call'[r] = [method |-> method, todo |-> script, answer |-> NoRef]
      /\ \A q \in Runners : q # r => call'[q] = call[q]
  BY Runs DEF Enters
<1>4. WriteOK(script, known')
  BY DEF WriteOK
<1> QED BY <1>2, <1>3, <1>4

LEMMA RecoveredGood ==
  ASSUME NEW entries, NEW refs, GoodEntries(entries, refs)
  PROVE  GoodEntries(Recovered(entries), refs)
<1>1. DOMAIN entries = DOMAIN Plan
  BY DEF GoodEntries
<1>2. Recovered(entries) =
        [i \in DOMAIN Plan |-> IF entries[i] = InProgress THEN Pending ELSE entries[i]]
  BY <1>1 DEF Recovered
<1>3. Pending.at = "pending"
  BY DEF Pending
<1> QED BY <1>2, <1>3 DEF GoodEntries, GoodEntry

LEMMA LoadKeeps ==
  ASSUME RInv, NEW r \in Runners, Idle(r), StatePath \in DOMAIN disk.seen,
         NEW pc \in {"store", "cell", "records"}, Load(r, pc)
  PROVE  RInv'
<1> DEFINE entries == Recovered(Entries)
<1>1. /\ run' = [run EXCEPT ![r].pc = pc, ![r].entries = entries, ![r].next = 1]
      /\ IF entries # Entries
         THEN Enters(r, "save", SaveScript(entries), NoRef)
         ELSE UNCHANGED call
      /\ UNCHANGED <<disk, lock, store, attempt, begun, known, trouble, machine>>
  BY DEF Load
<1>2. GoodEntries(entries, known)
  BY RecoveredGood DEF RInv, StateOK, Entries
<1> HIDE DEF entries
<1>3. /\ IInv' /\ (call'[r].method \in {"create", "save"} => WriteOK(call'[r].todo, known'))
      /\ \A q \in Runners : q # r => call'[q] = call[q]
  <2>1. CASE entries # Entries
    BY <1>1, <1>2, <2>1, EntersWrite
  <2>2. CASE entries = Entries
    BY <1>1, <2>2, Runs, StoreStutters DEF RunOK, storeVars
  <2> QED BY <2>1, <2>2
<1>4. /\ DOMAIN run'[r] = DOMAIN run[r]
      /\ run'[r].pc = pc /\ run'[r].entries = entries /\ run'[r].next = 1
      /\ run'[r].preview = run[r].preview /\ run'[r].confirmed = run[r].confirmed
  BY <1>1, Runs DEF RunOK
<1>5. 1 \in 1..Len(Plan) + 1
  BY PlanIndices
<1>6. RunOK(run'[r], attempt'[r], call'[r], known')
  BY <1>1, <1>2, <1>3, <1>4, <1>5, Runs DEF RunOK
<1>7. Alone(r)
  BY <1>1, <1>3, Runs DEF Alone
<1> QED BY <1>1, <1>3, <1>6, <1>7, Runs, QuietRun DEF Started

LEMMA StartCreatingKeeps ==
  ASSUME RInv, NEW r \in Runners, StartCreating(r)
  PROVE  RInv'
<1> DEFINE entries == [i \in DOMAIN Plan |-> Pending]
<1>1. /\ Idle(r) /\ run' = [run EXCEPT ![r].pc = "store", ![r].entries = entries]
      /\ Enters(r, "create", CreateScript(entries), NoRef)
      /\ UNCHANGED <<disk, lock, store, attempt, begun, known, trouble, machine>>
  BY DEF StartCreating, At
<1>2. GoodEntries(entries, known)
  BY DEF GoodEntries, GoodEntry, Pending
<1> HIDE DEF entries
<1>3. /\ IInv' /\ WriteOK(call'[r].todo, known')
      /\ call'[r].method = "create" /\ call'[r].todo = CreateScript(entries)
      /\ \A q \in Runners : q # r => call'[q] = call[q]
  BY <1>1, <1>2, EntersWrite
<1>4. /\ DOMAIN run'[r] = DOMAIN run[r]
      /\ run'[r].pc = "store" /\ run'[r].entries = entries /\ run'[r].next = run[r].next
      /\ run'[r].preview = run[r].preview /\ run'[r].confirmed = run[r].confirmed
  BY <1>1, Runs DEF RunOK
<1>5. RunOK(run'[r], attempt'[r], call'[r], known')
  BY <1>1, <1>2, <1>3, <1>4, Runs DEF RunOK
<1>6. Alone(r)
  BY <1>1, <1>3, Runs DEF Alone
<1>7. Started(disk, run'[r], call'[r])
  BY <1>3, <1>4 DEF Started
<1> QED BY <1>1, <1>3, <1>5, <1>6, <1>7, Runs, QuietRun

LEMMA TransitionKeeps ==
  ASSUME RInv, NEW r \in Runners, Idle(r), StatePath \in DOMAIN disk.seen,
         NEW i \in DOMAIN Plan, i = run[r].next, NEW current, NEW target,
         GoodEntry(i, target, known), NEW pc \in {"measure", "next"}, run[r].pc # "off",
         Transition(r, i, current, target, pc)
  PROVE  RInv'
<1> DEFINE entries == [Entries EXCEPT ![i] = target]
<1>1. CASE Entries[i].at = current
  <2>1. /\ run' = [run EXCEPT ![r].pc = pc, ![r].entries = entries]
        /\ Enters(r, "save", SaveScript(entries), NoRef)
        /\ UNCHANGED <<disk, lock, store, attempt, begun, known, trouble, machine>>
    BY <1>1 DEF Transition
  <2>2. GoodEntries(entries, known)
    BY DEF RInv, StateOK, Entries, GoodEntries
  <2> HIDE DEF entries
  <2>3. /\ IInv' /\ WriteOK(call'[r].todo, known')
        /\ \A q \in Runners : q # r => call'[q] = call[q]
    BY <2>1, <2>2, EntersWrite
  <2>4. /\ DOMAIN run'[r] = DOMAIN run[r]
        /\ run'[r].pc = pc /\ run'[r].entries = entries /\ run'[r].next = run[r].next
        /\ run'[r].preview = run[r].preview /\ run'[r].confirmed = run[r].confirmed
    BY <2>1, Runs DEF RunOK
  <2>5. RunOK(run'[r], attempt'[r], call'[r], known')
    BY <2>1, <2>2, <2>3, <2>4, Runs DEF RunOK
  <2>6. Alone(r)
    BY <2>1, <2>3, Runs DEF Alone
  <2> QED BY <2>1, <2>3, <2>5, <2>6, Runs, QuietRun DEF Started
<1>2. CASE Entries[i].at # current
  <2>1. run' = [run EXCEPT ![r].pc = "exit"] /\ UNCHANGED <<storeVars, machine>>
    BY <1>2 DEF Transition, Goes
  <2>2. IInv' /\ UNCHANGED <<disk, known, attempt, call, machine>>
    BY <2>1, Runs, StoreStutters DEF storeVars
  <2>3. /\ DOMAIN run'[r] = DOMAIN run[r]
        /\ run'[r].pc = "exit" /\ run'[r].entries = run[r].entries
        /\ run'[r].next = run[r].next
        /\ run'[r].preview = run[r].preview /\ run'[r].confirmed = run[r].confirmed
    BY <2>1, Runs DEF RunOK
  <2>4. RunOK(run'[r], attempt'[r], call'[r], known')
    BY <2>2, <2>3, Runs DEF RunOK
  <2>5. Alone(r)
    BY <2>1, <2>2, Runs DEF Alone
  <2>6. Started(disk, run'[r], call'[r])
    BY <2>3 DEF Started
  <2> QED BY <2>2, <2>4, <2>5, <2>6, Runs, QuietRun
<1> QED BY <1>1, <1>2

(* A step of the loop that makes no call.                                    *)
LEMMA LoopStep ==
  ASSUME RInv, NEW r \in Runners, NEW x, run' = [run EXCEPT ![r] = x],
         UNCHANGED storeVars, machine' \in Loadings,
         RunOK(x, attempt[r], call[r], known), Started(disk, x, call[r])
  PROVE  RInv'
<1>1. IInv' /\ UNCHANGED <<disk, known, attempt, call>>
  BY Runs, StoreStutters DEF storeVars
<1>2. run'[r] = x /\ Alone(r)
  BY <1>1, Runs DEF Alone
<1> QED BY <1>1, <1>2, QuietRun

LEMMA GoesRecord ==
  ASSUME RInv, NEW r \in Runners, NEW pc, Goes(r, pc)
  PROVE  /\ run' = [run EXCEPT ![r] = run'[r]]
         /\ run' = [q \in Runners |-> run'[q]]
         /\ \A q \in Runners : q # r => run'[q] = run[q]
         /\ DOMAIN run'[r] = DOMAIN run[r]
         /\ run'[r].pc = pc /\ run'[r].entries = run[r].entries
         /\ run'[r].next = run[r].next /\ run'[r].result = run[r].result
         /\ run'[r].preview = run[r].preview /\ run'[r].confirmed = run[r].confirmed
BY Runs DEF Goes, RunOK

LEMMA ExitOK ==
  ASSUME RInv, NEW r \in Runners, Goes(r, "exit"), NEW at, NEW k, NEW refs, known \subseteq refs,
         k.method \in {"create", "save"} => k = call[r], run[r].pc # "off"
  PROVE  RunOK(run'[r], at, k, refs) /\ Started(disk, run'[r], k)
<1>1. RunOK(run[r], attempt[r], call[r], refs)
  BY Runs, MoreRun
<1>2. RunOK(run'[r], at, k, refs)
  BY <1>1, GoesRecord DEF RunOK
<1> QED BY <1>2, GoesRecord DEF Started

LEMMA ExitKeeps ==
  ASSUME RInv, NEW r \in Runners, Goes(r, "exit"), UNCHANGED <<storeVars, machine>>,
         run[r].pc # "off"
  PROVE  RInv'
<1>1. RunOK(run'[r], attempt[r], call[r], known) /\ Started(disk, run'[r], call[r])
  BY ExitOK
<1> QED BY <1>1, GoesRecord, Runs, LoopStep

LEMMA CreateRefusedKeeps ==
  ASSUME RInv, NEW r \in Runners, CreateRefused(r)
  PROVE  RInv'
<1>1. /\ call' = [call EXCEPT ![r] = NoCall] /\ Goes(r, "exit")
      /\ UNCHANGED <<disk, lock, store, attempt, begun, known, trouble, machine>>
      /\ call[r].method = "create"
  BY DEF CreateRefused, StateTaken
<1>2. IInv'
  BY <1>1, Runs, LeavesElsewhere
<1>3. call'[r] = NoCall /\ call'[r].method = "none" /\ Alone(r)
  BY <1>1, GoesRecord, Runs DEF NoCall, Alone
<1>4. RunOK(run'[r], attempt'[r], call'[r], known') /\ Started(disk, run'[r], call'[r])
  <2>1. run[r].pc # "off"
    BY <1>1, Runs DEF RunOK
  <2> QED BY <1>1, <1>3, <2>1, ExitOK
<1> QED BY <1>1, <1>2, <1>3, <1>4, Runs, QuietRun

LEMMA IsSaved ==
  ASSUME RInv, NEW r \in Runners, Idle(r), run[r].pc \notin {"off", "exit"}
  PROVE  StatePath \in DOMAIN disk.seen /\ \A x, k : Started(disk, x, k)
BY Runs DEF Started, Idle

LEMMA LoadingKeeps ==
  ASSUME RInv, NEW r \in Runners, StartLoading(r) \/ Resume(r) \/ ReadRecords(r)
  PROVE  RInv'
<1>1. CASE StartLoading(r)
  BY <1>1, LoadKeeps DEF StartLoading, At, Exists
<1>2. CASE Resume(r)
  BY <1>2, LoadKeeps, IsSaved DEF Resume, At
<1>3. CASE ReadRecords(r)
  BY <1>3, LoadKeeps, IsSaved DEF ReadRecords, At
<1> QED BY <1>1, <1>2, <1>3

(* A call of the store's that a step of the loop makes.                      *)
LEMMA CallMade ==
  ASSUME RInv, NEW r \in Runners, NEW pc, Goes(r, pc), IInv', UNCHANGED <<disk, known, machine>>,
         Idle(r), run[r].pc \notin {"off", "exit"},
         NEW k, call' = [call EXCEPT ![r] = k], NEW at, attempt' = [attempt EXCEPT ![r] = at],
         k.method \notin {"create", "save"},
         \/ pc = "resume"
         \/ /\ pc \in {"result", "preview", "commit"}
            /\ run[r].pc \in {"begin", "result", "preview", "commit"}
         \/ /\ pc = "complete" /\ run[r].pc = "commit"
            /\ at # NoAttempt /\ k.method = "commit"
  PROVE  RInv'
<1>1. call'[r] = k /\ attempt'[r] = at /\ Alone(r)
  BY GoesRecord, Runs DEF Alone
<1>2. RunOK(run'[r], at, k, known)
  BY GoesRecord, Runs DEF RunOK
<1> QED BY <1>1, <1>2, IsSaved, Runs, QuietRun

LEMMA OpenStoreKeeps ==
  ASSUME RInv, NEW r \in Runners, OpenStore(r)
  PROVE  RInv'
<1> DEFINE k == [method |-> "open", todo |-> OpenScript, answer |-> NoRef]
<1>1. /\ Idle(r) /\ run[r].pc = "store" /\ Open(r) /\ Goes(r, "resume")
      /\ call' = [call EXCEPT ![r] = k]
      /\ UNCHANGED <<disk, attempt, known, machine>>
  BY DEF OpenStore, At, Open, Enters
<1>2. IInv'
  BY <1>1, Runs, OpenKeeps
<1>3. attempt' = [attempt EXCEPT ![r] = attempt[r]] /\ k.method = "open"
  BY <1>1, Runs
<1> HIDE DEF k
<1> QED BY <1>1, <1>2, <1>3, CallMade

LEMMA BeginCellKeeps ==
  ASSUME RInv, NEW r \in Runners, BeginCell(r)
  PROVE  RInv'
<1> DEFINE c  == Plan[Here(r)]
           k  == [method |-> "begin", todo |-> BeginScript(c, begun + 1), answer |-> NoRef]
           at == [kind |-> "attempt", cell |-> c, id |-> begun + 1, closed |-> FALSE,
                  ref |-> NoRef]
<1>1. /\ Idle(r) /\ run[r].pc = "begin" /\ Begin(r, c) /\ Goes(r, "result")
      /\ call' = [call EXCEPT ![r] = k] /\ attempt' = [attempt EXCEPT ![r] = at]
      /\ UNCHANGED <<disk, known, machine>>
  BY DEF BeginCell, At, Begin, Enters
<1>2. c \in Cells
  BY <1>1, Runs, PlanIndices DEF RunOK, Here
<1>3. k.method = "begin"
  OBVIOUS
<1> HIDE DEF c, k, at
<1>4. IInv'
  BY <1>1, <1>2, Runs, BeginKeeps
<1> QED BY <1>1, <1>3, <1>4, CallMade

LEMMA StageCellKeeps ==
  ASSUME RInv, NEW r \in Runners, StageResult(r) \/ StagePreview(r)
  PROVE  RInv'
<1>1. ASSUME NEW f \in {"result", "preview"}, NEW pc \in {"preview", "commit"},
             run[r].pc \in {"result", "preview"}, Stage(r, f, run[r].result),
             Goes(r, pc), UNCHANGED machine
      PROVE  RInv'
  <2> DEFINE k == [method |-> "stage",
                   todo   |-> StageScript(attempt[r].cell, attempt[r].id, f, run[r].result),
                   answer |-> NoRef]
  <2>1. /\ Idle(r) /\ call' = [call EXCEPT ![r] = k]
        /\ UNCHANGED <<disk, attempt, known>>
    BY <1>1 DEF Stage, Enters
  <2>2. f \in Files /\ run[r].result \in Payloads
    BY <1>1, Runs, StagedAssumption DEF RunOK
  <2>3. IInv'
    BY <1>1, <2>2, Runs, StageKeeps
  <2>4. attempt' = [attempt EXCEPT ![r] = attempt[r]] /\ k.method = "stage"
    BY <2>1, Runs
  <2> HIDE DEF k
  <2> QED BY <1>1, <2>1, <2>3, <2>4, CallMade
<1>2. CASE StageResult(r)
  BY <1>1, <1>2 DEF StageResult, At
<1>3. CASE StagePreview(r)
  BY <1>1, <1>3 DEF StagePreview, At
<1> QED BY <1>2, <1>3

LEMMA CommitCellKeeps ==
  ASSUME RInv, NEW r \in Runners, CommitCell(r)
  PROVE  RInv'
<1> DEFINE m == Manifest(attempt[r].cell, attempt[r].id,
                         FilesOf(disk.seen, attempt[r].cell, attempt[r].id))
           k == [method |-> "commit", todo |-> CommitScript(m), answer |-> Ref(m)]
<1>1. /\ Idle(r) /\ run[r].pc = "commit" /\ Commit(r) /\ Goes(r, "complete")
      /\ call' = [call EXCEPT ![r] = k] /\ AttemptOpen(r)
      /\ UNCHANGED <<disk, attempt, known, machine>>
  BY DEF CommitCell, At, Commit, Enters
<1>2. attempt' = [attempt EXCEPT ![r] = attempt[r]] /\ k.method = "commit"
  BY <1>1, Runs
<1> HIDE DEF m, k
<1>3. IInv' /\ attempt[r] # NoAttempt
  BY <1>1, Runs, CommitKeeps DEF AttemptOpen
<1> QED BY <1>1, <1>2, <1>3, CallMade

(* The steps that look or count.                                             *)
LEMMA SkipCompleteKeeps ==
  ASSUME RInv, NEW r \in Runners, SkipComplete(r)
  PROVE  RInv'
<1> DEFINE x == [run[r] EXCEPT !.next = @ + 1]
<1>1. /\ Idle(r) /\ run[r].pc = "cell" /\ run[r].next <= Len(Plan)
      /\ UNCHANGED <<storeVars, machine>>
  BY DEF SkipComplete, At, Here
<1>2. CASE run' = [run EXCEPT ![r].next = @ + 1]
  <2>1. run' = [run EXCEPT ![r] = x]
    BY <1>2
  <2>2. run[r].next + 1 \in 1..Len(Plan) + 1
    BY <1>1, Runs, PlanIndices DEF RunOK
  <2>3. /\ DOMAIN x = DOMAIN run[r]
        /\ x.pc = run[r].pc /\ x.entries = run[r].entries /\ x.next = run[r].next + 1
        /\ x.preview = run[r].preview /\ x.confirmed = run[r].confirmed
    BY Runs DEF RunOK
  <2> HIDE DEF x
  <2>4. RunOK(x, attempt[r], call[r], known)
    BY <1>1, <2>2, <2>3, Runs DEF RunOK
  <2> QED BY <1>1, <2>1, <2>4, Runs, IsSaved, LoopStep
<1>3. CASE run' = [run EXCEPT ![r].pc = "exit"]
  BY <1>1, <1>3, ExitKeeps DEF Goes
<1> QED BY <1>2, <1>3 DEF SkipComplete

LEMMA NextCellKeeps ==
  ASSUME RInv, NEW r \in Runners, NextCell(r)
  PROVE  RInv'
<1> DEFINE x == [run[r] EXCEPT !.pc = "cell", !.next = @ + 1]
<1>1. /\ Idle(r) /\ run[r].pc = "next" /\ UNCHANGED <<storeVars, machine>>
      /\ run' = [run EXCEPT ![r] = x]
  BY DEF NextCell, At
<1>2. run[r].next + 1 \in 1..Len(Plan) + 1
  BY <1>1, Runs, PlanIndices DEF RunOK
<1>3. /\ DOMAIN x = DOMAIN run[r]
      /\ x.pc = "cell" /\ x.entries = run[r].entries /\ x.next = run[r].next + 1
      /\ x.preview = run[r].preview /\ x.confirmed = run[r].confirmed
  BY Runs DEF RunOK
<1> HIDE DEF x
<1>4. RunOK(x, attempt[r], call[r], known)
  BY <1>1, <1>2, <1>3, Runs DEF RunOK
<1> QED BY <1>1, <1>4, Runs, IsSaved, LoopStep

LEMMA CheckRecordsKeeps ==
  ASSUME RInv, NEW r \in Runners, CheckRecords(r)
  PROVE  RInv'
<1>1. /\ Idle(r) /\ run[r].pc = "records" /\ UNCHANGED <<storeVars, machine>>
      /\ Goes(r, IF Publishable(r) THEN "done" ELSE "exit")
  BY DEF CheckRecords, At
<1>2. CASE Publishable(r)
  <2>1. AllComplete(run[r].entries) /\ Goes(r, "done")
    BY <1>1, <1>2 DEF Publishable
  <2>2. RunOK(run'[r], attempt[r], call[r], known)
    BY <1>1, <2>1, GoesRecord, Runs DEF RunOK
  <2> QED BY <1>1, <2>1, <2>2, GoesRecord, Runs, IsSaved, LoopStep
<1>3. CASE ~Publishable(r)
  BY <1>1, <1>3, ExitKeeps
<1> QED BY <1>2, <1>3

LEMMA MeasureKeeps ==
  ASSUME RInv, NEW r \in Runners, Measure(r)
  PROVE  RInv'
<1>1. /\ Idle(r) /\ run[r].pc = "measure" /\ UNCHANGED <<storeVars, machine>>
  BY DEF Measure, At
<1>2. PICK v \in Payloads, preview \in BOOLEAN :
        run' = [run EXCEPT ![r].pc = "begin", ![r].result = v, ![r].preview = preview]
  BY DEF Measure
<1> DEFINE x == [run[r] EXCEPT !.pc = "begin", !.result = v, !.preview = preview]
<1>3. run' = [run EXCEPT ![r] = x]
  BY <1>2
<1>4. /\ DOMAIN x = DOMAIN run[r]
      /\ x.pc = "begin" /\ x.entries = run[r].entries /\ x.next = run[r].next
      /\ x.result = v /\ x.preview = preview /\ x.confirmed = run[r].confirmed
  BY Runs DEF RunOK
<1> HIDE DEF x
<1>5. RunOK(x, attempt[r], call[r], known)
  BY <1>1, <1>4, Runs DEF RunOK
<1> QED BY <1>1, <1>3, <1>5, Runs, IsSaved, LoopStep

LEMMA ConfirmLoadKeeps ==
  ASSUME RInv, NEW r \in Runners, ConfirmLoad(r)
  PROVE  RInv'
<1>1. /\ Idle(r) /\ run[r].pc = "measure" /\ UNCHANGED storeVars
      /\ run' = [run EXCEPT ![r].confirmed = machine']
      /\ machine' = HostLoad[Plan[run[r].next]] /\ machine' # "none"
  BY DEF ConfirmLoad, At, Here, Unconfirmed
<1>2. machine' \in Loadings
  BY <1>1, Runs, PlanIndices, LoadAssumption DEF RunOK
<1> DEFINE x == [run[r] EXCEPT !.confirmed = machine']
<1>3. run' = [run EXCEPT ![r] = x]
  BY <1>1
<1>4. /\ DOMAIN x = DOMAIN run[r]
      /\ x.pc = "measure" /\ x.entries = run[r].entries /\ x.next = run[r].next
      /\ x.preview = run[r].preview /\ x.confirmed = machine'
  BY <1>1, Runs DEF RunOK
<1> HIDE DEF x
<1>5. RunOK(x, attempt[r], call[r], known)
  BY <1>1, <1>2, <1>4, Runs DEF RunOK
<1> QED BY <1>1, <1>2, <1>3, <1>5, Runs, IsSaved, LoopStep

(* The steps that rewrite an entry.                                          *)
LEMMA MarkInProgressKeeps ==
  ASSUME RInv, NEW r \in Runners, MarkInProgress(r)
  PROVE  RInv'
<1>1. /\ Idle(r) /\ run[r].pc = "cell" /\ run[r].next <= Len(Plan)
      /\ Transition(r, run[r].next, "pending", InProgress, "measure")
  BY DEF MarkInProgress, At, Here
<1>2. run[r].next \in DOMAIN Plan
  BY <1>1, Runs, PlanIndices DEF RunOK
<1>3. GoodEntry(run[r].next, InProgress, known)
  BY DEF GoodEntry, InProgress
<1> QED BY <1>1, <1>2, <1>3, IsSaved, TransitionKeeps

LEMMA MarkCompleteKeeps ==
  ASSUME RInv, NEW r \in Runners, MarkComplete(r)
  PROVE  RInv'
<1> DEFINE v   == run[r].result
           ref == attempt[r].ref
           i   == run[r].next
<1>1. /\ Idle(r) /\ run[r].pc = "complete"
      /\ IF Backed(disk.seen, i, v, ref)
         THEN Transition(r, i, "in_progress", Complete(v, ref), "next")
         ELSE Goes(r, "exit") /\ UNCHANGED <<storeVars, machine>>
  BY DEF MarkComplete, At, Here
<1>2. i \in DOMAIN Plan /\ ref \in known
  <2>1. i \in DOMAIN Plan /\ attempt[r] # NoAttempt /\ ref # NoRef
    BY <1>1, Runs DEF RunOK, Idle
  <2> QED BY <2>1, Runs DEF IInv, AttemptOK
<1>3. CASE Backed(disk.seen, i, v, ref)
  <2> DEFINE target == Complete(v, ref)
  <2>1. target.at = "complete" /\ target.result = v /\ target.ref = ref
    BY DEF Complete
  <2>2. Transition(r, i, "in_progress", target, "next")
    BY <1>1, <1>3
  <2> HIDE DEF target, v, ref
  <2>3. GoodEntry(i, target, known)
    BY <1>2, <1>3, <2>1 DEF GoodEntry, Backed
  <2> QED BY <1>1, <1>2, <2>2, <2>3, IsSaved, TransitionKeeps
<1>4. CASE ~Backed(disk.seen, i, v, ref)
  BY <1>1, <1>4, ExitKeeps
<1> QED BY <1>3, <1>4

(* The ends of a run.                                                        *)
LEMMA RefusedKeeps ==
  ASSUME RInv, NEW r \in Runners, StoreRefused(r) \/ WriterBusy(r)
  PROVE  RInv'
BY ExitKeeps DEF StoreRefused, WriterBusy, At

LEMMA PromptAbortedKeeps ==
  ASSUME RInv, NEW r \in Runners, PromptAborted(r)
  PROVE  RInv'
<1>1. /\ Idle(r) /\ run[r].pc = "measure" /\ Goes(r, "exit")
      /\ trouble < MaxTrouble /\ trouble' = trouble + 1
      /\ UNCHANGED <<disk, lock, store, attempt, call, begun, known, machine>>
  BY DEF PromptAborted, At
<1>2. IInv /\ trouble' \in 0..MaxTrouble
  BY <1>1, Runs, Counters, TroubleAssumption
<1>3. OnlyMoves(r) /\ Locks(r)
  BY <1>1, <1>2 DEF IInv, OnlyMoves, Locks
<1>4. RunnerOK(disk', store'[r], attempt'[r], call'[r], known')
  BY <1>1, <1>2 DEF IInv
<1>5. Keeps(r)
  BY <1>1, <1>2, <1>4, SameAttempt
<1>6. IInv'
  BY <1>1, <1>2, <1>3, <1>5, QuietMoves, Counters
<1>7. RunOK(run'[r], attempt'[r], call'[r], known') /\ Started(disk, run'[r], call'[r])
  BY <1>1, ExitOK
<1>8. Alone(r)
  BY <1>1, GoesRecord DEF Alone
<1> QED BY <1>1, <1>6, <1>7, <1>8, Runs, QuietRun

LEMMA OffOK ==
  ASSUME NEW k, k.method = "none", NEW at, NEW refs, NEW d
  PROVE  RunOK(Off, at, k, refs) /\ Started(d, Off, k)
<1>1. 1 \in 1..Len(Plan) + 1
  BY PlanIndices
<1> QED BY <1>1 DEF RunOK, Started, Off

LEMMA EndedKeeps ==
  ASSUME RInv, NEW r \in Runners, Ends(r), trouble' \in 0..MaxTrouble,
         run' = [run EXCEPT ![r] = Ended(r)], UNCHANGED machine
  PROVE  RInv'
<1>1. /\ call' = [call EXCEPT ![r] = NoCall] /\ attempt' = [attempt EXCEPT ![r] = NoAttempt]
      /\ UNCHANGED <<disk, known>>
  BY DEF Ends
<1>2. IInv'
  BY Runs, EndsKeeps
<1>3. call'[r] = NoCall /\ call'[r].method = "none" /\ run'[r] = Off /\ Alone(r)
  BY <1>1, Runs DEF Alone, NoCall, Ended
<1>4. RunOK(run'[r], attempt'[r], call'[r], known') /\ Started(disk, run'[r], call'[r])
  BY <1>3, OffOK
<1> QED BY <1>1, <1>2, <1>3, <1>4, Runs, QuietRun

LEMMA OutageKeeps ==
  ASSUME RInv, Outage, PowerFails # "ever"
  PROVE  RInv'
<1>1. /\ PowerLoss /\ run' = [r \in Runners |-> Off] /\ machine' = machine
      /\ call' = [r \in Runners |-> NoCall]
      /\ disk' \in AfterPowerLoss(disk) /\ known \subseteq known'
  BY DEF Outage, PowerLoss, Becomes, Ended
<1>2. IInv'
  BY <1>1, PowerLossKeeps DEF RInv
<1>3. WellFormed(disk) /\ StateOK(disk, known)
  BY DEF RInv, IInv, DiskOK, WellFormed
<1>4. /\ disk'.kept = disk'.seen /\ DOMAIN disk'.seen \subseteq DOMAIN disk.seen
      /\ \A q \in DOMAIN disk'.seen :
           \/ disk'.seen[q] = disk.seen[q]
           \/ q \in DOMAIN disk.kept /\ disk'.seen[q] = disk.kept[q]
  BY <1>1, <1>3, PowerLossDisk
<1>5. StateOK(disk', known')
  <2>1. StatePath \in DOMAIN disk'.seen => GoodEntries(disk'.seen[StatePath].entries, known')
    BY <1>1, <1>3, <1>4, MoreEntries DEF StateOK
  <2> QED BY <1>4, <2>1 DEF StateOK
<1>6. ASSUME NEW r \in Runners
      PROVE  /\ RunOK(run'[r], attempt'[r], call'[r], known')
             /\ Started(disk', run'[r], call'[r])
  <2>1. run'[r] = Off /\ call'[r].method = "none"
    BY <1>1 DEF NoCall
  <2> QED BY <2>1, OffOK
<1> QED BY <1>1, <1>2, <1>5, <1>6 DEF RInv

LEMMA RearrangeKeeps ==
  ASSUME RInv, Rearrange
  PROVE  RInv'
<1>1. machine' \in Loadings /\ UNCHANGED <<storeVars, run>>
  BY DEF Rearrange
<1>2. IInv'
  BY <1>1, StoreStutters DEF RInv
<1> QED BY <1>1, <1>2 DEF RInv, StateOK, storeVars

(* A failed step: the retry without previews, the commit that was published  *)
(* after all, or the end of the run.                                         *)
LEMMA CallFailsKeeps ==
  ASSUME RInv, NEW r \in Runners, CallFails(r)
  PROVE  RInv'
<1>1. /\ StepFails(r) /\ run' = [run EXCEPT ![r] = AfterFailure(r)] /\ machine' = machine
      /\ call' = [call EXCEPT ![r] = NoCall]
      /\ attempt' = [attempt EXCEPT ![r] = AttemptAfterFailure(r)]
      /\ UNCHANGED <<disk, known>> /\ Todo(r) # << >>
  BY DEF CallFails, StepFails
<1>2. IInv'
  BY <1>1, Runs, StepFailsKeeps
<1>3. /\ call'[r] = NoCall /\ call'[r].method = "none" /\ attempt'[r] = AttemptAfterFailure(r)
      /\ run'[r] = AfterFailure(r) /\ Alone(r)
  BY <1>1, Runs DEF Alone, NoCall
<1>4. call[r].method # "none"
  <2>1. RunnerOK(disk, store[r], attempt[r], call[r], known)
    BY Runs DEF IInv
  <2> QED BY <1>1, <2>1 DEF RunnerOK, NoCall, Todo
<1>5. run[r].pc # "off"
  BY <1>4, Runs DEF RunOK
<1>6. SUFFICES RunOK(run'[r], attempt'[r], call'[r], known) /\ Started(disk, run'[r], call'[r])
  BY <1>1, <1>2, <1>3, Runs, QuietRun
<1>7. CASE call[r].method = "stage" /\ run[r].preview /\ run[r].pc = "commit"
  <2>1. run'[r] = [run[r] EXCEPT !.pc = "begin", !.preview = FALSE]
    BY <1>3, <1>7 DEF AfterFailure
  <2>2. /\ DOMAIN run'[r] = DOMAIN run[r]
        /\ run'[r].pc = "begin" /\ run'[r].entries = run[r].entries
        /\ run'[r].next = run[r].next /\ run'[r].result = run[r].result
        /\ run'[r].preview = FALSE /\ run'[r].confirmed = run[r].confirmed
    BY <2>1, Runs DEF RunOK
  <2>3. RunOK(run'[r], attempt'[r], call'[r], known)
    BY <1>3, <1>7, <2>2, Runs DEF RunOK
  <2>4. StatePath \in DOMAIN disk.seen
    BY <1>7, Runs DEF Started
  <2> QED BY <2>3, <2>4 DEF Started
<1>8. CASE call[r].method = "commit" /\ Reconciled(r) # NoRef
  <2>1. run'[r] = run[r]
    BY <1>3, <1>8 DEF AfterFailure
  <2>2. attempt'[r] # NoAttempt /\ attempt'[r].ref # NoRef
    <3>1. /\ DOMAIN attempt[r] = {"kind", "cell", "id", "closed", "ref"}
          /\ attempt[r].kind = "attempt"
      BY <1>8, Runs DEF IInv, RunnerOK, AttemptOK
    <3>2. attempt'[r].kind = "attempt" /\ attempt'[r].ref = Reconciled(r)
      BY <1>3, <1>8, <3>1 DEF AttemptAfterFailure
    <3> QED BY <1>8, <3>2 DEF NoAttempt
  <2>3. RunOK(run'[r], attempt'[r], call'[r], known)
    BY <1>3, <2>1, <2>2, Runs DEF RunOK
  <2>4. StatePath \in DOMAIN disk.seen \/ run[r].pc = "exit"
    BY <1>5, <1>8, Runs DEF Started
  <2> QED BY <2>1, <2>3, <2>4 DEF Started
<1>9. CASE /\ ~(call[r].method = "stage" /\ run[r].preview /\ run[r].pc = "commit")
           /\ ~(call[r].method = "commit" /\ Reconciled(r) # NoRef)
  <2>1. run'[r] = [run[r] EXCEPT !.pc = "exit"]
    BY <1>3, <1>9 DEF AfterFailure
  <2>2. Goes(r, "exit")
    BY <1>1, <1>3, <2>1, Runs DEF Goes
  <2> QED BY <1>3, <1>5, <2>2, ExitOK
<1> QED BY <1>7, <1>8, <1>9

-----------------------------------------------------------------------------
LEMMA RunStarts ==
  ASSUME RunInit
  PROVE  RInv
<1> DEFINE tree == IF StateDir = << >> THEN InitialTree ELSE Write(InitialTree, StateDir, Dir)
<1>1. /\ disk = [seen |-> tree, kept |-> tree] /\ NoStores
      /\ run = [r \in Runners |-> Off] /\ machine \in Loadings
  BY DEF RunInit, Durable
<1>2. DOMAIN tree \subseteq DOMAIN InitialTree \cup {StateDir}
      /\ DOMAIN InitialTree \subseteq DOMAIN tree
  BY DEF Write
<1> HIDE DEF tree
<1>3. /\ StateDir \notin {Parent, Root, Identity, CellsDir} /\ Elsewhere(StatePath)
      /\ StatePath \notin {Parent, Root, Identity, CellsDir}
      /\ StatePath # StateDir
      /\ \A c \in Cells : 0 \in Nat /\ StateDir # Pointer(c)
      /\ \A c \in Cells, a \in Nat : StateDir \notin Own(c, a)
  <2>1. 0 \in Nat
    OBVIOUS
  <2> QED BY <2>1, StatePaths DEF Elsewhere
<1>4. EmptyStore
  <2>1. CellsDir \in DOMAIN tree => Identity \in DOMAIN tree
    BY <1>2, <1>3, InitialPaths
  <2>2. \A c \in Cells : Pointer(c) \notin DOMAIN tree
    BY <1>2, <1>3, InitialPaths, TopApart
  <2>3. \A c \in Cells, a \in Nat : \A p \in Own(c, a) : p \notin DOMAIN tree
    BY <1>2, <1>3, InitialPaths, TopApart
  <2> QED BY <1>1, <2>1, <2>2, <2>3 DEF EmptyStore
<1>5. StatePath \notin DOMAIN tree
  BY <1>2, <1>3, InitialPaths
<1>6. ASSUME NEW r \in Runners
      PROVE  RunOK(run[r], attempt[r], call[r], known) /\ Started(disk, run[r], call[r])
  <2>1. run[r] = Off /\ call[r].method = "none"
    BY <1>1 DEF NoStores, NoCall
  <2> QED BY <2>1, OffOK
<1> QED BY <1>1, <1>4, <1>5, <1>6, EmptyStarts DEF RInv, StateOK

LEMMA WorkKeeps ==
  ASSUME RInv, NEW r \in Runners, Work(r)
  PROVE  RInv'
<1>1. CASE StartLoading(r) \/ Resume(r) \/ ReadRecords(r)
  BY <1>1, LoadingKeeps
<1>2. CASE StartCreating(r) \/ CreateRefused(r)
  BY <1>2, StartCreatingKeeps, CreateRefusedKeeps
<1>3. CASE OpenStore(r) \/ BeginCell(r) \/ StageResult(r) \/ StagePreview(r) \/ CommitCell(r)
  BY <1>3, OpenStoreKeeps, BeginCellKeeps, StageCellKeeps, CommitCellKeeps
<1>4. CASE StoreRefused(r) \/ WriterBusy(r)
  BY <1>4, RefusedKeeps
<1>5. CASE SkipComplete(r) \/ ConfirmLoad(r) \/ Measure(r) \/ NextCell(r) \/ CheckRecords(r)
  BY <1>5, SkipCompleteKeeps, ConfirmLoadKeeps, MeasureKeeps, NextCellKeeps, CheckRecordsKeeps
<1>6. CASE MarkInProgress(r) \/ MarkComplete(r)
  BY <1>6, MarkInProgressKeeps, MarkCompleteKeeps
<1>7. CASE Exit(r)
  <2>1. trouble' \in 0..MaxTrouble
    BY <1>7, Runs, Counters DEF Exit
  <2> QED BY <1>7, <2>1, EndedKeeps DEF Exit
<1>8. CASE CallStep(r)
  BY <1>8, CallStepKeeps
<1> QED BY <1>1, <1>2, <1>3, <1>4, <1>5, <1>6, <1>7, <1>8 DEF Work

LEMMA RunKeeps ==
  ASSUME RInv, [RunNext]_vars, PowerFails # "ever"
  PROVE  RInv'
<1>1. CASE Outage
  BY <1>1, OutageKeeps
<1>2. CASE Rearrange
  BY <1>2, RearrangeKeeps
<1>3. ASSUME NEW r \in Runners, Work(r) \/ CallFails(r) \/ PromptAborted(r) \/ Killed(r)
      PROVE  RInv'
  <2>1. CASE Killed(r)
    <3>1. trouble' \in 0..MaxTrouble
      BY <2>1, Runs, Counters, TroubleAssumption DEF Killed
    <3> QED BY <2>1, <3>1, EndedKeeps DEF Killed
  <2> QED BY <1>3, <2>1, WorkKeeps, CallFailsKeeps, PromptAbortedKeeps
<1>4. CASE UNCHANGED vars
  <2>1. IInv' /\ UNCHANGED <<disk, known, run, attempt, call, machine>>
    BY <1>4, StoreStutters DEF vars, storeVars, RInv
  <2> QED BY <2>1 DEF RInv
<1> QED BY <1>1, <1>2, <1>3, <1>4 DEF RunNext

LEMMA RunAlways ==
  ASSUME PowerFails # "ever"
  PROVE  RunSpec => []RInv
<1>1. RInv /\ [RunNext]_vars => RInv'
  BY RunKeeps
<1> QED BY <1>1, RunStarts, PTL DEF RunSpec

-----------------------------------------------------------------------------
LEMMA GoodBacked ==
  ASSUME RInv, NEW entries, GoodEntries(entries, known)
  PROVE  \A i \in DOMAIN Plan : BackedEntry(disk.seen, i, entries[i])
<1> SUFFICES ASSUME NEW i \in DOMAIN Plan, entries[i].at = "complete"
             PROVE  Backed(disk.seen, i, entries[i].result, entries[i].ref)
  BY DEF BackedEntry
<1>1. GoodEntry(i, entries[i], known)
  BY DEF GoodEntries
<1>2. Loads(disk.seen, entries[i].ref)
  BY <1>1, IInvLoads DEF RInv, GoodEntry, EverythingLoads
<1> QED BY <1>1, <1>2 DEF GoodEntry, Backed

LEMMA RInvBacked == RInv => CompleteIsBacked
<1> SUFFICES ASSUME RInv, Saved(disk.seen)
             PROVE  \A i \in DOMAIN Plan : BackedEntry(disk.seen, i, Entries[i])
  BY DEF CompleteIsBacked
<1>1. GoodEntries(Entries, known)
  BY DEF RInv, StateOK, Saved, Exists, Entries
<1> QED BY <1>1, GoodBacked

LEMMA RInvPublishes == RInv => PublishesWholeRun
<1> SUFFICES ASSUME RInv, NEW r \in Runners, run[r].pc = "done"
             PROVE  /\ AllComplete(run[r].entries)
                    /\ \A i \in DOMAIN Plan : BackedEntry(disk.seen, i, run[r].entries[i])
  BY DEF PublishesWholeRun
<1>1. GoodEntries(run[r].entries, known) /\ AllComplete(run[r].entries)
  BY Runs DEF RunOK
<1> QED BY <1>1, GoodBacked

LEMMA RInvTyped == RInv => RunTypeOK
<1> SUFFICES ASSUME RInv PROVE RunTypeOK
  OBVIOUS
<1>1. StoreTypeOK /\ machine \in Loadings
  BY IInvTyped DEF RInv
<1>2. Saved(disk.seen) =>
        \A i \in DOMAIN Plan : Entries[i].at \in {"pending", "in_progress", "complete"}
  BY DEF RInv, StateOK, Saved, Exists, Entries, GoodEntries, GoodEntry
<1>3. ASSUME NEW r \in Runners
      PROVE  /\ run[r].pc \in {"off", "store", "resume", "cell", "measure", "begin", "result",
                               "preview", "commit", "complete", "next", "records", "done", "exit"}
             /\ run[r].next \in 1..Len(Plan) + 1
             /\ run[r].preview \in BOOLEAN
             /\ run[r].confirmed \in Loadings \cup {"none"}
  BY Runs DEF RunOK
<1> QED BY <1>1, <1>2, <1>3 DEF RunTypeOK

(* At every moment, in the file that is seen and in the one that a power     *)
(* loss leaves, a complete entry's exact generation loads and carries the    *)
(* entry's result (mark_complete after _validate_committed_ref).             *)
THEOREM AlwaysBacked ==
  ASSUME PowerFails # "ever"
  PROVE  RunSpec => []CompleteIsBacked
BY RunAlways, RInvBacked, PTL

(* Who goes on to publish has every cell of the plan complete, and its       *)
(* evidence is there until it has published (completed_records_with_refs).   *)
THEOREM AlwaysWholeRun ==
  ASSUME PowerFails # "ever"
  PROVE  RunSpec => []PublishesWholeRun
BY RunAlways, RInvPublishes, PTL

(* With the run on top of it the store's ground stays: the run enters only    *)
(* writes of its state file besides the store's own methods.                  *)
LEMMA TameWrites ==
  ASSUME NEW entries, NEW settled
  PROVE  TameScript(CreateScript(entries), settled) /\ TameScript(SaveScript(entries), settled)
<1> DEFINE CS   == Create(StatePath, StateFile(entries), <<Sync(StateDir)>>)
           RS   == Replace(StatePath, StateFile(entries))
           sync == Sync(StateDir)
           S    == {CS}
<1>1. Elsewhere(StatePath) /\ StatePath # Identity
  BY StatePaths DEF Elsewhere
<1>2. Tame(CS, settled) /\ Tame(RS, settled) /\ Tame(sync, settled)
  BY <1>1 DEF Tame, Create, Replace, Sync
<1>3. CreateScript(entries) = <<CS>> /\ SaveScript(entries) = <<RS, sync>>
  BY DEF CreateScript, SaveScript
<1> HIDE DEF CS, RS, sync
<1>4. <<CS>> \in Seq(S) /\ \A step \in S : Tame(step, settled)
  BY <1>2
<1> HIDE DEF S
<1> QED BY <1>2, <1>3, <1>4, TameFrom, TameTwo

LEMMA WritesGround ==
  ASSUME Ground, NEW r \in Runners, NEW method \in {"create", "save"}, NEW entries,
         NEW script \in {CreateScript(entries), SaveScript(entries)},
         Enters(r, method, script, NoRef), Idle(r), UNCHANGED <<disk, lock, store>>
  PROVE  Ground' /\ (ShutOut(disk'.seen) => ShutOut(disk.seen))
<1>1. TameScript(script, IdentitySettled(disk)) /\ method # "open"
  BY TameWrites
<1>2. Locks(r)
  BY DEF Ground, Locks
<1> QED BY <1>1, <1>2, EntersGround

LEMMA LoadGround ==
  ASSUME Ground, NEW r \in Runners, NEW pc, Load(r, pc), Idle(r)
  PROVE  Ground' /\ (ShutOut(disk'.seen) => ShutOut(disk.seen))
<1>1. CASE UNCHANGED call
  BY <1>1, SameGround DEF Load
<1>2. CASE ~UNCHANGED call
  BY <1>2, WritesGround DEF Load
<1> QED BY <1>1, <1>2

LEMMA TransitionGround ==
  ASSUME Ground, NEW r \in Runners, NEW i, NEW current, NEW target, NEW pc,
         Transition(r, i, current, target, pc), Idle(r)
  PROVE  Ground' /\ (ShutOut(disk'.seen) => ShutOut(disk.seen))
<1>1. CASE Entries[i].at = current
  <2> DEFINE entries == [Entries EXCEPT ![i] = target]
  <2>1. Enters(r, "save", SaveScript(entries), NoRef) /\ UNCHANGED <<disk, lock, store>>
    BY <1>1 DEF Transition
  <2> HIDE DEF entries
  <2> QED BY <2>1, WritesGround
<1>2. CASE Entries[i].at # current
  BY <1>2, SameGround DEF Transition, storeVars
<1> QED BY <1>1, <1>2

LEMMA WorkGround ==
  ASSUME Ground, NEW r \in Runners, Work(r)
  PROVE  Ground' /\ (ShutOut(disk'.seen) => ShutOut(disk.seen))
<1>1. CASE StartLoading(r) \/ Resume(r) \/ ReadRecords(r)
  BY <1>1, LoadGround DEF StartLoading, Resume, ReadRecords, At
<1>2. CASE StartCreating(r)
  <2> DEFINE entries == [i \in DOMAIN Plan |-> Pending]
  <2>1. /\ Enters(r, "create", CreateScript(entries), NoRef) /\ Idle(r)
        /\ UNCHANGED <<disk, lock, store>>
    BY <1>2 DEF StartCreating, At
  <2> HIDE DEF entries
  <2> QED BY <2>1, WritesGround
<1>3. CASE CreateRefused(r)
  <2>1. /\ disk' = disk /\ call' = [call EXCEPT ![r] = NoCall]
        /\ store' = [store EXCEPT ![r] = store[r]]
    BY <1>3 DEF CreateRefused, Ground
  <2>2. Locks(r) /\ (store[r] = "open" => IdentitySettled(disk))
    BY <1>3 DEF CreateRefused, Ground, GroundOK, Locks
  <2> QED BY <2>1, <2>2, LeavesGround
<1>4. CASE OpenStore(r)
  BY <1>4, OpensGround DEF OpenStore
<1>5. CASE BeginCell(r)
  BY <1>5, CallsGround DEF BeginCell
<1>6. CASE StageResult(r) \/ StagePreview(r) \/ CommitCell(r)
  BY <1>6, CallsGround DEF StageResult, StagePreview, CommitCell
<1>7. CASE \/ StoreRefused(r) \/ WriterBusy(r) \/ SkipComplete(r) \/ ConfirmLoad(r)
           \/ Measure(r) \/ NextCell(r) \/ CheckRecords(r)
  <2>1. UNCHANGED storeVars
    BY <1>7 DEF StoreRefused, WriterBusy, SkipComplete, ConfirmLoad, Measure, NextCell, CheckRecords
  <2> QED BY <2>1, SameGround DEF storeVars
<1>8. CASE MarkInProgress(r)
  BY <1>8, TransitionGround DEF MarkInProgress, At
<1>9. CASE MarkComplete(r)
  <2>1. CASE Backed(disk.seen, Here(r), run[r].result, attempt[r].ref)
    BY <1>9, <2>1, TransitionGround DEF MarkComplete, At
  <2>2. CASE ~Backed(disk.seen, Here(r), run[r].result, attempt[r].ref)
    BY <1>9, <2>2, SameGround DEF MarkComplete, storeVars
  <2> QED BY <2>1, <2>2
<1>10. CASE Exit(r)
  BY <1>10, EndsGround DEF Exit
<1>11. CASE CallStep(r)
  BY <1>11, FileStepGround, ReturnGround DEF CallStep
<1> QED
  BY <1>1, <1>2, <1>3, <1>4, <1>5, <1>6, <1>7, <1>8, <1>9, <1>10, <1>11 DEF Work

LEMMA RunStepGround ==
  ASSUME Ground, [RunNext]_vars
  PROVE  Ground' /\ NotShutOut
<1>1. CASE Outage
  BY <1>1, PowerLossGround, GroundShutsNobodyOut DEF Outage
<1>2. CASE ~Outage
  <2>1. Ground' /\ (ShutOut(disk'.seen) => ShutOut(disk.seen))
    <3>1. CASE UNCHANGED vars \/ Rearrange
      BY <3>1, SameGround DEF vars, storeVars, Rearrange
    <3>2. ASSUME NEW r \in Runners, Work(r) \/ CallFails(r) \/ PromptAborted(r) \/ Killed(r)
          PROVE  Ground' /\ (ShutOut(disk'.seen) => ShutOut(disk.seen))
      <4>1. CASE Work(r)
        BY <4>1, WorkGround
      <4>2. CASE CallFails(r)
        BY <4>2, StepFailsGround DEF CallFails
      <4>3. CASE PromptAborted(r)
        BY <4>3, SameGround DEF PromptAborted
      <4>4. CASE Killed(r)
        BY <4>4, EndsGround DEF Killed
      <4> QED BY <3>2, <4>1, <4>2, <4>3, <4>4
    <3> QED BY <1>2, <3>1, <3>2 DEF RunNext
  <2> QED BY <2>1, GroundShutsNobodyOut
<1> QED BY <1>1, <1>2

LEMMA RunInitGround ==
  ASSUME RunInit
  PROVE  Ground
<1> DEFINE tree == IF StateDir = << >> THEN InitialTree ELSE Write(InitialTree, StateDir, Dir)
<1>1. disk = [seen |-> tree, kept |-> tree] /\ NoStores
  BY DEF RunInit, Durable
<1>2. DOMAIN tree \subseteq DOMAIN InitialTree \cup {StateDir}
  BY DEF Write
<1> HIDE DEF tree
<1>3. \A c \in Cells : CellDir(c) # StateDir
  <2>1. 0 \in Nat /\ \A c : CellDir(c) \in Dirs(c, 0)
    BY DEF Dirs
  <2> QED BY <2>1, StatePaths DEF Elsewhere
<1>4. NoCellBegun(disk)
  BY <1>1, <1>2, <1>3, InitialGround DEF NoCellBegun
<1> QED BY <1>1, <1>4, EmptyGround

(* Wherever the power may fail, a run of several processes, interrupted and   *)
(* started again, makes no root that a later one is refused, unless the power *)
(* fails before any cell was begun (_create_or_check_run_root); and the       *)
(* writer lock is held by an open store.                                      *)
THEOREM RunShutsNobodyOut == RunSpec => NobodyShutOut
<1>1. Ground /\ [RunNext]_vars => Ground' /\ [NotShutOut]_storeVars
  BY RunStepGround
<1> QED BY <1>1, RunInitGround, PTL DEF RunSpec, NobodyShutOut, NotShutOut

(* And every reference anyone was given loads.                               *)
THEOREM RunAlwaysLoads ==
  ASSUME PowerFails # "ever"
  PROVE  RunSpec => []EverythingLoads
<1>1. RInv => EverythingLoads
  BY IInvLoads DEF RInv
<1> QED BY <1>1, RunAlways, PTL

(* The state of the run is of its types.                                     *)
THEOREM RunTyped ==
  ASSUME PowerFails # "ever"
  PROVE  RunSpec => []RunTypeOK
BY RunAlways, RInvTyped, PTL

-----------------------------------------------------------------------------
(* What a single process is promised: nobody else turns to the device, and   *)
(* nobody else writes the state file.                                        *)
Solo == \A q, s \in Runners : q = s

(* What the process has confirmed is how the device is, and a process that   *)
(* is started has confirmed nothing.                                         *)
LoadInv ==
  /\ run = [r \in Runners |-> run[r]]
  /\ \A r \in Runners :
       /\ DOMAIN run[r] = {"pc", "entries", "next", "result", "preview", "confirmed"}
       /\ run[r].confirmed \in {"none", machine}
       /\ run[r].pc = "off" => run[r].confirmed = "none"

(* A step that confirms nothing; only when nothing is left to confirm does   *)
(* it go on from "measure".                                                  *)
ConfirmsNothing(r, x) ==
  /\ run' = [run EXCEPT ![r] = x] /\ machine' = machine
  /\ DOMAIN x = DOMAIN run[r] /\ x.confirmed = run[r].confirmed /\ x.pc # "off"
  /\ (run[r].pc = "measure" /\ x.pc = "begin") => ~Unconfirmed(r)

MeasuredNow ==
  \A r \in Runners :
    run[r].pc = "measure" /\ run'[r].pc = "begin" => HostLoad[Plan[Here(r)]] \in {"none", machine}

LEMMA ConfirmedKept ==
  ASSUME Solo, LoadInv, NEW r \in Runners, NEW x, ConfirmsNothing(r, x)
  PROVE  LoadInv' /\ MeasuredNow
<1>1. run'[r] = x /\ \A q \in Runners : q = r
  BY DEF Solo, LoadInv, ConfirmsNothing
<1>2. LoadInv'
  BY <1>1 DEF LoadInv, ConfirmsNothing
<1> QED BY <1>1, <1>2 DEF LoadInv, ConfirmsNothing, MeasuredNow, Unconfirmed

LEMMA GoesConfirms ==
  ASSUME Solo, LoadInv, NEW r \in Runners, NEW pc, Goes(r, pc), machine' = machine,
         pc \notin {"off", "begin"}
  PROVE  LoadInv' /\ MeasuredNow
<1> DEFINE x == [run[r] EXCEPT !.pc = pc]
<1>1. ConfirmsNothing(r, x)
  BY DEF LoadInv, Goes, ConfirmsNothing
<1> QED BY <1>1, ConfirmedKept

LEMMA LoadConfirms ==
  ASSUME Solo, LoadInv, NEW r \in Runners, NEW pc \in {"store", "cell", "records"}, Load(r, pc)
  PROVE  LoadInv' /\ MeasuredNow
<1> DEFINE x == [run[r] EXCEPT !.pc = pc, !.entries = Recovered(Entries), !.next = 1]
<1>1. run' = [run EXCEPT ![r] = x] /\ machine' = machine
  BY DEF Load
<1>2. DOMAIN x = DOMAIN run[r] /\ x.confirmed = run[r].confirmed /\ x.pc = pc
  BY DEF LoadInv
<1> HIDE DEF x
<1>3. ConfirmsNothing(r, x)
  BY <1>1, <1>2 DEF ConfirmsNothing
<1> QED BY <1>3, ConfirmedKept

LEMMA TransitionConfirms ==
  ASSUME Solo, LoadInv, NEW r \in Runners, NEW i, NEW current, NEW target,
         NEW pc \in {"measure", "next"}, Transition(r, i, current, target, pc)
  PROVE  LoadInv' /\ MeasuredNow
<1>1. CASE Entries[i].at = current
  <2> DEFINE x == [run[r] EXCEPT !.pc = pc, !.entries = [Entries EXCEPT ![i] = target]]
  <2>1. run' = [run EXCEPT ![r] = x] /\ machine' = machine
    BY <1>1 DEF Transition
  <2>2. DOMAIN x = DOMAIN run[r] /\ x.confirmed = run[r].confirmed /\ x.pc = pc
    BY DEF LoadInv
  <2> HIDE DEF x
  <2>3. ConfirmsNothing(r, x)
    BY <2>1, <2>2 DEF ConfirmsNothing
  <2> QED BY <2>3, ConfirmedKept
<1>2. CASE Entries[i].at # current
  BY <1>2, GoesConfirms DEF Transition
<1> QED BY <1>1, <1>2

LEMMA WorkConfirms ==
  ASSUME Solo, LoadInv, NEW r \in Runners, Work(r)
  PROVE  LoadInv' /\ MeasuredNow
<1>1. CASE StartLoading(r) \/ Resume(r) \/ ReadRecords(r)
  BY <1>1, LoadConfirms DEF StartLoading, Resume, ReadRecords
<1>2. CASE StartCreating(r)
  <2> DEFINE x == [run[r] EXCEPT !.pc = "store", !.entries = [i \in DOMAIN Plan |-> Pending]]
  <2>1. run' = [run EXCEPT ![r] = x] /\ machine' = machine
    BY <1>2 DEF StartCreating
  <2>2. DOMAIN x = DOMAIN run[r] /\ x.confirmed = run[r].confirmed /\ x.pc = "store"
    BY DEF LoadInv
  <2> HIDE DEF x
  <2>3. ConfirmsNothing(r, x)
    BY <2>1, <2>2 DEF ConfirmsNothing
  <2> QED BY <2>3, ConfirmedKept
<1>3. CASE CreateRefused(r) \/ OpenStore(r) \/ StoreRefused(r) \/ WriterBusy(r) \/ BeginCell(r)
           \/ StageResult(r) \/ StagePreview(r) \/ CommitCell(r) \/ CheckRecords(r)
  <2>1. \E pc \in {"exit", "resume", "result", "preview", "commit", "complete", "done"} :
          Goes(r, pc) /\ machine' = machine
    BY <1>3 DEF CreateRefused, OpenStore, StoreRefused, WriterBusy, BeginCell, StageResult,
                StagePreview, CommitCell, CheckRecords
  <2> QED BY <2>1, GoesConfirms
<1>4. CASE SkipComplete(r)
  <2> DEFINE x == [run[r] EXCEPT !.next = @ + 1]
  <2>1. CASE run' = [run EXCEPT ![r].pc = "exit"]
    <3>1. Goes(r, "exit") /\ machine' = machine
      BY <1>4, <2>1 DEF SkipComplete, Goes
    <3> QED BY <3>1, GoesConfirms
  <2>2. CASE run' = [run EXCEPT ![r].next = @ + 1]
    <3>1. ConfirmsNothing(r, x)
      BY <1>4, <2>2 DEF LoadInv, ConfirmsNothing, SkipComplete, At
    <3> QED BY <3>1, ConfirmedKept
  <2> QED BY <1>4, <2>1, <2>2 DEF SkipComplete
<1>5. CASE MarkInProgress(r) \/ MarkComplete(r)
  <2>1. CASE MarkInProgress(r)
    BY <2>1, TransitionConfirms DEF MarkInProgress
  <2>2. CASE MarkComplete(r)
    BY <2>2, TransitionConfirms, GoesConfirms DEF MarkComplete
  <2> QED BY <1>5, <2>1, <2>2
<1>6. CASE ConfirmLoad(r)
  <2>1. /\ run[r].pc = "measure" /\ run' = [run EXCEPT ![r].confirmed = machine']
    BY <1>6 DEF ConfirmLoad, At
  <2>2. /\ run'[r].confirmed = machine' /\ run'[r].pc = "measure"
        /\ DOMAIN run'[r] = DOMAIN run[r] /\ run' = [q \in Runners |-> run'[q]]
    BY <2>1 DEF LoadInv
  <2> QED BY <2>2 DEF LoadInv, Solo, MeasuredNow
<1>7. CASE Measure(r)
  <2>1. PICK v \in Payloads, preview \in BOOLEAN :
          run' = [run EXCEPT ![r].pc = "begin", ![r].result = v, ![r].preview = preview]
    BY <1>7 DEF Measure
  <2> DEFINE x == [run[r] EXCEPT !.pc = "begin", !.result = v, !.preview = preview]
  <2>2. run' = [run EXCEPT ![r] = x]
    BY <2>1
  <2>3. DOMAIN x = DOMAIN run[r] /\ x.confirmed = run[r].confirmed /\ x.pc = "begin"
    BY DEF LoadInv
  <2> HIDE DEF x
  <2>4. ConfirmsNothing(r, x)
    BY <1>7, <2>2, <2>3 DEF ConfirmsNothing, Measure
  <2> QED BY <2>4, ConfirmedKept
<1>8. CASE NextCell(r)
  <2> DEFINE x == [run[r] EXCEPT !.pc = "cell", !.next = @ + 1]
  <2>1. ConfirmsNothing(r, x)
    BY <1>8 DEF LoadInv, ConfirmsNothing, NextCell
  <2> QED BY <2>1, ConfirmedKept
<1>9. CASE Exit(r)
  <2>1. run' = [run EXCEPT ![r] = Off] /\ machine' = machine
    BY <1>9 DEF Exit, Ended
  <2> QED BY <2>1 DEF LoadInv, Solo, MeasuredNow, Off
<1>10. CASE CallStep(r)
  BY <1>10 DEF CallStep, LoadInv, MeasuredNow
<1> QED BY <1>1, <1>2, <1>3, <1>4, <1>5, <1>6, <1>7, <1>8, <1>9, <1>10 DEF Work

LEMMA NextConfirms ==
  ASSUME Solo, LoadInv, RunNext
  PROVE  LoadInv' /\ MeasuredNow
<1>1. CASE Outage
  BY <1>1 DEF Outage, Ended, Off, LoadInv, MeasuredNow
<1>2. CASE Rearrange
  <2>1. run' = run /\ \A r \in Runners : run[r].pc = "off"
    BY <1>2 DEF Rearrange
  <2> QED BY <2>1 DEF LoadInv, MeasuredNow
<1>3. ASSUME NEW r \in Runners, CallFails(r) \/ PromptAborted(r) PROVE LoadInv' /\ MeasuredNow
  <2>1. CASE PromptAborted(r)
    BY <2>1, GoesConfirms DEF PromptAborted
  <2>2. CASE CallFails(r)
    <3> DEFINE x == AfterFailure(r)
    <3>1. run' = [run EXCEPT ![r] = x] /\ machine' = machine
      BY <2>2 DEF CallFails
    <3>2. \/ run[r].pc = "commit" /\ x = [run[r] EXCEPT !.pc = "begin", !.preview = FALSE]
          \/ x = run[r]
          \/ x = [run[r] EXCEPT !.pc = "exit"]
      BY DEF AfterFailure
    <3>3. /\ DOMAIN x = DOMAIN run[r] /\ x.confirmed = run[r].confirmed
          /\ \/ run[r].pc = "commit" /\ x.pc = "begin"
             \/ x.pc = run[r].pc
             \/ x.pc = "exit"
      BY <3>2 DEF LoadInv
    <3> HIDE DEF x
    <3>4. run'[r] = x /\ run' = [q \in Runners |-> run'[q]] /\ \A q \in Runners : q = r
      BY <3>1 DEF LoadInv, Solo
    <3> QED BY <3>1, <3>3, <3>4 DEF LoadInv, MeasuredNow
  <2> QED BY <1>3, <2>1, <2>2
<1>4. ASSUME NEW r \in Runners, Killed(r) PROVE LoadInv' /\ MeasuredNow
  <2>1. run' = [run EXCEPT ![r] = Off] /\ machine' = machine
    BY <1>4 DEF Killed, Ended
  <2> QED BY <2>1 DEF LoadInv, Solo, MeasuredNow, Off
<1> QED BY <1>1, <1>2, <1>3, <1>4, WorkConfirms DEF RunNext

(* No CUDA cell is measured under another load than its own by the only      *)
(* process that uses the device: _run_cell waits at the load boundary, and a *)
(* process that is started again confirms again.                             *)
THEOREM AlwaysMeasured ==
  ASSUME Solo
  PROVE  RunSpec => MeasuredUnderItsLoad
<1>1. RunInit => LoadInv
  BY DEF RunInit, LoadInv, Off
<1>2. LoadInv /\ [RunNext]_vars => LoadInv' /\ [MeasuredNow]_vars
  <2>1. LoadInv /\ UNCHANGED vars => LoadInv'
    BY DEF LoadInv, vars
  <2> QED BY <2>1, NextConfirms
<1> QED BY <1>1, <1>2, PTL DEF RunSpec, MeasuredUnderItsLoad, MeasuredNow

-----------------------------------------------------------------------------
(* The ledger.  What is recorded durably and what is seen differ by at most  *)
(* one entry, and none while a cell is measured and committed.               *)
RecordOf(entries) ==
  [i \in DOMAIN Plan |-> IF entries[i].at = "complete" THEN entries[i] ELSE Pending]

Unwritten == [i \in DOMAIN Plan |-> Pending]

RecordIn(tree) ==
  IF StatePath \in DOMAIN tree THEN RecordOf(tree[StatePath].entries) ELSE Unwritten

(* b is a with the entry i, the first that a does not have. *)
Adds(a, b, i) ==
  /\ a[i] = Pending /\ \A j \in 1..i - 1 : a[j] # Pending
  /\ b[i] # Pending /\ b = [a EXCEPT ![i] = b[i]]

Grows(a, b) == b = a \/ \E i \in DOMAIN Plan : Adds(a, b, i)

(* A write k of the state file: what it has to bring in, and what it settles. *)
SavingOK(d, entries, k) ==
  \/ /\ k.method = "create" /\ k.todo = CreateScript(entries)
     /\ RecordOf(entries) = Unwritten
  \/ /\ k.method = "save" /\ k.todo = SaveScript(entries) /\ StatePath \in DOMAIN d.seen
     /\ \/ RecordOf(entries) = RecordIn(d.seen)
        \/ SameEntry(d, StatePath) /\ Grows(RecordIn(d.seen), RecordOf(entries))
  \/ /\ k.todo = <<Sync(StateDir)>> /\ StatePath \in DOMAIN d.seen
     /\ d.seen[StatePath].entries = entries
  \/ k.todo = << >> /\ SameEntry(d, StatePath) /\ d.seen[StatePath].entries = entries

Measuring == {"measure", "begin", "result", "preview", "commit", "complete"}

(* The loop knows what the state file holds, and the cells before the one it *)
(* is at are complete.                                                       *)
LoopOK(d, x, k) ==
  /\ x.pc = "exit" => k.method = "none"
  /\ x.pc \notin {"off", "exit"} =>
       /\ k.method \in {"create", "save"} => SavingOK(d, x.entries, k)
       /\ k.method \notin {"create", "save"} =>
            /\ StatePath \in DOMAIN d.seen /\ d.seen[StatePath].entries = x.entries
            /\ x.pc \in Measuring => SameEntry(d, StatePath)
       /\ x.pc \in Measuring \cup {"cell", "next"} =>
            \A j \in DOMAIN Plan : j < x.next => x.entries[j].at = "complete"
       /\ x.pc = "next" => x.entries[x.next].at = "complete"

FileOK(d) ==
  /\ Grows(RecordIn(d.kept), RecordIn(d.seen))
  /\ StateDir = << >> \/ SameEntry(d, StateDir)

LInv ==
  /\ RInv /\ Solo
  /\ FileOK(disk)
  /\ \A r \in Runners : LoopOK(disk, run[r], call[r])

(* What a step may do to the durable record. *)
LedgerStep == Grows(RecordIn(disk.kept), RecordIn(disk'.kept))

-----------------------------------------------------------------------------
LEMMA SoloMoves ==
  ASSUME LInv, RInv', NEW r \in Runners, FileOK(disk'), LoopOK(disk', run'[r], call'[r])
  PROVE  LInv'
BY DEF LInv, Solo

(* Most steps leave the files alone.                                         *)
LEMMA QuietLedger ==
  ASSUME LInv, RInv', NEW r \in Runners, disk' = disk, LoopOK(disk, run'[r], call'[r])
  PROVE  LInv' /\ LedgerStep
<1>1. FileOK(disk') /\ LedgerStep
  BY DEF LInv, FileOK, LedgerStep, Grows
<1> QED BY <1>1, SoloMoves

LEMMA Loops ==
  ASSUME LInv, NEW r \in Runners
  PROVE  /\ RInv /\ FileOK(disk) /\ LoopOK(disk, run[r], call[r])
         /\ RunOK(run[r], attempt[r], call[r], known)
         /\ run = [q \in Runners |-> run[q]] /\ call = [q \in Runners |-> call[q]]
BY Runs DEF LInv

LEMMA ExitLedger ==
  ASSUME LInv, RInv', NEW r \in Runners, disk' = disk, run'[r].pc \in {"off", "exit"},
         call'[r].method = "none"
  PROVE  LInv' /\ LedgerStep
BY QuietLedger DEF LoopOK

LEMMA RecordsEntries ==
  ASSUME RInv, StatePath \in DOMAIN disk.seen
  PROVE  GoodEntries(Entries, known) /\ RecordIn(disk.seen) = RecordOf(Entries)
BY DEF RInv, StateOK, RecordIn, Entries

LEMMA LoadLedger ==
  ASSUME LInv, RInv', NEW r \in Runners, StatePath \in DOMAIN disk.seen, Idle(r),
         NEW pc \in {"store", "cell", "records"}, Load(r, pc)
  PROVE  LInv' /\ LedgerStep
<1> DEFINE entries == Recovered(Entries)
<1>1. /\ run' = [run EXCEPT ![r].pc = pc, ![r].entries = entries, ![r].next = 1]
      /\ IF entries # Entries
         THEN Enters(r, "save", SaveScript(entries), NoRef)
         ELSE UNCHANGED call
      /\ disk' = disk
  BY DEF Load
<1>2. RecordOf(entries) = RecordIn(disk.seen)
  <2>1. DOMAIN Entries = DOMAIN Plan /\ RecordIn(disk.seen) = RecordOf(Entries)
    BY RecordsEntries, Loops DEF GoodEntries
  <2>2. InProgress.at # "complete" /\ Pending.at # "complete"
    BY DEF InProgress, Pending
  <2>3. \A i \in DOMAIN Plan :
          IF entries[i].at = "complete" THEN Entries[i].at = "complete" /\ entries[i] = Entries[i]
                                        ELSE Entries[i].at # "complete"
    BY <2>1, <2>2 DEF Recovered
  <2> HIDE DEF entries
  <2> QED BY <2>1, <2>3 DEF RecordOf
<1> HIDE DEF entries
<1>3. run'[r].pc = pc /\ run'[r].entries = entries /\ run'[r].next = 1
  BY <1>1, Loops DEF RunOK
<1>4. \A j \in DOMAIN Plan : ~(j < run'[r].next)
  BY <1>3, PlanIndices
<1>5. CASE entries # Entries
  <2>1. call'[r].method = "save" /\ call'[r].todo = SaveScript(entries)
    BY <1>1, <1>5, Loops DEF Enters
  <2>2. SavingOK(disk, entries, call'[r])
    BY <1>2, <2>1 DEF SavingOK
  <2> QED BY <1>1, <1>3, <1>4, <2>1, <2>2, QuietLedger DEF LoopOK, Measuring
<1>6. CASE entries = Entries
  <2>1. call'[r].method = "none"
    BY <1>1, <1>6 DEF Idle
  <2>2. disk.seen[StatePath].entries = entries
    BY <1>6 DEF Entries
  <2> QED BY <1>1, <1>3, <1>4, <2>1, <2>2, QuietLedger DEF LoopOK, Measuring
<1> QED BY <1>5, <1>6

LEMMA StartCreatingLedger ==
  ASSUME LInv, RInv', NEW r \in Runners, StartCreating(r)
  PROVE  LInv' /\ LedgerStep
<1> DEFINE entries == [i \in DOMAIN Plan |-> Pending]
<1>1. /\ run' = [run EXCEPT ![r].pc = "store", ![r].entries = entries]
      /\ Enters(r, "create", CreateScript(entries), NoRef)
      /\ disk' = disk
  BY DEF StartCreating
<1>2. RecordOf(entries) = Unwritten
  BY DEF RecordOf, Unwritten, Pending
<1> HIDE DEF entries
<1>3. run'[r].pc = "store" /\ run'[r].entries = entries
  BY <1>1, Loops DEF RunOK
<1>4. call'[r].method = "create" /\ call'[r].todo = CreateScript(entries)
  BY <1>1, Loops DEF Enters
<1>5. SavingOK(disk, entries, call'[r])
  BY <1>2, <1>4 DEF SavingOK
<1> QED BY <1>1, <1>3, <1>4, <1>5, QuietLedger DEF LoopOK, Measuring

(* A transition saves the entries with the one it is at changed.             *)
LEMMA TransitionLedger ==
  ASSUME LInv, RInv', NEW r \in Runners, Idle(r), run[r].pc \in Measuring \cup {"cell"},
         run[r].next \in DOMAIN Plan, NEW current, NEW target,
         NEW pc \in {"measure", "next"}, Transition(r, run[r].next, current, target, pc),
         pc = "next" => target.at = "complete",
         \/ current # "complete" /\ target.at # "complete"
         \/ /\ current # "complete" /\ target.at = "complete"
            /\ SameEntry(disk, StatePath)
  PROVE  LInv' /\ LedgerStep
<1> DEFINE i       == run[r].next
           entries == [Entries EXCEPT ![i] = target]
<1>1. CASE Entries[i].at = current
  <2>1. /\ run' = [run EXCEPT ![r].pc = pc, ![r].entries = entries]
        /\ Enters(r, "save", SaveScript(entries), NoRef)
        /\ disk' = disk
    BY <1>1 DEF Transition
  <2>2. StatePath \in DOMAIN disk.seen /\ Entries = run[r].entries
    BY Loops DEF LoopOK, Idle, Entries, Measuring
  <2>3. /\ DOMAIN Entries = DOMAIN Plan /\ RecordIn(disk.seen) = RecordOf(Entries)
    BY <2>2, RecordsEntries, Loops DEF GoodEntries
  <2>4. /\ entries[i] = target /\ DOMAIN entries = DOMAIN Plan
        /\ \A j \in DOMAIN Plan : j # i => entries[j] = Entries[j]
    BY <2>3
  <2>5. \A j \in DOMAIN Plan : j < i => Entries[j].at = "complete"
    BY <2>2, Loops DEF LoopOK, Measuring
  <2> HIDE DEF entries
  <2>6. CASE target.at # "complete"
    <3>1. Entries[i].at # "complete"
      BY <1>1, <2>6
    <3>2. RecordOf(entries) = RecordOf(Entries)
      BY <2>3, <2>4, <2>6, <3>1 DEF RecordOf
    <3> QED
      <4>1. run'[r].pc = pc /\ run'[r].entries = entries /\ run'[r].next = i
        BY <2>1, Loops DEF RunOK
      <4>2. call'[r].method = "save" /\ call'[r].todo = SaveScript(entries)
        BY <2>1, Loops DEF Enters
      <4>3. SavingOK(disk, entries, call'[r])
        BY <2>2, <2>3, <3>2, <4>2 DEF SavingOK
      <4>4. \A j \in DOMAIN Plan : j < i => entries[j].at = "complete"
        BY <2>4, <2>5, PlanIndices
      <4> QED BY <2>1, <2>6, <4>1, <4>2, <4>3, <4>4, QuietLedger DEF LoopOK, Measuring
  <2>7. CASE target.at = "complete"
    <3>1. SameEntry(disk, StatePath) /\ Entries[i].at # "complete"
      BY <1>1, <2>7
    <3> DEFINE a == RecordOf(Entries)
               b == RecordOf(entries)
    <3>2. /\ a[i] = Pending /\ b[i] = target /\ target # Pending
          /\ \A j \in DOMAIN Plan : j < i => a[j] = Entries[j] /\ Entries[j] # Pending
      BY <2>4, <2>5, <2>7, <3>1 DEF RecordOf, Pending
    <3>3. DOMAIN a = DOMAIN Plan /\ DOMAIN b = DOMAIN Plan
          /\ \A j \in DOMAIN Plan : j # i => b[j] = a[j]
      BY <2>4 DEF RecordOf
    <3>4. a = [j \in DOMAIN Plan |-> a[j]] /\ b = [j \in DOMAIN Plan |-> b[j]]
      BY DEF RecordOf
    <3> HIDE DEF a, b
    <3>5. b = [a EXCEPT ![i] = b[i]]
      BY <3>3, <3>4
    <3>6. \A j \in 1..i - 1 : a[j] # Pending
      BY <3>2, PlanIndices
    <3>7. Adds(a, b, i)
      BY <3>2, <3>5, <3>6 DEF Adds
    <3>8. Grows(RecordIn(disk.seen), RecordOf(entries))
      BY <2>3, <3>7 DEF Grows, a, b
    <3> QED
      <4>1. run'[r].pc = pc /\ run'[r].entries = entries /\ run'[r].next = i
        BY <2>1, Loops DEF RunOK
      <4>2. call'[r].method = "save" /\ call'[r].todo = SaveScript(entries)
        BY <2>1, Loops DEF Enters
      <4>3. SavingOK(disk, entries, call'[r])
        BY <2>2, <3>1, <3>8, <4>2 DEF SavingOK
      <4>4. \A j \in DOMAIN Plan : j < i => entries[j].at = "complete"
        BY <2>4, <2>5, PlanIndices
      <4> QED BY <2>1, <2>4, <4>1, <4>2, <4>3, <4>4, <2>7, QuietLedger DEF LoopOK, Measuring
  <2> QED BY <2>6, <2>7
<1>2. CASE Entries[i].at # current
  <2>1. Goes(r, "exit") /\ disk' = disk /\ call'[r].method = "none"
    BY <1>2 DEF Transition, storeVars, Idle
  <2> QED BY <2>1, GoesRecord, Loops, ExitLedger
<1> QED BY <1>1, <1>2

LEMMA MarkLedger ==
  ASSUME LInv, RInv', NEW r \in Runners, MarkInProgress(r) \/ MarkComplete(r)
  PROVE  LInv' /\ LedgerStep
<1>1. CASE MarkInProgress(r)
  <2>1. /\ Idle(r) /\ run[r].pc = "cell" /\ run[r].next <= Len(Plan)
        /\ Transition(r, run[r].next, "pending", InProgress, "measure")
    BY <1>1 DEF MarkInProgress, At, Here
  <2>2. run[r].next \in DOMAIN Plan
    BY <2>1, Loops, PlanIndices DEF RunOK
  <2>3. InProgress.at # "complete"
    BY DEF InProgress
  <2> QED BY <2>1, <2>2, <2>3, TransitionLedger
<1>2. CASE MarkComplete(r)
  <2> DEFINE v   == run[r].result
             ref == attempt[r].ref
             i   == run[r].next
  <2>1. /\ Idle(r) /\ run[r].pc = "complete"
        /\ IF Backed(disk.seen, i, v, ref)
           THEN Transition(r, i, "in_progress", Complete(v, ref), "next")
           ELSE Goes(r, "exit") /\ UNCHANGED <<storeVars, machine>>
    BY <1>2 DEF MarkComplete, At, Here
  <2>2. i \in DOMAIN Plan /\ SameEntry(disk, StatePath)
    BY <2>1, Loops DEF RunOK, LoopOK, Idle, Measuring
  <2>3. Complete(v, ref).at = "complete"
    BY DEF Complete
  <2>4. CASE Backed(disk.seen, i, v, ref)
    BY <2>1, <2>2, <2>3, <2>4, TransitionLedger DEF Measuring
  <2>5. CASE ~Backed(disk.seen, i, v, ref)
    <3>1. Goes(r, "exit") /\ disk' = disk /\ call'[r].method = "none"
      BY <2>1, <2>5 DEF storeVars, Idle
    <3> QED BY <3>1, GoesRecord, Loops, ExitLedger
  <2> QED BY <2>4, <2>5
<1> QED BY <1>1, <1>2

(* The steps that leave the entries as they are. *)
LEMMA SameEntries ==
  ASSUME LInv, RInv', NEW r \in Runners, disk' = disk,
         run[r].pc \notin {"off", "exit"}, call[r].method \notin {"create", "save"},
         call'[r].method \notin {"create", "save"},
         run'[r].entries = run[r].entries, run'[r].next = run[r].next,
         \/ run'[r].pc \in Measuring /\ run[r].pc \in Measuring
         \/ run'[r].pc \in {"resume", "done"}
  PROVE  LInv' /\ LedgerStep
<1>1. LoopOK(disk, run'[r], call'[r])
  BY Loops DEF LoopOK, Measuring
<1> QED BY <1>1, QuietLedger

LEMMA GoesLedger ==
  ASSUME LInv, RInv', NEW r \in Runners, disk' = disk, Idle(r),
         run[r].pc \notin {"off", "exit"}, call'[r].method \notin {"create", "save"},
         NEW pc, Goes(r, pc),
         \/ pc \in Measuring /\ run[r].pc \in Measuring
         \/ pc \in {"resume", "done"}
         \/ pc = "exit" /\ call'[r].method = "none"
  PROVE  LInv' /\ LedgerStep
<1>1. call[r].method \notin {"create", "save"}
  BY DEF Idle
<1>2. run'[r].pc = pc /\ run'[r].entries = run[r].entries /\ run'[r].next = run[r].next
  BY GoesRecord, Loops
<1> QED BY <1>1, <1>2, SameEntries, ExitLedger

LEMMA CountLedger ==
  ASSUME LInv, RInv', NEW r \in Runners, SkipComplete(r) \/ NextCell(r)
  PROVE  LInv' /\ LedgerStep
<1>1. /\ Idle(r) /\ disk' = disk /\ call' = call
  BY DEF SkipComplete, NextCell, At, storeVars
<1>2. call[r].method \notin {"create", "save"} /\ run[r].pc \in {"cell", "next"}
  BY <1>1 DEF Idle, SkipComplete, NextCell, At
<1>3. CASE run' = [run EXCEPT ![r].pc = "exit"]
  <2>1. run'[r].pc = "exit"
    BY <1>3, Loops DEF RunOK
  <2> QED BY <1>1, <2>1, ExitLedger DEF Idle
<1>4. CASE \/ run' = [run EXCEPT ![r].next = @ + 1] /\ run[r].pc = "cell"
           \/ run' = [run EXCEPT ![r].pc = "cell", ![r].next = @ + 1]
  <2>1. run'[r].pc = "cell" /\ run'[r].entries = run[r].entries
        /\ run'[r].next = run[r].next + 1 /\ run[r].next \in Nat
    BY <1>4, Loops, PlanIndices DEF RunOK
  <2>2. CASE run[r].entries[run[r].next].at = "complete"
    <3>1. \A j \in DOMAIN Plan : j < run[r].next => run[r].entries[j].at = "complete"
      BY <1>2, Loops DEF LoopOK
    <3>2. \A j \in DOMAIN Plan : j < run'[r].next => run'[r].entries[j].at = "complete"
      BY <2>1, <2>2, <3>1, PlanIndices
    <3>3. StatePath \in DOMAIN disk.seen /\ disk.seen[StatePath].entries = run[r].entries
      BY <1>2, Loops DEF LoopOK
    <3> QED BY <1>1, <1>2, <2>1, <3>2, <3>3, QuietLedger DEF LoopOK, Measuring
  <2>3. CASE run[r].entries[run[r].next].at # "complete"
    BY <1>2, <2>3, <1>4, <2>1, Loops DEF LoopOK, SkipComplete, NextCell, At, Here
  <2> QED BY <2>2, <2>3
<1> QED BY <1>3, <1>4 DEF SkipComplete, NextCell, At

LEMMA LoopLedger ==
  ASSUME LInv, RInv', NEW r \in Runners,
         \/ OpenStore(r) \/ StoreRefused(r) \/ ConfirmLoad(r) \/ Measure(r) \/ WriterBusy(r)
         \/ BeginCell(r) \/ StageResult(r) \/ StagePreview(r) \/ CommitCell(r) \/ CheckRecords(r)
  PROVE  LInv' /\ LedgerStep
<1>1. CASE OpenStore(r)
  <2>1. /\ Idle(r) /\ run[r].pc = "store" /\ disk' = disk /\ Goes(r, "resume")
        /\ call'[r].method = "open"
    BY <1>1, Loops DEF OpenStore, At, Open, Enters
  <2> QED BY <2>1, GoesLedger
<1>2. CASE StoreRefused(r) \/ WriterBusy(r)
  <2>1. Goes(r, "exit") /\ disk' = disk /\ call'[r].method = "none"
    BY <1>2 DEF StoreRefused, WriterBusy, storeVars, At, Idle
  <2> QED BY <2>1, GoesRecord, Loops, ExitLedger
<1>3. CASE BeginCell(r)
  <2>1. /\ Idle(r) /\ run[r].pc = "begin" /\ disk' = disk /\ Goes(r, "result")
        /\ call'[r].method = "begin"
    BY <1>3, Loops DEF BeginCell, At, Begin, Enters
  <2> QED BY <2>1, GoesLedger DEF Measuring
<1>4. CASE StageResult(r)
  <2>1. /\ Idle(r) /\ run[r].pc = "result" /\ disk' = disk
        /\ Goes(r, IF run[r].preview THEN "preview" ELSE "commit")
        /\ call'[r].method = "stage"
    BY <1>4, Loops DEF StageResult, At, Stage, Enters
  <2>2. Goes(r, "preview") \/ Goes(r, "commit")
    BY <2>1
  <2> QED BY <2>1, <2>2, GoesLedger DEF Measuring
<1>5. CASE StagePreview(r)
  <2>1. /\ Idle(r) /\ run[r].pc = "preview" /\ disk' = disk /\ Goes(r, "commit")
        /\ call'[r].method = "stage"
    BY <1>5, Loops DEF StagePreview, At, Stage, Enters
  <2> QED BY <2>1, GoesLedger DEF Measuring
<1>6. CASE CommitCell(r)
  <2>1. /\ Idle(r) /\ run[r].pc = "commit" /\ disk' = disk /\ Goes(r, "complete")
        /\ call'[r].method = "commit"
    BY <1>6, Loops DEF CommitCell, At, Commit, Enters
  <2> QED BY <2>1, GoesLedger DEF Measuring
<1>7. CASE CheckRecords(r)
  <2>1. /\ Idle(r) /\ run[r].pc = "records" /\ disk' = disk /\ call' = call
        /\ Goes(r, IF Publishable(r) THEN "done" ELSE "exit")
    BY <1>7 DEF CheckRecords, At, storeVars
  <2>2. (Goes(r, "done") \/ Goes(r, "exit")) /\ call'[r].method = "none"
    BY <2>1 DEF Idle
  <2> QED BY <2>1, <2>2, GoesLedger
<1>8. CASE ConfirmLoad(r)
  <2>1. /\ Idle(r) /\ run[r].pc = "measure" /\ disk' = disk /\ call' = call
        /\ run' = [run EXCEPT ![r].confirmed = machine']
    BY <1>8 DEF ConfirmLoad, At, storeVars
  <2>2. run'[r].pc = "measure" /\ run'[r].entries = run[r].entries /\ run'[r].next = run[r].next
        /\ call[r].method \notin {"create", "save"}
    BY <2>1, Loops DEF RunOK, Idle
  <2> QED BY <2>1, <2>2, SameEntries DEF Measuring
<1>9. CASE Measure(r)
  <2>1. PICK v \in Payloads, preview \in BOOLEAN :
          run' = [run EXCEPT ![r].pc = "begin", ![r].result = v, ![r].preview = preview]
    BY <1>9 DEF Measure
  <2>2. /\ Idle(r) /\ run[r].pc = "measure" /\ disk' = disk /\ call' = call
    BY <1>9 DEF Measure, At, storeVars
  <2>3. run'[r].pc = "begin" /\ run'[r].entries = run[r].entries /\ run'[r].next = run[r].next
        /\ call[r].method \notin {"create", "save"}
    BY <2>1, <2>2, Loops DEF RunOK, Idle
  <2> QED BY <2>2, <2>3, SameEntries DEF Measuring
<1> QED BY <1>1, <1>2, <1>3, <1>4, <1>5, <1>6, <1>7, <1>8, <1>9

LEMMA EndLedger ==
  ASSUME LInv, RInv', NEW r \in Runners,
         CreateRefused(r) \/ PromptAborted(r) \/ Exit(r) \/ Killed(r)
  PROVE  LInv' /\ LedgerStep
<1>1. disk' = disk /\ call'[r].method = "none"
  BY Loops DEF CreateRefused, PromptAborted, Exit, Killed, Ends, NoCall, At, Idle
<1>2. run'[r].pc \in {"off", "exit"}
  <2>1. CASE CreateRefused(r) \/ PromptAborted(r)
    BY <2>1, GoesRecord, Loops DEF CreateRefused, PromptAborted
  <2>2. CASE Exit(r) \/ Killed(r)
    BY <2>2, Loops DEF Exit, Killed, Ended, Off
  <2> QED BY <2>1, <2>2
<1> QED BY <1>1, <1>2, ExitLedger

LEMMA CallFailsLedger ==
  ASSUME LInv, RInv', NEW r \in Runners, CallFails(r)
  PROVE  LInv' /\ LedgerStep
<1>1. /\ run' = [run EXCEPT ![r] = AfterFailure(r)] /\ disk' = disk
      /\ call' = [call EXCEPT ![r] = NoCall]
  BY DEF CallFails, StepFails
<1>2. run'[r] = AfterFailure(r) /\ call'[r].method = "none"
  BY <1>1, Loops DEF NoCall
<1>3. CASE call[r].method = "stage" /\ run[r].preview /\ run[r].pc = "commit"
  <2>1. run'[r] = [run[r] EXCEPT !.pc = "begin", !.preview = FALSE]
    BY <1>2, <1>3 DEF AfterFailure
  <2>2. run'[r].pc = "begin" /\ run'[r].entries = run[r].entries /\ run'[r].next = run[r].next
    BY <2>1, Loops DEF RunOK
  <2> QED BY <1>1, <1>2, <1>3, <2>2, SameEntries DEF Measuring
<1>4. CASE call[r].method = "commit" /\ Reconciled(r) # NoRef
  <2>1. run'[r] = run[r]
    BY <1>2, <1>4 DEF AfterFailure
  <2>2. LoopOK(disk, run'[r], call'[r])
    BY <1>2, <1>4, <2>1, Loops DEF LoopOK
  <2> QED BY <1>1, <2>2, QuietLedger
<1>5. CASE /\ ~(call[r].method = "stage" /\ run[r].preview /\ run[r].pc = "commit")
           /\ ~(call[r].method = "commit" /\ Reconciled(r) # NoRef)
  <2>1. run'[r] = [run[r] EXCEPT !.pc = "exit"]
    BY <1>2, <1>5 DEF AfterFailure
  <2>2. run'[r].pc = "exit"
    BY <2>1, Loops DEF RunOK
  <2> QED BY <1>1, <1>2, <2>2, ExitLedger
<1> QED BY <1>3, <1>4, <1>5

-----------------------------------------------------------------------------
(* The file system and the state file.                                       *)
LEMMA FrontOf ==
  ASSUME NEW S, NEW d \in Seq(S), NEW x \in S
  PROVE  Front(d \o <<x>>) = d /\ Len(d \o <<x>>) = Len(d) + 1
<1> DEFINE p == d \o <<x>>
           n == Len(d)
<1>1. <<x>> \in Seq(S) /\ Len(<<x>>) = 1 /\ n \in Nat
  OBVIOUS
<1>2. p \in Seq(S) /\ Len(p) = n + 1 /\ \A i \in 1..n : p[i] = d[i]
  BY <1>1, ConcatProperties
<1>3. Front(p) \in Seq(S) /\ Len(Front(p)) = n /\ \A i \in 1..n : Front(p)[i] = p[i]
  <2>1. \A i \in 1..Len(p) - 1 : p[i] \in S
    BY <1>2, ElementOfSeq
  <2> HIDE DEF p, n
  <2> QED BY <1>1, <1>2, <2>1, SubSeqProperties DEF Front
<1> HIDE DEF p
<1>4. Front(p) = d
  BY <1>2, <1>3, SeqEqual
<1> QED BY <1>2, <1>4 DEF p

LEMMA StateFront == Front(StatePath) = StateDir /\ Len(StatePath) = Len(StateDir) + 1
<1> DEFINE S == {Head(StateDir), "state"}
<1>1. StateDir \in Seq(S)
  <2>1. CASE StateDir = << >>
    BY <2>1
  <2>2. CASE StateDir = <<Head(StateDir)>>
    <3> DEFINE d == Head(StateDir)
    <3>1. <<d>> \in Seq(S)
      OBVIOUS
    <3> QED BY <2>2, <3>1
  <2> QED BY <2>1, <2>2, StateDirAssumption
<1>2. "state" \in S
  OBVIOUS
<1> HIDE DEF S
<1> QED BY <1>1, <1>2, FrontOf DEF StatePath

LEMMA StateDirReachable ==
  ASSUME NEW tree
  PROVE  /\ Reachable(tree, StateDir)
         /\ (StateDir = << >> \/ StateDir \in DOMAIN tree) => Reachable(tree, StatePath)
<1>1. CASE StateDir = << >>
  <2>1. Len(StateDir) = 0 /\ Len(StatePath) = 1
    BY <1>1, StateFront
  <2> QED BY <2>1 DEF Reachable
<1>2. CASE StateDir = <<Head(StateDir)>>
  <2> DEFINE d == Head(StateDir)
  <2>1. Len(StateDir) = 1 /\ StateDir # << >>
    BY <1>2
  <2>2. Len(StatePath) = 2
    BY <2>1, StateFront
  <2>3. SubSeq(StatePath, 1, 1) = StateDir
    BY <2>2, StateFront DEF Front
  <2>4. Reachable(tree, StateDir)
    BY <2>1 DEF Reachable
  <2>5. StateDir \in DOMAIN tree => Reachable(tree, StatePath)
    <3>1. \A n \in 1..Len(StatePath) - 1 : n = 1
      BY <2>2
    <3> QED BY <2>1, <2>3, <3>1 DEF Reachable
  <2> QED BY <2>1, <2>4, <2>5
<1> QED BY <1>1, <1>2, StateDirAssumption

(* A step that neither names the state file nor its directory.               *)
LEMMA OtherStep ==
  ASSUME LInv,
         \/ disk' = disk
         \/ \E dir : disk' = Synced(disk, dir)
         \/ \E p, x : disk' = Named(disk, p, x) /\ p # StatePath /\ p # StateDir
  PROVE  /\ FileOK(disk') /\ LedgerStep
         /\ StatePath \in DOMAIN disk.seen =>
              StatePath \in DOMAIN disk'.seen /\ disk'.seen[StatePath] = disk.seen[StatePath]
         /\ SameEntry(disk, StatePath) => SameEntry(disk', StatePath)
<1>1. WellFormed(disk) /\ FileOK(disk)
  BY DEF LInv, RInv, IInv, DiskOK, WellFormed
<1>2. CASE disk' = disk
  BY <1>1, <1>2 DEF FileOK, LedgerStep, Grows
<1>3. ASSUME NEW dir, disk' = Synced(disk, dir)
      PROVE  /\ FileOK(disk') /\ LedgerStep /\ disk'.seen = disk.seen
             /\ SameEntry(disk, StatePath) => SameEntry(disk', StatePath)
  <2>1. /\ WellFormed(disk') /\ disk'.seen = disk.seen
        /\ \A q : SameEntry(disk, q) => SameEntry(disk', q)
        /\ DOMAIN disk.kept \subseteq DOMAIN disk'.kept
        /\ \A q \in DOMAIN disk'.kept :
             disk'.kept[q] = disk.seen[q] \/ (q \in DOMAIN disk.kept /\ disk'.kept[q] = disk.kept[q])
    BY <1>1, <1>3, SyncedDisk
  <2>2. \/ RecordIn(disk'.kept) = RecordIn(disk.kept)
        \/ RecordIn(disk'.kept) = RecordIn(disk.seen)
    BY <2>1 DEF RecordIn, WellFormed
  <2>3. FileOK(disk') /\ LedgerStep
    BY <1>1, <2>1, <2>2 DEF FileOK, LedgerStep, Grows
  <2> QED BY <2>1, <2>3
<1>4. ASSUME NEW p, NEW x, disk' = Named(disk, p, x), p # StatePath, p # StateDir
      PROVE  /\ FileOK(disk') /\ LedgerStep
             /\ StatePath \in DOMAIN disk.seen =>
                  StatePath \in DOMAIN disk'.seen /\ disk'.seen[StatePath] = disk.seen[StatePath]
             /\ SameEntry(disk, StatePath) => SameEntry(disk', StatePath)
  <2>1. /\ disk'.kept = disk.kept /\ DOMAIN disk'.seen = DOMAIN disk.seen \cup {p}
        /\ \A q \in DOMAIN disk.seen : q # p => disk'.seen[q] = disk.seen[q]
        /\ \A q : (SameEntry(disk, q) /\ q # p) => SameEntry(disk', q)
    BY <1>1, <1>4, NamedDisk
  <2>2. RecordIn(disk'.seen) = RecordIn(disk.seen)
    BY <1>4, <2>1 DEF RecordIn
  <2> QED BY <1>1, <1>4, <2>1, <2>2 DEF FileOK, LedgerStep, Grows
<1> QED BY <1>2, <1>3, <1>4

(* Writing the state file, when its record grows only if it was settled.     *)
LEMMA StateNamed ==
  ASSUME LInv, NEW x, disk' = Named(disk, StatePath, x),
         \/ RecordOf(x.entries) = RecordIn(disk.seen)
         \/ SameEntry(disk, StatePath) /\ Grows(RecordIn(disk.seen), RecordOf(x.entries))
  PROVE  /\ FileOK(disk') /\ LedgerStep
         /\ StatePath \in DOMAIN disk'.seen /\ disk'.seen[StatePath] = x
<1>1. WellFormed(disk) /\ FileOK(disk)
  BY DEF LInv, RInv, IInv, DiskOK, WellFormed
<1>2. /\ disk'.kept = disk.kept /\ DOMAIN disk'.seen = DOMAIN disk.seen \cup {StatePath}
      /\ disk'.seen[StatePath] = x
      /\ \A q : (SameEntry(disk, q) /\ q # StatePath) => SameEntry(disk', q)
  BY <1>1, NamedDisk
<1>3. RecordIn(disk'.seen) = RecordOf(x.entries)
  BY <1>2 DEF RecordIn
<1>4. SameEntry(disk, StatePath) => RecordIn(disk.kept) = RecordIn(disk.seen)
  BY DEF SameEntry, RecordIn
<1>5. FileOK(disk')
  BY <1>1, <1>2, <1>3, <1>4, StatePaths DEF FileOK
<1> QED BY <1>2, <1>5 DEF LedgerStep, Grows

(* A write of the state file goes on.                                        *)
LEMMA SavingLedger ==
  ASSUME LInv, RInv', NEW r \in Runners, CallStep(r), FileStep(r), run[r].pc \notin {"off", "exit"},
         call[r].method \in {"create", "save"}
  PROVE  LInv' /\ LedgerStep
<1> DEFINE entries == run[r].entries
           here    == StatePath \in DOMAIN disk'.seen /\ disk'.seen[StatePath].entries = entries
<1>1. /\ SavingOK(disk, entries, call[r]) /\ IInv /\ WellFormed(disk) /\ run' = run
      /\ ~StateTaken(r)
  BY Loops DEF LoopOK, RInv, CallStep, IInv, DiskOK, WellFormed
<1>2. ASSUME NEW todo, Progress(r, todo), FileOK(disk'), LedgerStep, here,
             todo = <<Sync(StateDir)>> \/ (todo = << >> /\ SameEntry(disk', StatePath))
      PROVE  LInv' /\ LedgerStep
  <2>1. call'[r].method = call[r].method /\ call'[r].todo = todo
    BY <1>2 DEF Progress
  <2>2. LoopOK(disk', run'[r], call'[r])
    <3>1. SavingOK(disk', entries, call'[r])
      BY <1>2, <2>1 DEF SavingOK
    <3> QED BY <1>1, <2>1, <3>1, Loops DEF LoopOK
  <2> QED BY <1>2, <2>2, SoloMoves
<1>3. ASSUME NEW x, Progress(r, <<Sync(StateDir)>>), disk' = Named(disk, StatePath, x),
             x.entries = entries,
             \/ RecordOf(entries) = RecordIn(disk.seen)
             \/ SameEntry(disk, StatePath) /\ Grows(RecordIn(disk.seen), RecordOf(entries))
      PROVE  LInv' /\ LedgerStep
  <2>1. FileOK(disk') /\ LedgerStep /\ here
    BY <1>3, StateNamed
  <2> DEFINE rest == <<Sync(StateDir)>>
  <2>2. Progress(r, rest) /\ rest = <<Sync(StateDir)>>
    BY <1>3
  <2>3. /\ FileOK(disk') /\ LedgerStep /\ here
        /\ rest = <<Sync(StateDir)>> \/ (rest = << >> /\ SameEntry(disk', StatePath))
    BY <2>1
  <2> HIDE DEF here, rest
  <2> QED BY <1>2, <2>2, <2>3
<1>4. CASE /\ call[r].method = "create" /\ call[r].todo = CreateScript(entries)
           /\ RecordOf(entries) = Unwritten
  <2> DEFINE x    == StateFile(entries)
             next == Sync(StateDir)
             step == Create(StatePath, x, <<next>>)
  <2>1. /\ Todo(r) = <<step>> /\ step = Create(StatePath, x, <<next>>)
        /\ step.op = "create" /\ step.path = StatePath /\ x.entries = entries
        /\ next = Sync(StateDir)
    BY <1>4 DEF Todo, CreateScript, Create, StateFile
  <2> HIDE DEF x, step, next
  <2>2. /\ Todo(r) # << >> /\ Head(Todo(r)) = step
        /\ << >> \o Tail(Todo(r)) = << >> /\ <<next>> \o Tail(Todo(r)) = <<next>>
    BY <2>1
  <2>3. Due(r, "create")
    BY <2>1, <2>2 DEF Due
  <2>4. StatePath \notin DOMAIN disk.seen
    BY <1>1, <1>4, <2>3 DEF StateTaken, Exists
  <2>5. disk' = Named(disk, StatePath, x) /\ Progress(r, <<next>>)
    BY <1>1, <2>1, <2>2, <2>4, CreateStep
  <2>6. RecordOf(entries) = RecordIn(disk.seen)
    BY <1>4, <2>4 DEF RecordIn
  <2> HIDE DEF entries
  <2> QED BY <1>3, <2>1, <2>5, <2>6
<1>5. CASE /\ call[r].todo = SaveScript(entries)
           /\ \/ RecordOf(entries) = RecordIn(disk.seen)
              \/ SameEntry(disk, StatePath) /\ Grows(RecordIn(disk.seen), RecordOf(entries))
  <2> DEFINE x    == StateFile(entries)
             next == Sync(StateDir)
             step == Replace(StatePath, x)
  <2>1. /\ Todo(r) = <<step, next>> /\ step = Replace(StatePath, x)
        /\ x.entries = entries /\ next = Sync(StateDir)
    BY <1>5 DEF Todo, SaveScript, StateFile
  <2> HIDE DEF x, step, next
  <2>2. Todo(r) # << >> /\ Head(Todo(r)) = step /\ << >> \o Tail(Todo(r)) = <<next>>
    BY <2>1
  <2>3. disk' = Named(disk, StatePath, x) /\ Progress(r, <<next>>)
    BY <1>1, <2>1, <2>2, ReplaceStep
  <2> HIDE DEF entries
  <2> QED BY <1>3, <1>5, <2>1, <2>3
<1>6. CASE /\ call[r].todo = <<Sync(StateDir)>>
           /\ StatePath \in DOMAIN disk.seen /\ disk.seen[StatePath].entries = entries
  <2> DEFINE next == Sync(StateDir)
  <2>1. Todo(r) = <<next>> /\ next = Sync(StateDir)
    BY <1>6 DEF Todo
  <2> HIDE DEF next
  <2>2. Todo(r) # << >> /\ Head(Todo(r)) = next /\ << >> \o Tail(Todo(r)) = << >>
    BY <2>1
  <2>3. disk' = Synced(disk, StateDir) /\ Progress(r, << >>)
    BY <1>1, <2>1, <2>2, SyncStep
  <2>4. FileOK(disk') /\ LedgerStep /\ here
    BY <1>6, <2>3, OtherStep
  <2>5. SameEntry(disk', StatePath)
    BY <1>1, <1>6, <2>3, StateFront, SyncedDisk
  <2> HIDE DEF here
  <2> QED BY <1>2, <2>3, <2>4, <2>5
<1>7. Todo(r) # << >>
  BY DEF FileStep, Making, Finding, Replacing, Syncing, Looking, Listing, Due
<1> HIDE DEF entries
<1> QED BY <1>1, <1>4, <1>5, <1>6, <1>7 DEF SavingOK, Todo

LEMMA CallStepLedger ==
  ASSUME LInv, RInv', NEW r \in Runners, CallStep(r)
  PROVE  LInv' /\ LedgerStep
<1>1. /\ IInv /\ run' = run
      /\ run[r].pc \in {"off", "exit"} => call[r].method = "none"
  BY Loops DEF RunOK, LoopOK, RInv, CallStep
<1>2. CASE Return(r)
  <2>1. /\ call[r].method # "none" /\ call[r].todo = << >> /\ disk' = disk
        /\ call' = [call EXCEPT ![r] = NoCall]
    BY <1>2 DEF Return, Idle, Todo
  <2>2. call'[r].method = "none"
    BY <2>1, Loops DEF NoCall
  <2>3. ASSUME call[r].method \in {"create", "save"}, run[r].pc \notin {"off", "exit"}
        PROVE  SameEntry(disk, StatePath) /\ disk.seen[StatePath].entries = run[r].entries
    <3>1. \A entries : call[r].todo # CreateScript(entries) /\ call[r].todo # SaveScript(entries)
      BY <2>1 DEF CreateScript, SaveScript
    <3>2. call[r].todo # <<Sync(StateDir)>>
      BY <2>1
    <3> QED BY <2>3, <3>1, <3>2, Loops DEF LoopOK, SavingOK
  <2>4. SameEntry(disk, StatePath) => StatePath \in DOMAIN disk.seen
    BY DEF SameEntry
  <2>5. LoopOK(disk, run'[r], call'[r])
    BY <1>1, <2>1, <2>2, <2>3, <2>4, Loops DEF LoopOK
  <2> QED BY <2>1, <2>5, QuietLedger
<1>3. CASE FileStep(r)
  <2>1. call[r].method # "none"
    <3>1. RunnerOK(disk, store[r], attempt[r], call[r], known)
      BY <1>1 DEF IInv
    <3> QED BY <1>3, <3>1 DEF RunnerOK, NoCall, Todo, FileStep, Making, Finding, Replacing,
                              Syncing, Looking, Listing, Due
  <2>2. run[r].pc \notin {"off", "exit"}
    BY <1>1, <2>1
  <2>3. CASE call[r].method \in {"create", "save"}
    BY <1>3, <2>2, <2>3, SavingLedger
  <2>4. CASE call[r].method \notin {"create", "save"}
    <3>1. \/ disk' = disk
          \/ \E dir : disk' = Synced(disk, dir)
          \/ \E p, x : disk' = Named(disk, p, x) /\ p # StatePath /\ p # StateDir
      BY <1>1, <1>3, <2>4, FileStepNames, Writes, StatePaths
    <3>2. call'[r].method \notin {"create", "save"}
      BY <1>3, <2>4, Loops, FileStepRuns
    <3>3. LoopOK(disk', run'[r], call'[r])
      BY <1>1, <2>2, <2>4, <3>1, <3>2, OtherStep, Loops DEF LoopOK
    <3> QED BY <3>1, <3>3, OtherStep, SoloMoves
  <2> QED BY <2>3, <2>4
<1> QED BY <1>2, <1>3 DEF CallStep

(* A power loss leaves what was durable, or what was being made so.          *)
LEMMA OutageLedger ==
  ASSUME LInv, RInv', Outage
  PROVE  LInv' /\ LedgerStep
<1>1. /\ run' = [r \in Runners |-> Off] /\ disk' \in AfterPowerLoss(disk)
      /\ WellFormed(disk) /\ FileOK(disk)
  BY DEF Outage, PowerLoss, Becomes, Ended, LInv, RInv, IInv, DiskOK, WellFormed
<1>2. /\ WellFormed(disk') /\ disk'.kept = disk'.seen
      /\ DOMAIN disk'.seen \subseteq DOMAIN disk.seen
      /\ \A q \in DOMAIN disk'.seen :
           \/ disk'.seen[q] = disk.seen[q]
           \/ q \in DOMAIN disk.kept /\ disk'.seen[q] = disk.kept[q]
      /\ \A q : (SameEntry(disk, q) /\ q \in DOMAIN disk'.seen) => disk'.seen[q] = disk.seen[q]
      /\ \A q \in DOMAIN disk.kept : Reachable(disk.kept, q) => q \in DOMAIN disk'.seen
  BY <1>1, PowerLossDisk
<1>3. StatePath \in DOMAIN disk.kept => StatePath \in DOMAIN disk'.seen
  BY <1>1, <1>2, StateDirReachable DEF FileOK, SameEntry
<1>4. \/ RecordIn(disk'.kept) = RecordIn(disk.kept)
      \/ RecordIn(disk'.kept) = RecordIn(disk.seen)
  BY <1>2, <1>3 DEF RecordIn
<1>5. StateDir = << >> \/ SameEntry(disk', StateDir)
  BY <1>1, <1>2, StateDirReachable DEF FileOK, SameEntry
<1>6. FileOK(disk') /\ LedgerStep
  BY <1>1, <1>2, <1>4, <1>5 DEF FileOK, LedgerStep, Grows
<1>7. \A r \in Runners : LoopOK(disk', run'[r], call'[r])
  BY <1>1 DEF LoopOK, Off
<1> QED BY <1>6, <1>7 DEF LInv, Solo

LEMMA WorkLedger ==
  ASSUME LInv, RInv', NEW r \in Runners, Work(r)
  PROVE  LInv' /\ LedgerStep
<1>1. CASE StartLoading(r) \/ Resume(r) \/ ReadRecords(r)
  <2>1. StatePath \in DOMAIN disk.seen /\ Idle(r)
    BY <1>1, Loops DEF StartLoading, Resume, ReadRecords, At, Exists, LoopOK, Idle
  <2> QED BY <1>1, <2>1, LoadLedger DEF StartLoading, Resume, ReadRecords
<1>2. CASE StartCreating(r)
  BY <1>2, StartCreatingLedger
<1>3. CASE CreateRefused(r) \/ Exit(r)
  BY <1>3, EndLedger
<1>4. CASE SkipComplete(r) \/ NextCell(r)
  BY <1>4, CountLedger
<1>5. CASE MarkInProgress(r) \/ MarkComplete(r)
  BY <1>5, MarkLedger
<1>6. CASE CallStep(r)
  BY <1>6, CallStepLedger
<1>7. CASE \/ OpenStore(r) \/ StoreRefused(r) \/ ConfirmLoad(r) \/ Measure(r) \/ WriterBusy(r)
           \/ BeginCell(r) \/ StageResult(r) \/ StagePreview(r) \/ CommitCell(r) \/ CheckRecords(r)
  BY <1>7, LoopLedger
<1> QED BY <1>1, <1>2, <1>3, <1>4, <1>5, <1>6, <1>7 DEF Work

LEMMA NextLedger ==
  ASSUME LInv, RInv', [RunNext]_vars
  PROVE  LInv' /\ LedgerStep
<1>1. CASE Outage
  BY <1>1, OutageLedger
<1>2. ASSUME disk' = disk, run' = run, call' = call
      PROVE  LInv' /\ LedgerStep
  BY <1>2 DEF LInv, Solo, FileOK, LoopOK, SavingOK, LedgerStep, Grows
<1>3. CASE Rearrange \/ UNCHANGED vars
  BY <1>2, <1>3 DEF Rearrange, vars, storeVars
<1>4. ASSUME NEW r \in Runners, Work(r) \/ CallFails(r) \/ PromptAborted(r) \/ Killed(r)
      PROVE  LInv' /\ LedgerStep
  BY <1>4, WorkLedger, CallFailsLedger, EndLedger
<1> QED BY <1>1, <1>3, <1>4 DEF RunNext

LEMMA LedgerStarts ==
  ASSUME RunInit, Solo
  PROVE  LInv /\ Recorded = [i \in DOMAIN Plan |-> Pending]
<1> DEFINE tree == IF StateDir = << >> THEN InitialTree ELSE Write(InitialTree, StateDir, Dir)
<1>1. disk = [seen |-> tree, kept |-> tree] /\ run = [r \in Runners |-> Off] /\ RInv
  BY RunStarts DEF RunInit, Durable
<1>2. /\ DOMAIN tree \subseteq DOMAIN InitialTree \cup {StateDir}
      /\ StateDir = << >> \/ StateDir \in DOMAIN tree
  BY DEF Write
<1> HIDE DEF tree
<1>3. StatePath \notin DOMAIN tree
  <2>1. StatePath \notin {Parent, Root, Identity, CellsDir} /\ StatePath # StateDir
    BY StatePaths DEF Elsewhere
  <2> QED BY <1>2, <2>1, InitialPaths
<1>4. FileOK(disk)
  BY <1>1, <1>2 DEF FileOK, Grows, SameEntry
<1>5. \A r \in Runners : LoopOK(disk, run[r], call[r])
  BY <1>1 DEF LoopOK, Off
<1>6. Recorded = [i \in DOMAIN Plan |-> Pending]
  BY <1>1, <1>3 DEF Recorded, Saved, Exists
<1> QED BY <1>1, <1>4, <1>5, <1>6 DEF LInv

(* The durable state file of a run that one process at a time works on is a  *)
(* ledger: through failed writes, crashes, power losses and restarts each    *)
(* cell is entered once, in plan order, and never changed or taken back.     *)
THEOREM RunKeepsLedger ==
  ASSUME PowerFails # "ever", Solo
  PROVE  RunSpec => KeepsLedger
<1>1. RunInit => LInv /\ Ledger!LedgerInit
  BY LedgerStarts DEF Ledger!LedgerInit
<1>2. LInv /\ [RunNext]_vars => LInv' /\ [\E i \in DOMAIN Plan : Ledger!Record(i)]_Recorded
  <2> SUFFICES ASSUME LInv, [RunNext]_vars
               PROVE  LInv' /\ [\E i \in DOMAIN Plan : Ledger!Record(i)]_Recorded
    OBVIOUS
  <2>1. RInv'
    BY RunKeeps DEF LInv
  <2>2. LInv' /\ LedgerStep
    BY <2>1, NextLedger
  <2>3. Recorded = RecordIn(disk.kept) /\ Recorded' = RecordIn(disk'.kept)
    BY DEF Recorded, RecordIn, RecordOf, Unwritten, Saved, Exists
  <2>4. ASSUME NEW i \in DOMAIN Plan, Adds(Recorded, Recorded', i)
        PROVE  Ledger!Record(i)
    BY <2>4 DEF Adds, Ledger!Record
  <2> QED BY <2>2, <2>3, <2>4 DEF LedgerStep, Grows
<1> QED BY <1>1, <1>2, PTL DEF RunSpec, KeepsLedger, Ledger!LedgerSpec
=============================================================================
