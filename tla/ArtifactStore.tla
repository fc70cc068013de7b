---------------------------- MODULE ArtifactStore ----------------------------
(***************************************************************************)
(* The transactional artifact store of one bake-off run                    *)
(* (tools/bakeoff/artifact_store.py) and the runner processes that open it.*)
(* A method is a script of file-system steps; each step of a call is a     *)
(* step of its own, so that other runners, a failing system call, a crash  *)
(* of the process or a power loss may fall between any two.                *)
(*                                                                         *)
(* A runner makes at most one store and holds at most one attempt it still *)
(* uses.  An attempt is numbered when begin() draws its uuid.              *)
(***************************************************************************)
EXTENDS Disk, FiniteSets

CONSTANTS
  Runners,      \* processes started with the same run identity
  Cells,        \* cells of the run
  Files,        \* relative paths staged in an attempt
  Payloads,     \* contents of a staged file
  Existing,     \* what is there at first: "root", only its "parent", or "nothing"
  PowerFails,   \* the machine may lose power "never", "ever", or only with a durable
                \* run root under it: "rooted"
  MaxAttempts,  \* bound on attempts begun
  MaxTrouble    \* bound on failed system calls, crashes and power losses

ASSUME ExistingAssumption == Existing \in {"root", "parent", "nothing"}
ASSUME PowerAssumption == PowerFails \in {"never", "rooted", "ever"}
ASSUME TroubleAssumption == MaxAttempts \in Nat /\ MaxTrouble \in Nat

VARIABLES
  disk,     \* see Disk
  lock,     \* the runner that holds the flock on writer.lock, or Nobody
  store,    \* each runner's ArtifactStore object
  attempt,  \* each runner's latest ArtifactAttempt object
  call,     \* the method each runner is in and the steps left of it
  begun,    \* attempts begun so far
  known,    \* every reference a caller was given or a reader could have read
  trouble   \* failures, crashes and power losses so far

storeVars == <<disk, lock, store, attempt, call, begun, known, trouble>>

Nobody == "nobody"

ASSUME RunnersAssumption == Nobody \notin Runners

Parent == <<"artifacts">>
Root == Parent \o <<"root">>
Identity == Root \o <<"identity">>
CellsDir == Root \o <<"cells">>
CellDir(c) == CellsDir \o <<c>>
Attempts(c) == CellDir(c) \o <<"attempts">>
AttemptDir(c, a) == Attempts(c) \o <<a>>
Manifests(c) == CellDir(c) \o <<"manifests">>
ManifestPath(c, a) == Manifests(c) \o <<a>>
Pointer(c) == CellDir(c) \o <<"committed">>

IdentityFile == [kind |-> "identity"]
Payload(v) == [kind |-> "payload", data |-> v]

(* A manifest names the attempt's files with their hashes; a reference names *)
(* a manifest with its hash.  Hashes are modelled by what they are taken of. *)
Manifest(c, a, files) == [kind |-> "manifest", cell |-> c, attempt |-> a, files |-> files]
Ref(m) == [kind |-> "ref", cell |-> m.cell, attempt |-> m.attempt, sha |-> m]

NoRef == [kind |-> "none"]
NoAttempt == [kind |-> "none"]
NoCall == [method |-> "none", todo |-> << >>, answer |-> NoRef]

-----------------------------------------------------------------------------
(* The steps of a script.  "then" follows only when the step made the entry. *)
Create(path, content, then) ==
  [op |-> "create", path |-> path, content |-> content, then |-> then]
Replace(path, content) == [op |-> "replace", path |-> path, content |-> content]
Sync(dir) == [op |-> "sync", path |-> dir]
LookForIdentity == [op |-> "look", path |-> Identity]
ListRoot == [op |-> "list", path |-> Root]

\* Bug variant: the one that finds the identity relies on its maker's sync.
OpenScript_NoSync ==
  <<Create(Parent, Dir, << >>), Create(Root, Dir, <<Sync(Parent)>>), LookForIdentity,
    Create(CellsDir, Dir, << >>)>>

(* __init__ with _create_or_check_run_root: the parent is synced by the one  *)
(* that made the root; identity.json is linked without clobbering.           *)
OpenScript ==
  <<Create(Parent, Dir, << >>), Create(Root, Dir, <<Sync(Parent)>>), LookForIdentity,
    Create(CellsDir, Dir, << >>), Sync(Root)>>

BeginScript(c, a) ==
  <<Create(CellDir(c), Dir, << >>), Create(Attempts(c), Dir, << >>),
    Create(Manifests(c), Dir, << >>), Create(AttemptDir(c, a), Dir, << >>),
    Sync(CellsDir), Sync(CellDir(c)), Sync(Attempts(c))>>

StageScript(c, a, f, v) ==
  <<Replace(AttemptDir(c, a) \o <<f>>, Payload(v)), Sync(AttemptDir(c, a))>>

\* Bug variants: the pointer is replaced before the manifest it names is
\* linked; the manifest's directory is not synced.
CommitScript_PointerFirst(m) ==
  <<Replace(Pointer(m.cell), Ref(m)), Sync(CellDir(m.cell)),
    Create(ManifestPath(m.cell, m.attempt), m, <<Sync(Manifests(m.cell))>>)>>

CommitScript_NoSync(m) ==
  <<Create(ManifestPath(m.cell, m.attempt), m, << >>),
    Replace(Pointer(m.cell), Ref(m)), Sync(CellDir(m.cell))>>

(* _publish_immutable_manifest, then the latest-pointer replacement. *)
CommitScript(m) ==
  <<Create(ManifestPath(m.cell, m.attempt), m, <<Sync(Manifests(m.cell))>>),
    Replace(Pointer(m.cell), Ref(m)), Sync(CellDir(m.cell))>>

-----------------------------------------------------------------------------
(* _walk_artifacts and _hash_file: the files of an attempt and their hashes. *)
FilesOf(tree, c, a) ==
  LET names == {f \in Files : Exists(tree, AttemptDir(c, a) \o <<f>>)}
  IN  [f \in names |-> tree[AttemptDir(c, a) \o <<f>>]]

(* _load_ref: the exact immutable generation, file by file. *)
Loads(tree, ref) ==
  /\ Exists(tree, Identity)
  /\ Exists(tree, ManifestPath(ref.cell, ref.attempt))
  /\ tree[ManifestPath(ref.cell, ref.attempt)] = ref.sha
  /\ Exists(tree, AttemptDir(ref.cell, ref.attempt))
  /\ FilesOf(tree, ref.cell, ref.attempt) = ref.sha.files

CurrentRef(tree, c) == IF Exists(tree, Pointer(c)) THEN tree[Pointer(c)] ELSE NoRef

Visible(tree) == {tree[Pointer(c)] : c \in {d \in Cells : Exists(tree, Pointer(d))}}

(* _check_open of the attempt and of its store. *)

AttemptOpen(r) == attempt[r] # NoAttempt /\ ~attempt[r].closed /\ store[r] = "open"

Idle(r) == call[r].method = "none"

Enters(r, method, script, answer) ==
  call' = [call EXCEPT ![r] = [method |-> method, todo |-> script, answer |-> answer]]

InitialTree ==
  LET paths == CASE Existing = "root"    -> {Parent, Root, Identity, CellsDir}
                 [] Existing = "parent"  -> {Parent}
                 [] Existing = "nothing" -> {}
  IN  [p \in paths |-> IF p = Identity THEN IdentityFile ELSE Dir]

NoStores ==
  /\ lock = Nobody
  /\ store = [r \in Runners |-> "none"]
  /\ attempt = [r \in Runners |-> NoAttempt]
  /\ call = [r \in Runners |-> NoCall]
  /\ begun = 0
  /\ known = {}
  /\ trouble = 0

StoreInit == disk = Durable(InitialTree) /\ NoStores

-----------------------------------------------------------------------------
(* The calls.  A method that is refused at its first check changes nothing. *)
Open(r) ==
  /\ Idle(r) /\ store[r] = "none"
  /\ store' = [store EXCEPT ![r] = "opening"]
  /\ Enters(r, "open", OpenScript, NoRef)
  /\ UNCHANGED <<disk, lock, attempt, begun, known, trouble>>

(* _acquire_writer_lock: a second flock of the same store is not tried. *)
\* Bug variant: begin does not wait for the lock.
MayWrite_Always(r) == TRUE

MayWrite(r) == lock \in {Nobody, r}

(* begin: the writer lock (taken once, kept until close), a fresh attempt. *)
Begin(r, c) ==
  /\ Idle(r) /\ store[r] = "open"
  /\ MayWrite(r)
  /\ begun < MaxAttempts
  /\ lock' = r
  /\ begun' = begun + 1
  /\ attempt' = [attempt EXCEPT ![r] = [kind |-> "attempt", cell |-> c, id |-> begun + 1,
                                        closed |-> FALSE, ref |-> NoRef]]
  /\ Enters(r, "begin", BeginScript(c, begun + 1), NoRef)
  /\ UNCHANGED <<disk, store, known, trouble>>

(* stage_bytes, stage_file. *)
Stage(r, f, v) ==
  /\ Idle(r) /\ AttemptOpen(r)
  /\ Enters(r, "stage", StageScript(attempt[r].cell, attempt[r].id, f, v), NoRef)
  /\ UNCHANGED <<disk, lock, store, attempt, begun, known, trouble>>

(* commit: the files are hashed first, then manifest and pointer appear. *)
Commit(r) ==
  LET a == attempt[r]
      m == Manifest(a.cell, a.id, FilesOf(disk.seen, a.cell, a.id))
  IN  /\ Idle(r) /\ AttemptOpen(r)
      /\ Enters(r, "commit", CommitScript(m), Ref(m))
      /\ UNCHANGED <<disk, lock, store, attempt, begun, known, trouble>>

(* close, also when the `with` block is left. *)
Close(r) ==
  /\ Idle(r) /\ store[r] = "open"
  /\ store' = [store EXCEPT ![r] = "closed"]
  /\ lock' = IF lock = r THEN Nobody ELSE lock
  /\ UNCHANGED <<disk, attempt, call, begun, known, trouble>>

-----------------------------------------------------------------------------
(* The file-system steps of a call in progress. *)
Todo(r) == call[r].todo

Rest(r, next) == call' = [call EXCEPT ![r].todo = next \o Tail(@)]

Due(r, op) == Todo(r) # << >> /\ Head(Todo(r)).op = op

Becomes(newDisk) ==
  /\ disk' = newDisk
  /\ known' = known \cup Visible(newDisk.seen)

Making(r) ==
  LET step == Head(Todo(r))
  IN  /\ Due(r, "create")
      /\ ~Exists(disk.seen, step.path)
      /\ Becomes(Named(disk, step.path, step.content))
      /\ Rest(r, step.then)
      /\ UNCHANGED <<lock, store, attempt, begun, trouble>>

(* The entry is there already, made by another constructor or an earlier run. *)
Finding(r) ==
  /\ Due(r, "create")
  /\ Exists(disk.seen, Head(Todo(r)).path)
  /\ Rest(r, << >>)
  /\ UNCHANGED <<disk, lock, store, attempt, begun, known, trouble>>

Replacing(r) ==
  /\ Due(r, "replace")
  /\ Becomes(Named(disk, Head(Todo(r)).path, Head(Todo(r)).content))
  /\ Rest(r, << >>)
  /\ UNCHANGED <<lock, store, attempt, begun, trouble>>

Syncing(r) ==
  /\ Due(r, "sync")
  /\ Becomes(Synced(disk, Head(Todo(r)).path))
  /\ Rest(r, << >>)
  /\ UNCHANGED <<lock, store, attempt, begun, trouble>>

(* identity_path.lstat(): only a root without identity is listed. *)
Looking(r) ==
  /\ Due(r, "look")
  /\ Rest(r, IF Exists(disk.seen, Identity) THEN << >> ELSE <<ListRoot>>)
  /\ UNCHANGED <<disk, lock, store, attempt, begun, known, trouble>>

(* iterdir(): an entry other than identity.json and its temporaries makes *)
(* the constructor fail with identity_missing.                            *)
Listing(r) ==
  LET unknown == Children(disk.seen, Root) \ {Identity}
  IN  /\ Due(r, "list")
      /\ IF unknown = {}
         THEN /\ Rest(r, <<Create(Identity, IdentityFile, <<Sync(Root)>>)>>)
              /\ UNCHANGED store
         ELSE /\ call' = [call EXCEPT ![r] = NoCall]
              /\ store' = [store EXCEPT ![r] = "refused"]
      /\ UNCHANGED <<disk, lock, attempt, begun, known, trouble>>

(* The last step is done and the method returns; commit has closed the attempt. *)

AttemptAfterReturn(r) ==
  IF call[r].method = "commit"
  THEN [attempt[r] EXCEPT !.closed = TRUE, !.ref = call[r].answer]
  ELSE attempt[r]

Return(r) ==
  /\ ~Idle(r) /\ Todo(r) = << >>
  /\ call' = [call EXCEPT ![r] = NoCall]
  /\ store' = IF call[r].method = "open" THEN [store EXCEPT ![r] = "open"] ELSE store
  /\ attempt' = [attempt EXCEPT ![r] = AttemptAfterReturn(r)]
  /\ UNCHANGED <<disk, lock, begun, known, trouble>>

-----------------------------------------------------------------------------
(* The step that is due fails (an OSError).  A constructor makes no store; a *)
(* failed begin poisons the store and gives the lock up; a failed stage or   *)
(* commit closes the attempt, and commit then asks the pointer whether it    *)
(* was published after all (reconcile).                                      *)
\* Bug variant: a failed commit is always taken for an unpublished one.
Reconciled_Never(r) == NoRef

Reconciled(r) ==
  LET current == CurrentRef(disk.seen, attempt[r].cell)
  IN  IF current # NoRef /\ current.attempt = attempt[r].id /\ Loads(disk.seen, current)
      THEN current ELSE NoRef

AttemptAfterFailure(r) ==
  CASE call[r].method = "stage"  -> [attempt[r] EXCEPT !.closed = TRUE]
    [] call[r].method = "commit" -> [attempt[r] EXCEPT !.closed = TRUE, !.ref = Reconciled(r)]
    [] OTHER                     -> attempt[r]

\* Bug variant: a constructor that raised still counts as under way.
StoreAfterFailure_Opening(r) == IF call[r].method = "begin" THEN "closed" ELSE store[r]

StoreAfterFailure(r) ==
  CASE call[r].method = "open"  -> "none"
    [] call[r].method = "begin" -> "closed"
    [] OTHER                    -> store[r]

LockAfterFailure(r) == IF call[r].method = "begin" /\ lock = r THEN Nobody ELSE lock

StepFails(r) ==
  /\ Todo(r) # << >>
  /\ trouble < MaxTrouble
  /\ trouble' = trouble + 1
  /\ call' = [call EXCEPT ![r] = NoCall]
  /\ store' = [store EXCEPT ![r] = StoreAfterFailure(r)]
  /\ lock' = LockAfterFailure(r)
  /\ attempt' = [attempt EXCEPT ![r] = AttemptAfterFailure(r)]
  /\ UNCHANGED <<disk, begun, known>>

(* A runner process ends: the kernel drops its lock, a later process of the *)
(* same name starts with no store.                                          *)
Ends(r) ==
  /\ call' = [call EXCEPT ![r] = NoCall]
  /\ store' = [store EXCEPT ![r] = "none"]
  /\ attempt' = [attempt EXCEPT ![r] = NoAttempt]
  /\ lock' = IF lock = r THEN Nobody ELSE lock
  /\ UNCHANGED <<disk, begun, known>>

Crash(r) ==
  /\ store[r] # "none"
  /\ trouble < MaxTrouble
  /\ trouble' = trouble + 1
  /\ Ends(r)

Rooted == {Parent, Root, Identity, CellsDir} \subseteq DOMAIN disk.kept

PowerLoss ==
  /\ PowerFails = "ever" \/ (PowerFails = "rooted" /\ Rooted)
  /\ trouble < MaxTrouble
  /\ trouble' = trouble + 1
  /\ \E after \in AfterPowerLoss(disk) : Becomes(after)
  /\ call' = [r \in Runners |-> NoCall]
  /\ store' = [r \in Runners |-> "none"]
  /\ attempt' = [r \in Runners |-> NoAttempt]
  /\ lock' = Nobody
  /\ UNCHANGED begun

FileStep(r) ==
  \/ Making(r) \/ Finding(r) \/ Replacing(r) \/ Syncing(r) \/ Looking(r) \/ Listing(r)

RunnerStep(r) ==
  \/ Open(r)
  \/ \E c \in Cells : Begin(r, c)
  \/ \E f \in Files, v \in Payloads : Stage(r, f, v)
  \/ Commit(r)
  \/ Close(r)
  \/ FileStep(r)
  \/ Return(r)
  \/ StepFails(r)
  \/ Crash(r)

StoreNext == PowerLoss \/ \E r \in Runners : RunnerStep(r)

StoreSpec == StoreInit /\ [][StoreNext]_storeVars

-----------------------------------------------------------------------------
StoreTypeOK ==
  /\ lock \in Runners \cup {Nobody}
  /\ store \in [Runners -> {"none", "opening", "open", "closed", "refused"}]
  /\ begun \in 0..MaxAttempts
  /\ trouble \in 0..MaxTrouble
  /\ \A r \in Runners :
       /\ attempt[r] # NoAttempt =>
            attempt[r].cell \in Cells /\ attempt[r].id \in 1..begun /\ attempt[r].closed \in BOOLEAN
       /\ call[r].method \in {"none", "open", "begin", "stage", "commit", "create", "save"}
       /\ call[r].method = "open" <=> store[r] = "opening"
       /\ call[r].method \in {"begin", "stage", "commit"} =>
            attempt[r] # NoAttempt /\ ~attempt[r].closed

(* A committed.json anyone can see names a complete generation: its manifest *)
(* and every file of its attempt are there and unchanged - between any two   *)
(* steps of a commit, after a failed step, a crash and a power loss.  And    *)
(* whoever read a pointer, or was given a reference by commit or reconcile,  *)
(* can load exactly that generation ever after: newer commits and a power    *)
(* loss that takes the pointer back leave it good.                           *)
EverythingLoads == \A ref \in Visible(disk.seen) \cup known : Loads(disk.seen, ref)

(* Short of a power loss a cell's pointer only moves on to attempts begun    *)
(* later: no runner's late commit covers a newer generation.                 *)
PointerMovesOn ==
  [][\A c \in Cells :
       LET before == CurrentRef(disk.seen, c)
           after  == CurrentRef(disk'.seen, c)
       IN  (after # before /\ before # NoRef) =>
             \/ after # NoRef /\ after.attempt > before.attempt
             \/ PowerLoss]_storeVars

(* What a finished commit tells its caller is what the pointer says: it has  *)
(* a reference, returned or recovered, exactly when the pointer names it.    *)
CommitTellsTruth ==
  [][\A r \in Runners :
       (call[r].method = "commit" /\ Idle(r)' /\ store'[r] = "open")
         => /\ attempt'[r].closed
            /\ attempt'[r].ref = NoRef => CurrentRef(disk.seen, attempt[r].cell) # call[r].answer
            /\ attempt'[r].ref # NoRef =>
                 attempt'[r].ref = CurrentRef(disk.seen, attempt[r].cell)
                 /\ attempt'[r].ref = call[r].answer]_storeVars

(* Nobody is shut out of a run for ever for a reason that lies in another     *)
(* runner.  A root that has cells but no identity is refused by every later   *)
(* constructor; no interleaving of constructors and no failure or crash of    *)
(* one makes such a root.  A power loss can, between the creation of cells/   *)
(* and the sync of an identity that another constructor linked, but only      *)
(* while no cell was ever begun in the root: what was measured is never       *)
(* behind a refusal.  And the writer lock is held only by a runner whose      *)
(* store can still use it and close it.                                       *)
ShutOut(tree) == Exists(tree, CellsDir) /\ ~Exists(tree, Identity)

NobodyShutOut ==
  [][/\ ShutOut(disk'.seen) =>
          \/ ShutOut(disk.seen)
          \/ PowerLoss /\ \A c \in Cells : ~Exists(disk.seen, CellDir(c))
     /\ lock' # Nobody => store'[lock'] = "open"]_storeVars

=============================================================================
