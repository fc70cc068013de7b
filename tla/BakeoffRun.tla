------------------------------ MODULE BakeoffRun ------------------------------
(***************************************************************************)
(* A resumable bake-off run: the resume state file (tools/bakeoff/         *)
(* resume.py), the coordinator loop over the matrix plan (coordinator.py)  *)
(* and the committing executor with its retry without previews (run.py),   *)
(* on top of the artifact store.  Every process is a runner started by the *)
(* operator with the same identity and state path; a runner that raises,   *)
(* crashes or finishes may be started again.                               *)
(*                                                                         *)
(* run[r].pc names what the runner does next once its current call (store  *)
(* method or state write) has returned:                                    *)
(*   off - start - store - resume - cell - begin - result - preview -      *)
(*   commit - complete - cell ... - records - done - exit - off            *)
(***************************************************************************)
EXTENDS ArtifactStore

CONSTANTS
  Plan,      \* the cells, in matrix order
  StateDir,  \* directory of the --state file: the output directory << >> or another
  HostLoad   \* the host_load of each CUDA cell, "none" for a cell of another provider

Loadings == {"idle", "live_flame"}

ASSUME PlanAssumption == Plan \in Seq(Cells) /\ ToSet(Plan) = Cells
ASSUME LoadAssumption == HostLoad \in [Cells -> Loadings \cup {"none"}]
ASSUME StagedAssumption == {"result", "preview"} \subseteq Files
(* The directory of --state is one beside the artifacts, not one of theirs.  *)
ASSUME StateDirAssumption ==
  StateDir = << >> \/ (StateDir = <<Head(StateDir)>> /\ Head(StateDir) # "artifacts")

VARIABLES
  run,
  machine   \* the load the operator keeps on the CUDA device

vars == <<storeVars, run, machine>>

StatePath == StateDir \o <<"state">>

Pending == [at |-> "pending"]
InProgress == [at |-> "in_progress"]
Complete(v, ref) == [at |-> "complete", result |-> v, ref |-> ref]

StateFile(entries) == [kind |-> "state", entries |-> entries]

Off ==
  [pc |-> "off", entries |-> << >>, next |-> 1, result |-> NoRef, preview |-> FALSE,
   confirmed |-> "none"]

(* What a process that ends leaves of itself: nothing, the confirmed load is  *)
(* a field of the context its successor makes anew.                           *)
\* Bug variant: the confirmation outlives the process.
Ended_Confirmed(r) == [Off EXCEPT !.confirmed = run[r].confirmed]

Ended(r) == Off

Entries == disk.seen[StatePath].entries

(* load_state returns every interrupted entry to pending. *)
\* Bug variants: an interrupted entry stays as it was; a complete one is
\* returned to pending too.
Recovered_Never(entries) == entries

Recovered_Everything(entries) == [i \in DOMAIN entries |-> Pending]

Recovered(entries) ==
  [i \in DOMAIN entries |-> IF entries[i] = InProgress THEN Pending ELSE entries[i]]

(* _atomic_write with replace, and with no_clobber. *)
SaveScript(entries) == <<Replace(StatePath, StateFile(entries)), Sync(StateDir)>>
CreateScript(entries) == <<Create(StatePath, StateFile(entries), <<Sync(StateDir)>>)>>

AllComplete(entries) == \A i \in DOMAIN entries : entries[i].at = "complete"

(* _validate_committed_ref: the generation belongs to the cell, loads, and   *)
(* its result.json is the result of the entry.                               *)
Backed(tree, i, v, ref) ==
  /\ ref.cell = Plan[i]
  /\ Loads(tree, ref)
  /\ "result" \in DOMAIN ref.sha.files
  /\ ref.sha.files["result"] = Payload(v)

BackedEntry(tree, i, entry) == entry.at = "complete" => Backed(tree, i, entry.result, entry.ref)

Goes(r, pc) == run' = [run EXCEPT ![r].pc = pc]

RunInit ==
  /\ disk = Durable(IF StateDir = << >> THEN InitialTree ELSE Write(InitialTree, StateDir, Dir))
  /\ NoStores
  /\ run = [r \in Runners |-> Off]
  /\ machine \in Loadings

At(r, pc) == Idle(r) /\ run[r].pc = pc

-----------------------------------------------------------------------------
(* Saves the recovered entries when one was interrupted, and goes on. *)
Load(r, pc) ==
  LET entries == Recovered(Entries)
  IN  /\ run' = [run EXCEPT ![r].pc = pc, ![r].entries = entries, ![r].next = 1]
      /\ IF entries # Entries
         THEN Enters(r, "save", SaveScript(entries), NoRef)
         ELSE UNCHANGED call
      /\ UNCHANGED <<disk, lock, store, attempt, begun, known, trouble, machine>>

(* _run_bakeoff before the store is made: load_state or create_state. *)
StartLoading(r) ==
  /\ At(r, "off")
  /\ Exists(disk.seen, StatePath)
  /\ Load(r, "store")

StartCreating(r) ==
  LET entries == [i \in DOMAIN Plan |-> Pending]
  IN  /\ At(r, "off")
      /\ ~Exists(disk.seen, StatePath)
      /\ run' = [run EXCEPT ![r].pc = "store", ![r].entries = entries]
      /\ Enters(r, "create", CreateScript(entries), NoRef)
      /\ UNCHANGED <<disk, lock, store, attempt, begun, known, trouble, machine>>

(* os.link finds a state file another runner has made: state_exists. *)
StateTaken(r) == Due(r, "create") /\ call[r].method = "create" /\ Exists(disk.seen, StatePath)

CreateRefused(r) ==
  /\ StateTaken(r)
  /\ call' = [call EXCEPT ![r] = NoCall]
  /\ Goes(r, "exit")
  /\ UNCHANGED <<disk, lock, store, attempt, begun, known, trouble, machine>>

OpenStore(r) == At(r, "store") /\ Open(r) /\ Goes(r, "resume") /\ UNCHANGED machine

(* RunCoordinator.run begins with a load_state of its own. *)
Resume(r) ==
  /\ At(r, "resume") /\ store[r] = "open"
  /\ Load(r, "cell")

StoreRefused(r) ==
  /\ At(r, "resume") /\ store[r] = "refused"
  /\ Goes(r, "exit")
  /\ UNCHANGED <<storeVars, machine>>

-----------------------------------------------------------------------------
Here(r) == run[r].next

(* An entry that was complete when the run was resumed is only validated. *)
SkipComplete(r) ==
  LET entry == run[r].entries[Here(r)]
  IN  /\ At(r, "cell") /\ Here(r) <= Len(Plan)
      /\ entry.at = "complete"
      /\ run' = IF BackedEntry(disk.seen, Here(r), entry)
                THEN [run EXCEPT ![r].next = @ + 1]
                ELSE [run EXCEPT ![r].pc = "exit"]
      /\ UNCHANGED <<storeVars, machine>>

(* _transition re-reads the file, checks the entry's state and saves. *)
Transition(r, i, current, target, pc) ==
  LET entries == [Entries EXCEPT ![i] = target]
  IN  IF Entries[i].at = current
      THEN /\ run' = [run EXCEPT ![r].pc = pc, ![r].entries = entries]
           /\ Enters(r, "save", SaveScript(entries), NoRef)
           /\ UNCHANGED <<disk, lock, store, attempt, begun, known, trouble, machine>>
      ELSE Goes(r, "exit") /\ UNCHANGED <<storeVars, machine>>

MarkInProgress(r) ==
  /\ At(r, "cell") /\ Here(r) <= Len(Plan)
  /\ run[r].entries[Here(r)].at # "complete"
  /\ Transition(r, Here(r), "pending", InProgress, "measure")

(* The load boundary of _run_cell: a CUDA cell waits until the operator has   *)
(* brought the device to its host_load and confirmed it, once for a run of    *)
(* cells that share the load.                                                 *)
Unconfirmed(r) ==
  LET load == HostLoad[Plan[Here(r)]] IN load # "none" /\ run[r].confirmed # load

ConfirmLoad(r) ==
  /\ At(r, "measure")
  /\ Unconfirmed(r)
  /\ machine' = HostLoad[Plan[Here(r)]]
  /\ run' = [run EXCEPT ![r].confirmed = machine']
  /\ UNCHANGED storeVars

(* Ctrl-C at the prompt ends the run; the entry stays in progress. *)
PromptAborted(r) ==
  /\ At(r, "measure")
  /\ Unconfirmed(r)
  /\ trouble < MaxTrouble
  /\ trouble' = trouble + 1
  /\ Goes(r, "exit")
  /\ UNCHANGED <<disk, lock, store, attempt, call, begun, known, machine>>

(* The operator turns to other work on the device once no run holds it. *)
Rearrange ==
  /\ \A r \in Runners : run[r].pc = "off"
  /\ machine' \in Loadings \ {machine}
  /\ UNCHANGED <<storeVars, run>>

(* The executor measures the cell: any result, with or without previews. *)
Measure(r) ==
  /\ At(r, "measure")
  /\ ~Unconfirmed(r)
  /\ \E v \in Payloads, preview \in BOOLEAN :
       run' = [run EXCEPT ![r].pc = "begin", ![r].result = v, ![r].preview = preview]
  /\ UNCHANGED <<storeVars, machine>>

(* _commit_cell_bundle. *)
BeginCell(r) == At(r, "begin") /\ Begin(r, Plan[Here(r)]) /\ Goes(r, "result") /\ UNCHANGED machine

WriterBusy(r) ==
  /\ At(r, "begin") /\ ~MayWrite(r)
  /\ Goes(r, "exit")
  /\ UNCHANGED <<storeVars, machine>>

StageResult(r) ==
  /\ At(r, "result")
  /\ Stage(r, "result", run[r].result)
  /\ Goes(r, IF run[r].preview THEN "preview" ELSE "commit")
  /\ UNCHANGED machine

StagePreview(r) ==
  /\ At(r, "preview")
  /\ Stage(r, "preview", run[r].result)
  /\ Goes(r, "commit")
  /\ UNCHANGED machine

CommitCell(r) == At(r, "commit") /\ Commit(r) /\ Goes(r, "complete") /\ UNCHANGED machine

(* _validated_execution, then mark_complete with the exact reference. *)
MarkComplete(r) ==
  LET v   == run[r].result
      ref == attempt[r].ref
  IN  /\ At(r, "complete")
      /\ IF Backed(disk.seen, Here(r), v, ref)
         THEN Transition(r, Here(r), "in_progress", Complete(v, ref), "next")
         ELSE Goes(r, "exit") /\ UNCHANGED <<storeVars, machine>>

NextCell(r) ==
  /\ At(r, "next")
  /\ run' = [run EXCEPT ![r].pc = "cell", ![r].next = @ + 1]
  /\ UNCHANGED <<storeVars, machine>>

-----------------------------------------------------------------------------
(* completed_records_with_refs: load the state again, refuse an incomplete *)
(* one, validate every record; then the report is published.               *)
ReadRecords(r) ==
  /\ At(r, "cell") /\ Here(r) > Len(Plan)
  /\ Load(r, "records")

\* Bug variant: the loop is trusted to have completed every cell.
Publishable_Trusted(r) == TRUE

Publishable(r) ==
  LET entries == run[r].entries
  IN  AllComplete(entries) /\ \A i \in DOMAIN entries : BackedEntry(disk.seen, i, entries[i])

CheckRecords(r) ==
  /\ At(r, "records")
  /\ Goes(r, IF Publishable(r) THEN "done" ELSE "exit")
  /\ UNCHANGED <<storeVars, machine>>

(* The `with` block closes the store and the process ends. *)
Exit(r) ==
  /\ At(r, "exit") \/ At(r, "done")
  /\ run' = [run EXCEPT ![r] = Ended(r)]
  /\ Ends(r)
  /\ UNCHANGED <<trouble, machine>>

(* A failed step raises: a failed preview is retried once with a fresh       *)
(* attempt and no previews, a commit that was published after all goes on,   *)
(* everything else ends the run.                                             *)
AfterFailure(r) ==
  CASE call[r].method = "stage" /\ run[r].preview /\ run[r].pc = "commit" ->
         [run[r] EXCEPT !.pc = "begin", !.preview = FALSE]
    [] call[r].method = "commit" /\ Reconciled(r) # NoRef -> run[r]
    [] OTHER -> [run[r] EXCEPT !.pc = "exit"]

CallFails(r) ==
  /\ StepFails(r)
  /\ run' = [run EXCEPT ![r] = AfterFailure(r)]
  /\ UNCHANGED machine

CallStep(r) ==
  /\ FileStep(r) \/ Return(r)
  /\ ~StateTaken(r)
  /\ UNCHANGED <<run, machine>>

Killed(r) ==
  /\ run[r].pc # "off"
  /\ trouble < MaxTrouble
  /\ trouble' = trouble + 1
  /\ run' = [run EXCEPT ![r] = Ended(r)]
  /\ Ends(r)
  /\ UNCHANGED machine

Outage ==
  /\ PowerLoss
  /\ run' = [r \in Runners |-> Ended(r)]
  /\ UNCHANGED machine

Work(r) ==
  \/ StartLoading(r) \/ StartCreating(r) \/ CreateRefused(r)
  \/ OpenStore(r) \/ StoreRefused(r) \/ Resume(r)
  \/ SkipComplete(r) \/ MarkInProgress(r) \/ ConfirmLoad(r) \/ Measure(r)
  \/ BeginCell(r) \/ WriterBusy(r) \/ StageResult(r) \/ StagePreview(r) \/ CommitCell(r)
  \/ MarkComplete(r) \/ NextCell(r)
  \/ ReadRecords(r) \/ CheckRecords(r)
  \/ Exit(r)
  \/ CallStep(r)

RunNext ==
  \/ Outage
  \/ Rearrange
  \/ \E r \in Runners : Work(r) \/ CallFails(r) \/ PromptAborted(r) \/ Killed(r)

RunSpec == RunInit /\ [][RunNext]_vars

(* The operator starts a run that ended again; a process that runs goes on. *)
FairRunSpec == RunSpec /\ \A r \in Runners : WF_vars(Work(r))

-----------------------------------------------------------------------------
Saved(tree) == Exists(tree, StatePath)

RunTypeOK ==
  /\ StoreTypeOK
  /\ \A r \in Runners :
       /\ run[r].pc \in {"off", "store", "resume", "cell", "measure", "begin", "result",
                         "preview", "commit", "complete", "next", "records", "done", "exit"}
       /\ run[r].next \in 1..Len(Plan) + 1
       /\ run[r].preview \in BOOLEAN
       /\ run[r].confirmed \in Loadings \cup {"none"}
  /\ machine \in Loadings
  /\ Saved(disk.seen) => \A i \in DOMAIN Plan : Entries[i].at \in {"pending", "in_progress", "complete"}

(* No cell is ever claimed complete without its evidence: at every moment,   *)
(* also in the file a power loss leaves behind, the exact generation of each *)
(* complete entry loads from the store and carries the entry's result.       *)
CompleteIsBacked ==
  Saved(disk.seen) => \A i \in DOMAIN Plan : BackedEntry(disk.seen, i, Entries[i])

(* A run goes on to publication only when every cell of the plan is complete *)
(* and backed at that moment.                                                *)
PublishesWholeRun ==
  \A r \in Runners : run[r].pc = "done" =>
    AllComplete(run[r].entries) /\ \A i \in DOMAIN Plan : BackedEntry(disk.seen, i, run[r].entries[i])

(* No CUDA cell is measured under another load than its own ("never silently *)
(* measured under whatever Flame state happens to already exist"): not after *)
(* an interruption, when the operator has used the device in between, and    *)
(* not at the boundary of two groups.                                        *)
MeasuredUnderItsLoad ==
  [][\A r \in Runners :
       run[r].pc = "measure" /\ run'[r].pc = "begin" =>
         HostLoad[Plan[Here(r)]] \in {"none", machine}]_vars

(* The durable state file is a ledger that each cell enters once, in plan    *)
(* order: what fails in between never takes an entry back, and no cell that  *)
(* is measured again ever replaces the result or the generation recorded.    *)
Recorded ==
  [i \in DOMAIN Plan |->
     IF Saved(disk.kept) /\ disk.kept[StatePath].entries[i].at = "complete"
     THEN disk.kept[StatePath].entries[i] ELSE Pending]

Ledger == INSTANCE RunLedger WITH ledger <- Recorded, Unrecorded <- Pending

KeepsLedger == Ledger!LedgerSpec

(* When the trouble ends, an operator who starts the run again whenever it   *)
(* ended sees every cell completed.                                          *)
EveryCellCompletes == <>(Saved(disk.seen) /\ AllComplete(Entries))
=============================================================================
