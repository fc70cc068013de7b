# White Water: a verification project

TLA+ models of the parts of White Water whose correctness depends on the order of
steps: the flow cache that render threads share and the rendering of a frame by the
host's threads; the offline bake-off tools, which measure cells in forked children,
resume interrupted runs and publish their evidence; the exporters that share a model's
manifest; and the lane that admits, reviews and packages what will be shipped. TLC
checks the models on small instances; TLAPS proves most of what the runs check of the flow
cache, the renderer, the measurement of a cell, the artifact store and the resumable run for
every value of their constants.

Contents: [the system](#the-system), [the modules](#the-modules),
[the runs](#the-runs), [the proofs](#the-proofs),
[what disagrees with its documentation](#where-the-code-and-its-documentation-disagree),
[assumptions and limits](#assumptions-and-limits), [not modelled](#not-modelled),
[the plan](#the-plan).
Run `tlc -config MCFlowCache_shared.cfg MCFlowCache` and
`tlapm FlowCacheProofs.tla` in this directory to repeat a check or a proof.

## The system

White Water is an OpenFX optical-flow plugin in C++ together with the Python
tools that choose the model it will ship. `PROJECT.json` lists all its
components with what is modelled of each; this is the inventory behind it.

### The plugin (`src/core`, `src/infer`, `src/ofx`)

| Component | State | Operations | What is hard | Correct when |
|---|---|---|---|---|
| Flow cache, `core/flow/FlowCache` | generation; two LRU stores (recency list, hash index, byte total, budget) under one mutex | `captureGeneration`, `lookup*`, `publish*`, `put*`, `bumpGeneration`, `clear`, budget setters | threads compute outside the mutex while the host changes inputs and bumps | nothing stale is resident or served; index, list and bytes agree; eviction follows recency and budget |
| OFX plugin, `ofx/OpticalFlowPlugin` | instance handles, parameters | describe, the query actions, render, thread-suite callback | host threads split rows; the suite may throw in the middle of a render | one whole picture, every row once; the queries announced what is rendered |
| Flow chain and algebra, `FlowChain`, `FlowCompose`, `FlowLink` | none | links between frames, composition, validity | floating point | unit tests |
| Warp, ST maps, composite, images | none | per-pixel arithmetic | floating point | unit tests |
| Inference seam, `infer/` | none | `estimate` | the estimator may fail | failures are typed |

The cache is complete in the source but not yet connected to the plugin: the
unit tests (`tests/unit/flow_cache_tests.cpp`, with a stale-publication race of
two threads) and `docs/plan.md` fix how it will be called, and the model's threads
follow them.

### The bake-off tools (`tools/bakeoff`)

| Component | State | Operations | What is hard | Correct when |
|---|---|---|---|---|
| Artifact store, `artifact_store.py` | `.artifacts/<run identity>/`: `identity.json`, `writer.lock`, `cells/<cell>/{attempts,manifests,committed.json}` | constructor, `begin`, `stage_*`, `commit` with reconcile, `close`, `load*` | several processes; any system call may fail; kill and power loss between any two | whatever a pointer names is complete, for ever; the answer of `commit` is the truth |
| Resume state, `resume.py` | one JSON file: an entry per cell | `create_state`, `load_state` (returns interrupted entries to pending), transitions | read-modify-write of a shared file | no complete entry without evidence; completed entries are permanent |
| Coordinator, `coordinator.py` | position in the plan | validate or execute each cell, `completed_records_with_refs` | restart at any point | every cell completes; only a whole run is published |
| Driver: executor, `run.py` | the confirmed host load; the measured cell | `_run_cell`, the bundle of a pass or a failure, `_commit_cell_bundle` | failure between measurement, scoring and commit | the row shows what was measured, and is one that publication accepts |
| Driver: outputs, `run.py`, `reporting.py` | `.run-identity.json`, `report.json`, `report.csv`, `summary.txt`, `review.csv`, `nvml.csv` | publish, reuse, repair, `--replace`, rollback | the files are installed one by one; humans edit one of them | the files describe one run; human notes survive |
| Driver: CUDA isolation, `run.py` | forked child, queue, parent loop | measure in a child, drain, join, `process_exit` | the child may die at any point | no outcome lost, no endless wait, last reading after teardown |
| NVML sampler, `nvml.py` | poll window: thread, event, maximum | `sample`, `poll` | a reading in flight when the window closes | the peak is not missed, a failed reading is not hidden |
| Report validator, `validator.py` | none | judges protocol, corpus and report | its rules for a row are written a second time in the executor | a row the executor passes is one it accepts |
| Evaluator, matrix, conditioning, metrics, image formats, ONNX Runtime bridge | none that outlives a call | numerics, expansion, parsing | floats, bytes | unit tests |

### Models and release (`models`, `tools/p25_5`)

| Component | State | Operations | What is hard | Correct when |
|---|---|---|---|---|
| Model artifacts, `artifact_workflow.py` | a manifest per model with a row per platform, the ONNX file beside it | load, validate, publish the file, record, write atomically | file and manifest are replaced one after the other; exports, failures and newly known terms follow each other | what is recorded was qualified; nothing that passed is lost |
| Exporters and checkers, `export_*.py`, `check_*.py` | - | gates from provenance to parity; success and failure records | each family has its own gates, status and reasons | a passing export is one its checker accepts |
| Admission, `admission.py`, `legal_review.py` | review, admission | decide what may be measured and shipped | files are read more than once while people and exporters change them | what is shipped was reviewed as it is |
| Runtime licences, `licenses.py` | inventory of the conda runtime, its approval | inventory, review, content identity, credits | the runtime is solved, packed and unpacked anew each time | the approved content is the one carried; every package is credited |
| Packaging, `package.py`, `p25_6_materialize_inputs.py` | carried inputs, stage, archive, inventory, checksum | fill, stage, archive, verify | sources change while they are packed | the archive is of files that stood on disk together |

### How the parts interact

```
 host ── changedClip, changedParam ──> FlowCache <── lookup, publish ── render threads
 host ── queries, render, rows ──> OpticalFlowPlugin

 export_* ── gates, publish, record ──> manifest, ONNX file
                                             │  read by
 reviewers ── reviews, approvals ──> p25-6 lane: admission, licences, inputs, package
                                             │  carries
 run.py ── create/load ──> state file <── transitions ── RunCoordinator
   │                                                        │ execute(cell)
   │                          forked child + PollWindow <───┤
   │                                                        │ begin, stage, commit
   │                                     ArtifactStore <────┘
   └── publish (reports, summary, review, identity record) ──> output directory
```

The driver reads the state file and makes the store of the run identity; the
coordinator goes through the plan, measures a cell (in a child for CUDA), commits its
bundle and marks it complete with the exact generation; then the driver reads all
records back, validates the report and publishes. The state file, the store and the
outputs are made durable separately, and nothing spans them but the order of the
steps: that is what the models are about.

## The modules

A call that the code makes under a mutex is one action. A call that consists of
system calls is a *script*, a sequence of steps; each step is an action, so that
another process, a failing call, a kill or a power loss may come between any
two. A document is the record of the fields that somebody compares, and a hash is the
value it is the hash of. `PROJECT.json` maps each definition to its lines.

### Flow cache

* **`LruStore`**: the template class `LruStore` as operators from store to store
  (`put`, `erase`, `evictToFit`, `setBudget`, `clear`, `Touched`), with the recency
  list, the index and the byte total as separate fields, since the code must keep them
  in step. The eviction loop is written as what it computes: the longest front
  part of the list that brings the total within the budget. `saturatedAdd` sticks
  at `MaxSize`, the largest `size_t`.
* **`FlowCache`**: the cache with its generation, render threads and a
  host. A thread goes idle → captured → missed → computed → idle; between any
  two of these the host may change the clip (`ChangeInputs`), bump
  (`BumpGeneration`, also `clear`) or resize. `inputs` numbers the content of the
  clip and the parameters; a value remembers the content it was made from, which is
  what makes "stale" a property of the state. A thread may publish with the key
  of its token or of a generation that it read later, insert directly (`Put`, the
  precache walk), compose a field from a resident link (`Compose`), or hold a value
  that does not match its key.
* **`InvalidatingCache`**: the abstract promise, a forgetful map that keeps only
  fresh values of the current generation. `FlowCache` refines it
  (`KeepsPromise`, with `resident <- Slots`).
* **`FlowCacheProofs`**: induction on sets of numbers, the lemmas about
  the store's operations and the theorems about the cache.

### Bake-off run

* **`Disk`**: the POSIX file system below the tools (external). `seen` is the tree
  processes see and `kept` the entries made durable by an `fsync` of their directory.
  After a power loss each entry that was not synced shows its old or its new
  state, independently of the others, and what lost its directory is gone.
* **`ArtifactStore`**: constructor, `begin`, `stage_*`, `commit`, `close` as scripts
  over `Disk`; the `flock` on `writer.lock`; failure of any step with what the
  `except` clauses do (poisoned store, closed attempt, reconcile by the pointer);
  kill; power loss. A manifest records the files of its attempt and its content stands
  for its hash, so `Loads` is `_load_ref`.
* **`BakeoffRun`** extends it with the state file, `load_state` with its recovery,
  the coordinator loop, the commit of a cell and its retry without previews, the
  host load and the check before publication. A runner is a process with the same
  identity and `--state` path; `run[r].pc` names what it does once its current call has
  returned. `machine` is the load that really is on the device: the operator changes it
  when the runner asks, may refuse, and may rearrange the machine while no process runs.
* **`RunLedger`**: the abstract promise of a run, a ledger in which each cell
  is entered once, in plan order, with its result and generation. The durable
  state file of a single runner refines it (`KeepsLedger`).
* **`ArtifactStoreProofs`**, **`BakeoffRunProofs`**: the theorems about these two, see
  [the proofs](#the-proofs).
* **`RunOutputs`**: what invocations leave in the output directory. An invocation
  has an identity, a state file and `--replace`; measuring is one step, as in
  `RunLedger`. A document is modelled by the run it describes; `review.csv` also has
  the runs human notes were written about and whether its bytes are the driver's own.
* **`RunOutputsProofs`**: its theorems.

### A cell

* **`CudaMeasure`**: the child's main thread through the polled stages and the
  inferences behind them, the polling thread of each window, the feeder that writes the
  outcome into a pipe in several writes, and the parent's loop: poll, check the child,
  drain, receive, join, read `process_exit`. A kill may strike the child at any step.
* **`CellExecution`** extends it with the executor: `_run_cell` from the measurement
  (in the child, or in process for a cell without NVML) over the scoring and the per-cell
  gates to the bundle, what `_commit_cell_bundle` stores with the row, and
  `ctx.measured_cell`, which the executor clears around each cell. A metric is a name that is
  there or not; which ones are due depends on the shot's truth, its partition and its
  `chain_length`. The rules by which the report validator and the publication judge
  a row (`ReportAccepts`, `PublicationAccepts`) are translated from their own source, not
  from the executor's, so that `RowsPublish` compares the two.
* **`CellExecutionProofs`**: the theorems about both.

### Models

* **`ExportGates`**: what each of the four exporters checks before it publishes, in its
  order, and how it blames a failure. A gate is a set of pairs, of a defect it
  catches and the blame; PyTorch, ONNX and the comparison of numbers are verdicts.
* **`Exporters`**: exporter processes over one manifest and one ONNX file: load, gates,
  publication of the file, the hash read back from it, the row and status of a success,
  the record of a failure (each family has its own), and the steps of the atomic write. The
  operator runs any platform with a good or a defective setup; a kill may come between any
  two steps. What each family's checker accepts is translated from the checker.
* **`ExportersProofs`**: its theorems.

### Release

* **`Admission`**, **`RuntimeLicences`**, **`Packaging`**: the decisions of
  `admission.py`, `legal_review.py`, `licenses.py`, `p25_6_materialize_inputs.py`
  and `package.py` as operators. One that may refuse returns a set: empty, or the one
  document it produces.
* **`Release`** runs them as the workflow's lane does, a step for each read or write, stops
  at the first refusal, and between any two steps lets reviewers sign or withdraw,
  exporters change the model, the solver give another build and somebody install a wheel. Two
  history variables say what a property may claim: `blind` names what changed where no
  later check of the lane looks (the models after the admission has read them, the unpacked
  prefix after its last verification), and `together` whether everything in the
  archive stood on disk at one moment.
* **`ReleaseProofs`**: its theorems.

### A frame

* **`RowRenderer`**: the host asks `getFramesNeeded` and `isIdentity`, then calls `render`, which chooses clip and time again, divides the rows
  among the threads the suite really starts, checks for an abort every few rows, and
  falls back when the suite throws: to black for the tracker, to a serial pass for
  the ST map. Rows are painted one by one by concurrent workers, directly or through a
  buffer that is converted block by block.
* **`RowRendererProofs`**: its theorems.

The `MC*` modules only give constants that a `.cfg` cannot express (a plan, a set
with both Booleans, the permutations for symmetry).

Operators whose names join a definition and a suffix (`Accepts_KeyOnly`,
`CommitScript_NoSync`, ...) under a "Bug variant" comment are plausible
mistakes in that definition. No action uses them: `PROJECT.json`, "mutants", names
for each property the one that must break it.

## The runs

| Run | Config | Shows |
|---|---|---|
| `cache` | `MCFlowCache_shared` | nothing stale is resident; index, list and bytes agree; eviction takes the least recent and no more than the pressure asks for; refinement of `InvalidatingCache` |
| `store_writers` | `MCArtifactStore_writers` | two runners from a durable `.artifacts` without their run root: pointers and references always load, a late commit never covers a newer one, `commit` tells the truth, also after a failure |
| `run_resume` | `MCBakeoffRun_resume` | one runner started again and again: complete entries are backed, no cell is measured under another group's load, the durable state is a ledger, every cell completes |
| `run_together` | `MCBakeoffRun_together` | two runners, one state file, from nothing, power failing at any moment: no partial run is published; nobody is shut out of the root or the lock, but by a power loss of a root where no cell was begun |
| `outputs_alone` | `MCRunOutputs_alone` | invocations of any arguments one after another: who returns leaves one run's outputs, the identity record leads, human notes survive |
| `outputs_together` | `MCRunOutputs_together` | two invocations at once never overwrite a report or take back another's |
| `outputs_repair` | `MCRunOutputs_repair` | rerunning the same command completes the outputs after kills and failures |
| `outputs_powerloss` | `MCRunOutputs_powerloss` | *violation*: not after every power loss |
| `cells` | `MCCellExecution_cells` | the peak and the error of the reading in flight are kept, an answer is a whole measurement, the committed evidence is the cell's own, every row is one that the validator and the publication accept, every cell is answered unless the child is cut off while sending |
| `exporters` | `MCExporters_alone` | the manifest always loads and records only what was qualified; passes and other platforms' rows survive; a passing record satisfies its checker; a retry is recorded, with the two exceptions below |
| `release` | `MCRelease_lane` | what is shipped was reviewed as it is, comes from one set of records that stood together, in the approved runtime, with every package credited; a lane left in peace ends in a package |
| `frame` | `MCRowRenderer_frame` | one whole picture, no row with two painters, the queries agree with render, render returns |

### Bounds, and why they are enough

* `cache`: two threads race over two identities, two sizes and budgets {1, 2}: two
  small values fit the larger budget and one of them must go when it shrinks, a
  large value evicts both or does not fit at all. One bump (`MaxGeneration`) and one
  change (`MaxInputs`) are the shortest history in which a value can go stale. A
  budget of zero, which disables a store, is left to the proofs, which lift all
  these bounds for the invariants and the refinement.
* `store_writers`: one cell, one file with two contents, three attempts
  (`MaxAttempts`: two of one runner around one of the other), two troubles
  (`MaxTrouble`: a failure and a kill, or a kill and a power loss). Cells do not share
  directories but `cells/`, and writers exclude each other across cells.
* `run_resume`: two cells of two host-load groups, so that one is complete while the
  other is interrupted and the confirmed load changes between them; two troubles; five
  attempts allow two cells, each retried, and one to spare.
* `run_together`: two runners, one cell, two results to tell their records
  apart, one trouble - a power loss at any moment among them - and two attempts. The races need a runner that recovers the entry another is
  measuring; one cell has it.
* `outputs_*`: two identities, two state files and two results are what it takes for a
  foreign report, a foreign state and a report of the same identity with another
  result. `together` runs them in parallel with one trouble.
* `cells`: two cells (`MaxCells`), so that something of the first could show in the second,
  of any kind of shot in process and of two kinds on CUDA; two windows, so that a poller
  of an earlier one could be seen in a later; readings 0..2 around a limit of 1, so that the
  memory gate can fail; an outcome with its grids takes three writes (`Chunks`) over a
  pipe that holds two (`Capacity`), so that the feeder waits for the parent, and an
  error takes one, so that the child may be gone before the parent looks; two troubles, such as
  a failed poll and a kill.
* `exporters`: two platforms, one of them the home of the pinned bytes, two contents of a
  graph, two defective invocations or kills, and any number of clean ones: a failure can
  be recorded before, over and after a pass, on either platform.
* `release`: two builds and one patched wheel, two places to unpack a runtime, terms that
  are clear or not for one surface, both roles of a manifest, and two things that
  come between the steps of a run, which is dispatched any number of times.
* `frame`: heights 1 and 5 with abort checks every two rows and up to four CPUs: fewer rows
  than workers, a last worker with fewer rows or none, and blocks that end in the middle.

Deadlock is checked except where the model may stop: in `store_writers` and
`run_together` the bound on attempts may leave a runner with nothing to do, and in
`cells` the plan ends, or a child cut off while sending leaves the parent waiting for
ever.

### Fairness

* `run_resume` and `outputs_repair`, `outputs_powerloss`: weak fairness of a
  runner's own steps, which include starting again and the operator's answer to the
  host-load prompt. The tools have no scheduler of their own; the run instructions
  (`bakeoff/p25-6/RUN-P25-6.txt`) tell the operator to rerun the identical command, and a
  running process goes on. Failures, kills and power losses are never fair and bounded by
  `MaxTrouble`: "when the trouble is over". Liveness is claimed for one runner only: two that
  recover each other's entries may keep each other from completing a cell.
* `cells`: weak fairness of the child, of its poller, of the parent and of the executor:
  the operating system schedules threads, inference and NVML queries return.
* `exporters`: an exporter runs to its end unless it is killed, and the operator tries
  again with a good setup.
* `release`: the steps of a run, and people who answer what they were shown. What comes
  between is bounded by `MaxTrouble`.
* `frame`: the calling thread runs and the suite runs every worker it has started, which is
  what `multiThread` promises: it returns when all of them have.

## The proofs

TLC looks at every state of a small instance; the theorems below hold for every number of
threads, runners, cells, rows, attempts and, but for the hypotheses under
[assumptions](#assumptions), invocations, every size and budget, and any number of
failures, kills and power losses. `tlapm <module>.tla` repeats them.

| Module | Theorem | States |
|---|---|---|
| `FlowCacheProofs` | `Typed`, `NeverStale`, `AlwaysCoherent`, `AlwaysWithinBudget` | `TypeOK`, `NoStaleResident`, `IndexCoherent`, `ExactBudget` are invariants |
| | `AlwaysEvictsAsPromised` | every step satisfies `EvictsAsPromised` |
| | `Implements` | `Spec => KeepsPromise`: the cache refines the forgetful map |
| `RowRendererProofs` | `FrameTyped`, `AlwaysWhole`, `AlwaysAgree` | types, `WholeFrame`, `QueriesAgree` |
| `CellExecutionProofs` | `CellTyped`, `AlwaysTrue`, `AlwaysOwn`, `AlwaysPublish` | `CellTypeOK`, `AnswerIsTrue`, `EvidenceIsOwn`, `RowsPublish` |
| | `PeaksCaptured` | every step satisfies `PeakIsCaptured` |
| `ArtifactStoreProofs` | `StoreTyped`, `AlwaysLoads` | types, `EverythingLoads` |
| | `AlwaysMovesOn`, `AlwaysTellsTruth` | every step satisfies `PointerMovesOn`, `CommitTellsTruth` |
| | `StoreShutsNobodyOut` | every step satisfies `NobodyShutOut`, wherever power may fail |
| `BakeoffRunProofs` | `RunTyped`, `AlwaysBacked`, `AlwaysWholeRun`, `RunAlwaysLoads` | `RunTypeOK`, `CompleteIsBacked`, `PublishesWholeRun`, and `EverythingLoads` within a run |
| | `AlwaysMeasured`, `RunShutsNobodyOut` | every step satisfies `MeasuredUnderItsLoad`, `NobodyShutOut` |
| | `RunKeepsLedger` | `RunSpec => KeepsLedger`: the durable state file refines `RunLedger` |
| `RunOutputsProofs` | `OutputsTyped`, `DoneWhole` | `OutputsTypeOK`, `DoneIsWhole` |
| | `SidecarLeadsReport`, `NotesStay`, `ReportStays` | every step satisfies `SidecarLeads`, `NotesSurvive`, `ReportKept` |
| `ExportersProofs` | `ManifestAlwaysTrue` | `ManifestIsTrue` is an invariant |
| | `AlwaysKeeps`, `AlwaysAccepted` | every step satisfies `KeepsWhatPassed`, `RecordsPassCheck` |
| `ReleaseProofs` | `EligibleReviewed`, `CarriesAdmitted`, `RuntimeReviewed`, `PackagesCredited` | `EligibleWasReviewed`, `CarriesWhatWasAdmitted`, `RuntimeIsReviewed`, `EveryPackageCredited` are invariants |

Each module states its inductive invariant in named parts, shows that it holds at
first, has a lemma for each action that the action keeps it, and draws the theorems from it.
The invariants were run through TLC on the instances of the runs before they were proved.
None of the properties is inductive as it stands; what each needs is the interesting part.

### Flow cache

```
IInv == TypeOK /\ announced <= inputs
        /\ \A st \in Stores : StoreSound(store[st])
        /\ \A w \in Workers : Pending(worker[w])
```

A publication puts in a value whose age only the thread knows: `Pending` says that a
thread whose token is still the current generation holds a value at least as new as the last
announced content (a bump makes the token old, so the value may become stale but can no
longer be published). And `NoStaleResident` speaks of entries of the list, while a
lookup for `Compose` goes through the index: `StoreSound` adds that the index and the list agree
without duplicate keys (`Coherent`), that bytes are exact and within the budget
(`Accounted`), and that each entry is of the current generation, matches its key, is
fresh and has a size (`Good`).

The first part of `FlowCacheProofs` shows that every store operation preserves `Coherent` and
`Accounted`. Byte sums are a recursive function, `RunningBytes`; its lemmas (a sum
over a list with one entry removed, one pushed, or cut short) are shown by
a least-element argument over finite sets of positions (`LeastElement`, `InductiveSet`), which needs no
operator parameter. `Implements` maps each action to `Keep`, `Forget`, `Invalidate`, `Change` or a
stutter. For `EvictsAsPromised`, `Spares(s, t, X)` says of any operation from store `s`
to `t` that the keys it lost, but for those of `X`, are the back of the list and that the last of
them did not fit any more; `PutSpares` is the delicate one, since `put` takes an entry out of the
middle before it evicts.

### Renderer

`Painted` says that a row is painted only by workers whose share it is in and with the
picture of the pass, `Progress` that a worker has painted all it has gone through,
`Covering` in which states the workers that are to start cover all rows. That the
shares of `first`/`last` are disjoint and cover the frame is the arithmetic of
`multiThread`'s division, proved for any height and count. `Shown` and `Routed` tie what
is in the host's image to the request, which `QueriesAgree` compares with the queries.

### A cell

`ChildSound` says which samples the child has at each point and what it may send,
`PollerSound` that the poller's maximum covers every reading taken in the window but the
one in flight and that a failed reading is remembered, `ParentSound` that the parent
holds exactly what left the pipe, and what it may conclude once the child is gone.
`AnswerIsTrue` needs all three: an answer is only as whole as what the child sent. `ExecInv` follows a
measurement into the bundle: `MeasuredSound` and `BundleSound` say that rows are those that were heard
for this cell and that a bundle is one `ReportAccepts` takes, a cell that is never scored
(`NeverScored`) excepted as in `RowsPublish`.

### Store

```
IInv == ... /\ DiskOK(disk, known) /\ Fresh /\ Distinct
        /\ \A r \in Runners : AttemptOK(...) /\ RunnerOK(...)
        /\ \A ref \in known : KnownRef(ref)
```

`RunnerOK` relates the rest of a runner's script to what its steps so far have put on the
disk: `OpenOK`, `BeginOK`, `StageOK` and `CommitOK` list the remainders with what is
settled (durable as it is seen) at each. `KnownRef` says that every reference anybody was given names a
`Generation`: manifest, files and all directories above them settled, the files exactly those
of the manifest, and no attempt that could still stage into it (`Sealed`). `Fresh`
keeps the entries of attempts not yet begun unused. A step of somebody else is
shown once to leave a generation alone (`Leaves`), and a power loss to take nothing that is
settled (`PowerLossKeeps`, from which paths stay reachable). The action properties need
`PInv` besides: `Exclusive` - whoever has an attempt it can use holds the writer lock, and it is the last one
begun - and `Pointed` - a commit past its pointer step finds its own reference there.

`NobodyShutOut` is about power losses before the root is durable too, where `IInv` does not hold, and has
an invariant of its own, `Ground`: until the identity is settled no store is open (`GroundOK`) and no
cell directory exists (`NoCellBegun`); `cells/` is only made where the identity is seen; and whoever
holds the lock has an open store. A step of a method other than the constructor is `Tame`: it writes
below the root only when the identity is settled. So a power loss can take the identity and leave
`cells/`, but then `cells/` is empty.

### Run

`RInv` adds that complete entries, in the file that is seen, in the one that is
durable and in the memory of every runner, name known references with the entry's result
(`GoodEntries`), and what is left of a write of the state file (`WriteOK`). `LoadInv` is
that a process has confirmed nothing or what the machine is. For the ledger, `LInv` says that the
durable file and the file that is seen differ by at most one entry (`FileOK`), that none is
outstanding while a cell is measured, and that the loop has in memory what the file holds
(`LoopOK`): a complete entry is made durable before the next cell is begun.

### Outputs

```
AloneInv == TypeInv /\ NotesIn(disk.seen) \subseteq NotesIn(disk.kept)
            /\ \A i \in Invocations :
                 (\A s \in Todo(i) : Means(i, s)) /\ Looked(i) /\ Leads(i) /\ Completes(i)
```

An invocation is a script of steps, so the invariant reads the script that is left.
`Completes`: of an invocation that is publishing, each of the five files is as it should be or has a step
left that will make it so; with no step left this is `DoneIsWhole`. `Means`: what a step
will write is about the run of the invocation, and a `review.csv` it replaces has the
notes that are there. `Leads`: from the state file on, the identity record names the run or is the next
thing written, or else a report is there and nothing left will write one - the third case
is that of a report published before there were records, which is why `SidecarLeads` is not inductive
by itself. `MayDo` (in `TypeInv`) says which steps may be left at all: only an
invocation that has given up inspects or unlinks, only one without `--replace` links or merges. Notes are
durable as soon as they are seen (the first line), so a power loss cannot take them.

For `ReportStays`, `OwnReport`: what is about to be unlinked is the invocation's own report. It needs
nobody to replace, because the unlink goes by name.

### Exporters

```
EInv == family \in {...} /\ IsManifest(manifest) /\ Valid(manifest)
        /\ Backed(manifest) /\ Settled(manifest)
        /\ ex = [p \in Exporters |-> ex[p]] /\ Alone
        /\ \A p \in Exporters : ex[p] # Idle => Sound(ex[p])
```

The three properties speak of the manifest before and after the rename, while what is renamed was put
together many steps earlier, from what was loaded at the start. `Sound` carries it over: until an
exporter has made its record, what it has loaded is the manifest; from then on,
what it is going to write is `Proper`. `Proper(m, platform)` compares `m` with the manifest that is there: it keeps what passed
(`Keeps`), touches no other platform's row (`OwnRow`), is backed by published files
(`Backed`), and is one the family's checker accepts if it passes. The rename is then immediate for all
three.

That a success is `Proper` is `SuccessProper`. It rests on `GatesLet`, which goes
through the scripts of the four families: a defect that no gate catches is tolerated by
the family, is seen by a later step (the rename, the platform of WAFT) or is a NaN, and a
NaN makes the record invalid, so that `write_manifest` refuses it. `Settled` says what the records of each
family keep to: without it a failure record of NeuFlow could not be told from an exclusion
for the licence, nor could RAFT's `has_numerical_result` be trusted to protect a passing one.

### Release

```
RInv == Shaped /\ Fresh /\ Claims /\ Bindings /\ Admitted
        /\ Runtime /\ Approvals /\ Filled /\ Stage /\ Shipped /\ Closed
```

`Shipped` is the four properties themselves, about the archive; they only hold in the middle of a run
because of what the run has gone through. `Reached(pc)` says that it is past a step, and each
other part says what holds from which step on, so that a step which proceeds has one new fact to
show and hands the others on (`CandidateStays`, `AdmittedStays`, `RuntimeStays`, `ApprovalsStay`,
`FreshStays`), one that refuses has none (`Stopped`), and what others do between two steps leaves
all of it alone (`Besides`).

*The candidate.* Its manifest is read seven times, and no two readings need be of one
edition. `Bindings` orders them: the declared terms carry the edition at the start of the
run, which is at most that of the manifest loaded by `admission.py`, which is at most that of the
one hashed for its entry, which is at most today's. When `collect_candidate` finds the first equal to the
last, all between are equal too (`CollectCandidateSound`), and `Admitted` keeps it so unless
`blind` says otherwise. `Claims` carries the two halves of the review check, which are made at different steps.

*The runtime.* `CameFrom` says what a prefix can have become since it was unpacked, whatever wheels were
put into it: source, name and version still tell its packages apart. `Declares` remembers that an
input was written from such a prefix, perhaps before a wheel was replaced; `OneReading` shows that
the record which `collect_runtime` then writes joins no two packages, since conda's packages are bound by the lock and
a wheel by the hash of its record. Without `Declares` the text could be one package's and the licence
another's. `Runtime` then holds the content of the inventory equal to that of the build which was
packed, and `Approvals` the inventory to the one a human signed.

*The package.* `Stage` has each file as its source still is; `Closed` relates the flags,
the inventory and `together`, which `VerifySound` shows from the comparison of the sources.

### Assumptions

* `BudgetAssumption`: budgets are at most half of the largest `size_t`.
  Without it the running total could saturate in `put` and the comparison with the
  budget be wrong; no machine has memory for such a budget.
  `PayloadAssumption`: a valid value has a positive size that fits `size_t`.
* `MeasureAssumption`: memory is counted in natural numbers, an outcome takes at least one write and the pipe
  holds at least one. `WindowsAssumption`: the evaluator polls `session_create` and `steady`
  (`evaluator.py:626`, `653`), whose rows the publication asks for.
* `HeightAssumption`, `CPUAssumption`: a frame has rows, and an abort check comes every so many of them.
* `RunnersAssumption`: "nobody" is not a runner. `StagedAssumption`: what a cell stages are files of the store.
  `StateDirAssumption`: the directory of `--state` is the output directory or one beside `.artifacts`.
* `PowerFails # "ever"`, a hypothesis of every theorem about the store and the run but
  `AlwaysMeasured`, `StoreShutsNobodyOut` and `RunShutsNobodyOut`: power fails only once the run root and its identity are durable. With "ever" the
  others are false, for the reasons under [where the code and its documentation
  disagree](#where-the-code-and-its-documentation-disagree).
* `Solo`, a hypothesis of `AlwaysMeasured` and `RunKeepsLedger`: no two runners use the state file and
  the device. The state file is read and written without a lock, so two runners do take each other's entries
  back; that they still publish only whole runs is `AlwaysWholeRun`, which does not assume it.
* One invocation at a time (`\A i, j \in Invocations : i = j`), a hypothesis of `DoneWhole`, `SidecarLeadsReport`
  and `NotesStay`, and no `--replace` (`Replaces \subseteq {FALSE}`), one of `ReportStays`: those of the
  runs `outputs_alone` and `outputs_together`. The one invocation may be started again any number of times, with other
  arguments each time. Nothing in the driver keeps two apart in one directory, and what they then
  do to each other is under [where the code and its documentation
  disagree](#where-the-code-and-its-documentation-disagree).

* `~Together`, a hypothesis of the three theorems about the exporters: they run one at a time, in any order, on any
  platform, and may be killed at any step. Nothing in the code keeps two apart; they then share
  one temporary name (`artifact_workflow.py:505`) and write back each other's stale rows. `ExportersAssumption`: `Home` is a platform, `Pinned` is a content, and
  the markers of a missing hash and a missing row are no contents of a file.

* `BuildsAssumption`: a build has one record for each package, as `licenses.py` refuses two conda records of
  one URL or two wheels of one identity (545-640), and each dist-info is that of a package of conda or of a wheel.
  `WheelsAssumption`: wheels of one name, version and record have one licence, which is read
  from that record. `ReleaseAssumption`: there is a build and a place. The terms, roles, patches and the number
  of things that come between are free, and `blind` is part of what the properties say.

### Only model-checked

* All liveness: `EveryCellCompletes`, `EventuallyWhole`, `RenderReturns`, `EveryCellAnswered`,
  `EventuallyRecorded`, `EventuallyPackaged`. TLAPS 1.4.5 proves neither `ENABLED` nor
  fairness arguments.

## Where the code and its documentation disagree

**`outputs_powerloss`.** A power loss before the directory is synced may keep
`report.csv` and lose `report.json`; each rerun of the identical command then
ends with `output_exists`, while `RUN-P25-6.txt:234-235` tells the operator to do
just that.

What follows was met on the way and is not kept as a run; each can be repeated by the
change named.

*Bake-off.*

* `run.py:1562` and `1587` score dense truth and chain drift only for generated cases, and
  landmark metrics never, while `run.py:28-29` says chain drift is "computed
  whenever the shot declares `chain_length`" and the corpus schema lets
  production shots declare it. Such a cell passes in the executor;
  `_validate_metric_applicability` (`validator.py:1679`) then refuses the row, and with it the
  report of the whole run. `RowsPublish` excepts these shots by name (`NeverScored`): without the
  exception TLC shows the row. (The docstring at `run.py:34-38` documents the landmark half.)
* In process only `ExrFailure`, `DependencyFailure` and `EvaluatorFailure` of the inference become a
  failed row; any other exception ends the run (`Aborts`). The CUDA child reports all of them.
* `Queue.get(timeout)` bounds the wait for the first byte only. The parent holds a writing end
  of the pipe, so a child killed in the middle of sending a large outcome is not an end of file, and
  `recv` blocks for ever; the docstring at `run.py:820` says it never does. `EveryCellAnswered`
  excepts it (`CutOff`).
* `_ensure_directory` creates `.artifacts` and nothing syncs the directory that names it
  (`artifact_store.py:292`; the comment at `1014-1016` says parent entries are persisted). With the
  default state path the state writes happen to sync the output directory; with `--state`
  elsewhere (`StateDir` another directory, `PowerFails = "ever"`) a power loss keeps a state file
  with complete cells and loses their evidence.
* The writer lock is taken by `begin`. A rerun whose cells are all complete begins none and
  publishes without it; the comment at `run.py:3303-3305` says the lock spans the complete
  publication window.
* A constructor killed between `mkdir` of the run root (or the link of `identity.json`) and the
  `fsync` after it leaves an entry that no later constructor syncs: if power fails then, the root
  may go, or stay without its identity. If another constructor has made `cells/` by then, the root
  is refused with `identity_missing` for ever and must be removed by hand; `NobodyShutOut` shows that
  only a power loss does this, and only to a root in which no cell was begun.
* Of two constructors that race, one may look before `identity.json` is linked, list after `cells/` is
  made, and be refused with `identity_missing` although all is well; started again it is accepted.
* The rollback of a half-published pair looks at the inode and then unlinks by name; between the
  two, a `--replace` of another invocation can install a report that the rollback then removes.
  `outputs_together` keeps to invocations that never replace.
* `_merge_review_rows` keeps human columns by cell, whichever run the rows describe, so a kill
  after the report of a `--replace` and before its `review.csv` carries notes about the old run
  into the new one's table.
* An invocation adopts a `report.json` whose publisher is still between its two links and may
  take it back (`DoneIsWhole` in `outputs_together`, with one identity and no trouble): the adopter repairs
  `report.csv`, the publisher's second link fails on it, the rollback removes `report.json`, and
  the adopter ends in success without a report.
* Two invocations of different identities that both find the directory empty each write the identity
  record, and one may publish under the record of the other (`SidecarLeads` in `outputs_together`);
  the docstring at `run.py:2447` says the record can never trail a published report.

*Models.*

* With two exporters at once (`Together = TRUE`, two `Exporters`) one's row is lost, although the
  docstring at `artifact_workflow.py:475` says the update retains "hashes for other exporters".
* An exporter killed between the publication of its file and the manifest leaves a manifest that
  the file contradicts, until the next export.
* `BLOCKER_CODES` of `check_waft_artifact.py` (24-38) lacks `onnx_runtime_validation_failure`, which
  `export_waft.py` raises (919, 947): the record of that failure is refused by the checker, which
  line 2 says it accepts.
* WAFT compares `--platform` with the file only after it has published it, and records a failure
  over the manifest it loaded at its start. A failure that RAFT records drops the thresholds of
  the validation, after which no export of RAFT passes with that manifest (`Spoilt`).
* `update_manifest` of SEA-RAFT (`export_searaft.py:350-415`) never assigns `validation["observed"]`. From a
  manifest without it (any before the first export) `write_manifest` refuses every clean export with
  "passed numerical validation is missing observed" (`artifact_workflow.py:298-300`), after the file has been
  published; the help of `--update-manifest` (438) promises to "record the ONNX hash and validation measurements
  after a successful export". `EventuallyRecorded` excepts these manifests (`Unobserved`); without
  the exception TLC shows the operator trying for ever, and no step leads out of `Unobserved`, so of SEA-RAFT
  the property says no more than that. From the manifest in the repository the export is recorded beside the
  `observed` of the earlier one (`sea-raft-m.json:208`).
* SEA-RAFT does not look for a dirty checkout or for NaN, NeuFlow not for NaN in PyTorch's output.
* `fetch_raft_checkpoint.py` checks and opens its destination by name in two steps (comment at 116).

*Release.*

* `package.py` (about line 1084) says the builder "always verifies sources before it emits the
  inventory"; `build_package` writes the inventory, all of whose flags say verified, before
  `verify_package` runs. The lane still withholds the checksum.
* After the candidate's evidence is collected nothing compares `admission.json` with the packaged
  manifest and artifact again (`run.py:2152-2164` leaves it out on purpose): what an exporter
  changes then is in `blind`.
* Nothing ties the extracted prefix to the archive that is packed, so a package installed after
  unpacking and before the inventory, or after the last content check, does not show.
* `_aggregate_candidate` names only the first surface's licence where two share one text
  (`licenses.py:1786-1790`; this is not modelled, and `EveryPackageCredited` is about the packages
  of the runtime), and `generate_runtime_input` drops a wheel's own NOTICE when its licence is supplied by hand.
* A second run in the same checkout never succeeds: the carried inputs are filled once.

*Plugin.*

* A thread suite that fails for the tracker and again for the black fallback leaves the rows as
  they were (`GiveUp`, logged only). A parameter that cannot be read falls back in each query on its own.

## Assumptions and limits

* `PowerFails = "rooted"` in `store_writers` and `run_resume`: power fails
  only once the run root, its identity and `cells/` are durable; before that see
  above. In `run_together` it may fail at any moment.
* A staged file lies directly in the directory of its attempt; the parents that `stage` makes and
  syncs for a nested name (`artifact_store.py:857-871`) are left out.
* In the instance of `Release` that TLC checks both builds have one content, so only what touches the
  prefix tells contents apart; the theorem `RuntimeReviewed` has any contents.
* A temporary file is complete and synced before it is linked or renamed (the code
  does this everywhere), so a name never shows part of a file. Temporary names left by a
  kill are ignored by every reader and left out.
* A failing system call has no effect. A call that fails after its effect looks
  like a failure of the step after it, which the models have; a failed `fsync` makes
  nothing durable.
* Path, mode, symlink and ownership checks and JSON shapes are left out: they
  refuse damaged trees, which no modelled step produces.
* One output directory. Humans edit `review.csv` between invocations only; `nvml.csv` is
  published exactly as `review.csv` is, without the human columns.
* The host load is what the operator confirms; `--assume-host-load-ready`, which trusts the
  machine to be ready, and two runners that share a device are not covered.
* NVML queries return or raise; memory is what the child holds, as the process
  list attributes it. In `CellExecution` plans are those `build_matrix` accepts, so the checks
  before the inference pass, and only the row of the last cell is kept.
* In `RunOutputs` measuring is one step and its state file is durable: that is
  what `run_resume` establishes for `BakeoffRun`.
* One candidate is admitted and one exporter runs at a time, as the workflows do it; the
  exporters' gates are one step, since they touch nothing but a file of their own.

## Not modelled

* **Numerics**: `metrics.py`, `synthetic.py`, `conditioning.py`, `padding.py`, `geometry.py`,
  flow composition, warps and ST maps, the reduction of timings in `evaluator.py` and
  `measurement.py`. Floating-point functions of one input, without state: over TLC's small
  integers there is nothing to say about them that their unit tests do not.
* **Parsers and renderers**: `exr.py`, `pfm.py`, the JSON Schema evaluator of `validator.py`,
  CSV and Markdown rendering, path and JSON shape checks everywhere. Pure functions of bytes.
* **Matrix planning and the run specification** (`matrix.py`, `run_spec.py`): a pure expansion, compared
  with golden plans by its unit tests. The models take the plan as a constant.
* **The ONNX Runtime bridge** and the estimators: thin bindings of third-party code, used by one
  thread at a time; what fails in them is failing work in `CudaMeasure`.
* **The rest of the plugin**: describe, parameters, host quirks and frame capture are
  declarations and diagnostics.
* **Programs run by hand, build and CI scripts**: glue. The order in which the p25-6 workflow runs its
  steps is in `Release`.

Four hazards have no property: two exporters on one manifest, the constructor that is refused in a race, the
report that is adopted and taken back, and the child cut off while sending. Each is something the code does; the
notes in `PROJECT.json` and the section above say what.

## The plan

Written and checked: all modules above. Proved: every invariant and action property of the passing runs, and both
refinements, under the [assumptions](#assumptions) named. What is left is
two of a kind at once, two exporters or two invocations in one directory: to find which parts of
`EInv` and of the invariant of `RunOutputs` survive without that hypothesis, as `ReportStays` does.
