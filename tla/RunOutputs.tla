------------------------------ MODULE RunOutputs ------------------------------
(***************************************************************************)
(* What invocations of the bake-off driver publish in one output directory *)
(* (tools/bakeoff/run.py and reporting.py): the identity record            *)
(* .run-identity.json, the report.json/report.csv pair, summary.txt and    *)
(* review.csv, which a human fills in afterwards.  Measuring is abstracted *)
(* to one step of RunLedger, which BakeoffRun implements.                  *)
(*                                                                         *)
(* A document is modelled by the run it describes, [id, result], and not   *)
(* by its text; nvml.csv is published as review.csv is, without the human  *)
(* columns, and is left out.                                               *)
(***************************************************************************)
EXTENDS Disk, FiniteSets

CONSTANTS
  Invocations,  \* processes; each may be started again with other arguments
  Identities,   \* run identities (profile, matrix, artifacts, ...)
  States,       \* --state paths
  Results,      \* results the measurements of a state file may give
  Replaces,     \* values the --replace flag takes
  PowerFails,   \* TRUE: the machine may lose power
  MaxTrouble    \* bound on failed system calls, kills and power losses

ASSUME OutputsAssumption ==
  Replaces \subseteq BOOLEAN /\ PowerFails \in BOOLEAN /\ MaxTrouble \in Nat

VARIABLES
  disk,     \* the output directory, see Disk
  ledger,   \* the state files: what RunLedger keeps of each
  inv,      \* each invocation: arguments, where it is, steps left
  trouble   \* failures, kills and power losses so far

vars == <<disk, ledger, inv, trouble>>

OutDir == << >>
Sidecar == <<"run-identity">>
ReportJson == <<"report.json">>
ReportCsv == <<"report.csv">>
Summary == <<"summary.txt">>
Review == <<"review.csv">>

None == [kind |-> "none"]
Unmeasured == [kind |-> "unmeasured"]

IdentityRecord(id) == [kind |-> "identity", id |-> id]

(* A document of a run; `by' is the inode: who staged the file. *)
Document(run, i) == [kind |-> "document", run |-> run, by |-> i]

(* review.csv: the run its driver-owned columns describe, the runs the human  *)
(* notes were written about, and whether its bytes are the driver's own.      *)
ReviewOf(run, notes, own) == [kind |-> "review", run |-> run, notes |-> notes, own |-> own]

Seen(path) == IF Exists(disk.seen, path) THEN disk.seen[path] ELSE None

Off == [pc |-> "off", id |-> "none", state |-> "none", replace |-> FALSE,
        look |-> None, todo |-> << >>]

(* The run an invocation would report: what it assembles from its state. *)
RunOf(i) == [id |-> inv[i].id, result |-> ledger[inv[i].state].result]

-----------------------------------------------------------------------------
(* The steps of a publication. *)
Absent(path) == [op |-> "absent", path |-> path]
Link(path, content) == [op |-> "link", path |-> path, content |-> content]
Replace(path, content) == [op |-> "replace", path |-> path, content |-> content]
Canonical(path, content) == [op |-> "canonical", path |-> path, content |-> content]
Merge(run) == [op |-> "merge", path |-> Review, content |-> run]
OwnSidecar == [op |-> "sidecar", path |-> Sidecar]
Inspect == [op |-> "inspect", path |-> ReportJson]
Unlink == [op |-> "unlink", path |-> ReportJson]
Sync == [op |-> "sync", path |-> OutDir]

(* write_report_pair. *)
\* Bug variant: the report is installed by os.replace without --replace too.
PairScript_Clobbers(i) ==
  LET doc == Document(RunOf(i), i)
  IN  <<Absent(ReportJson), Absent(ReportCsv),
        Replace(ReportJson, doc), Link(ReportCsv, doc), Sync>>

PairScript(i) ==
  LET doc == Document(RunOf(i), i)
  IN  IF inv[i].replace
      THEN <<Replace(ReportJson, doc), Replace(ReportCsv, doc), Sync>>
      ELSE <<Absent(ReportJson), Absent(ReportCsv),
             Link(ReportJson, doc), Link(ReportCsv, doc), Sync>>

(* _write_csv_file of review.csv on a fresh publication. *)
ReviewScript(i) ==
  LET fresh == ReviewOf(RunOf(i), {}, TRUE)
  IN  <<IF inv[i].replace THEN Replace(Review, fresh) ELSE Link(Review, fresh), Sync>>

(* _publish_run_outputs: no report yet or --replace, and reuse. *)
FreshScript(i) ==
  PairScript(i) \o <<Canonical(Summary, Document(RunOf(i), i))>> \o ReviewScript(i) \o <<OwnSidecar>>

\* Bug variants: the pair is trusted because report.json is there; a damaged
\* review.csv is replaced by the canonical bytes.
ReuseScript_TrustsPair(i) ==
  <<Canonical(Summary, Document(RunOf(i), i)), Merge(RunOf(i)), OwnSidecar>>

ReuseScript_BlanksReview(i) ==
  <<Canonical(Summary, Document(RunOf(i), i)), Canonical(ReportCsv, Document(RunOf(i), i)),
    Canonical(Review, ReviewOf(RunOf(i), {}, TRUE)), OwnSidecar>>

ReuseScript(i) ==
  <<Canonical(Summary, Document(RunOf(i), i)), Canonical(ReportCsv, Document(RunOf(i), i)),
    Merge(RunOf(i)), OwnSidecar>>

SidecarScript(id) == <<Replace(Sidecar, IdentityRecord(id)), Sync>>

-----------------------------------------------------------------------------
Init ==
  /\ disk = Durable(<< >>)
  /\ ledger = [s \in States |-> None]
  /\ inv = [i \in Invocations |-> Off]
  /\ trouble = 0

At(i, pc) == inv[i].pc = pc /\ inv[i].todo = << >>

Goes(i, pc) == inv' = [inv EXCEPT ![i].pc = pc]

GoesWith(i, pc, script) == inv' = [inv EXCEPT ![i].pc = pc, ![i].todo = script]

Raises(i) == inv' = [inv EXCEPT ![i] = Off]

(* Preflight.  With --replace a state file of another identity is refused    *)
(* before anything is touched.                                               *)
Start(i) ==
  /\ At(i, "off")
  /\ \E id \in Identities, s \in States, replace \in Replaces :
       /\ replace /\ ledger[s] # None => ledger[s].id = id
       /\ inv' = [inv EXCEPT ![i] =
                    [Off EXCEPT !.pc = "sidecar", !.id = id, !.state = s, !.replace = replace]]
  /\ UNCHANGED <<disk, ledger, trouble>>

(* _establish_run_identity_up_front reads the record, then looks for a report. *)
ReadSidecar(i) ==
  /\ At(i, "sidecar")
  /\ inv' = [inv EXCEPT ![i].pc = "identity", ![i].look = Seen(Sidecar)]
  /\ UNCHANGED <<disk, ledger, trouble>>

HasCompleteState(i) ==
  LET state == ledger[inv[i].state]
  IN  state # None /\ state.id = inv[i].id /\ state.result # Unmeasured

\* Bug variant: the record is left to the end of the run.
Establish_Late(i) ==
  /\ At(i, "identity")
  /\ Goes(i, "state")
  /\ UNCHANGED <<disk, ledger, trouble>>

Establish(i) ==
  LET mine == inv[i].look = IdentityRecord(inv[i].id)
      report == Seen(ReportJson)
  IN  /\ At(i, "identity")
      /\ CASE inv[i].replace \/ (report = None /\ inv[i].look = None) ->
                GoesWith(i, "state", SidecarScript(inv[i].id))
           [] mine /\ ~inv[i].replace -> Goes(i, "state")
           [] ~inv[i].replace /\ inv[i].look = None /\ report # None ->
                IF HasCompleteState(i) /\ report.run.id = inv[i].id
                THEN Goes(i, "state") ELSE Raises(i)
           [] OTHER -> Raises(i)
      /\ UNCHANGED <<disk, ledger, trouble>>

(* load_state or create_state. *)
OpenState(i) ==
  LET s == inv[i].state
  IN  /\ At(i, "state")
      /\ IF ledger[s] # None /\ ledger[s].id # inv[i].id
         THEN Raises(i) /\ UNCHANGED ledger
         ELSE /\ Goes(i, "measure")
              /\ ledger' = IF ledger[s] = None
                           THEN [ledger EXCEPT ![s] = [id |-> inv[i].id, result |-> Unmeasured]]
                           ELSE ledger
      /\ UNCHANGED <<disk, trouble>>

(* coordinator.run and completed_records_with_refs. *)
Measure(i) ==
  LET s == inv[i].state
  IN  /\ At(i, "measure")
      /\ IF ledger[s].result = Unmeasured
         THEN \E v \in Results : ledger' = [ledger EXCEPT ![s].result = v]
         ELSE UNCHANGED ledger
      /\ Goes(i, "publish")
      /\ UNCHANGED <<disk, trouble>>

(* Reuse is authorized by the complete semantics of the report that is there. *)
Publish(i) ==
  LET report == Seen(ReportJson)
  IN  /\ At(i, "publish")
      /\ CASE report = None \/ inv[i].replace -> GoesWith(i, "done", FreshScript(i))
           [] OTHER -> IF report.run = RunOf(i)
                       THEN GoesWith(i, "done", ReuseScript(i)) ELSE Raises(i)
      /\ UNCHANGED <<disk, ledger, trouble>>

Finish(i) ==
  /\ At(i, "done")
  /\ Raises(i)
  /\ UNCHANGED <<disk, ledger, trouble>>

-----------------------------------------------------------------------------
(* The steps of a script, one by one.  An invocation whose pair is half      *)
(* published takes report.json back before it ends.                          *)
Doing(i, op) == inv[i].todo # << >> /\ Head(inv[i].todo).op = op
Due(i) == Head(inv[i].todo)

Continues(i, more) == inv' = [inv EXCEPT ![i].todo = more \o Tail(@)]

HalfPublished(i) == Doing(i, "link") /\ Due(i).path = ReportCsv

\* Bug variant: the rollback also takes back a report that --replace installed.
Abandons_TakesReplaced(i) ==
  IF inv[i].todo # << >> /\ Due(i).path = ReportCsv
  THEN GoesWith(i, "off", <<Inspect>>) ELSE Raises(i)

Abandons(i) == IF HalfPublished(i) THEN GoesWith(i, "off", <<Inspect>>) ELSE Raises(i)

CheckAbsent(i) ==
  /\ Doing(i, "absent")
  /\ IF Seen(Due(i).path) = None THEN Continues(i, << >>) ELSE Raises(i)
  /\ UNCHANGED <<disk, ledger, trouble>>

Install(i) ==
  /\ Doing(i, "replace")
  /\ disk' = Named(disk, Due(i).path, Due(i).content)
  /\ Continues(i, << >>)
  /\ UNCHANGED <<ledger, trouble>>

InstallNew(i) ==
  /\ Doing(i, "link")
  /\ IF Seen(Due(i).path) = None
     THEN disk' = Named(disk, Due(i).path, Due(i).content) /\ Continues(i, << >>)
     ELSE Abandons(i) /\ UNCHANGED disk
  /\ UNCHANGED <<ledger, trouble>>

SyncDir(i) ==
  /\ Doing(i, "sync")
  /\ disk' = Synced(disk, OutDir)
  /\ Continues(i, << >>)
  /\ UNCHANGED <<ledger, trouble>>

SameBytes(found, content) ==
  IF "run" \in DOMAIN found /\ found.kind = "document" THEN found.run = content.run ELSE found = content

(* _publish_canonical_bytes. *)
Repair(i) ==
  /\ Doing(i, "canonical")
  /\ Continues(i, IF SameBytes(Seen(Due(i).path), Due(i).content) THEN << >>
                  ELSE <<Replace(Due(i).path, Due(i).content), Sync>>)
  /\ UNCHANGED <<disk, ledger, trouble>>

(* _write_csv_file with verify_and_repair and _merge_review_rows: the human   *)
(* columns are kept by cell, whichever run the found rows describe; all runs   *)
(* share their cells here.                                                    *)
MergeReview(i) ==
  LET found == Seen(Review)
      notes == IF found = None THEN {} ELSE found.notes
      merged == ReviewOf(Due(i).content, notes, TRUE)
  IN  /\ Doing(i, "merge")
      /\ Continues(i, IF found = merged THEN << >> ELSE <<Replace(Review, merged), Sync>>)
      /\ UNCHANGED <<disk, ledger, trouble>>

(* The last check of _run_bakeoff. *)
OwnIdentity(i) ==
  /\ Doing(i, "sidecar")
  /\ Continues(i, IF Seen(Sidecar) = IdentityRecord(inv[i].id) THEN << >>
                  ELSE SidecarScript(inv[i].id))
  /\ UNCHANGED <<disk, ledger, trouble>>

(* _rollback_no_clobber_publication: lstat, then unlink. *)
InspectOwn(i) ==
  LET report == Seen(ReportJson)
  IN  /\ Doing(i, "inspect")
      /\ IF report # None /\ report.by = i THEN Continues(i, <<Unlink>>) ELSE Raises(i)
      /\ UNCHANGED <<disk, ledger, trouble>>

TakeBack(i) ==
  /\ Doing(i, "unlink")
  /\ disk' = Unnamed(disk, ReportJson)
  /\ Raises(i)
  /\ UNCHANGED <<ledger, trouble>>

Step(i) ==
  \/ CheckAbsent(i) \/ Install(i) \/ InstallNew(i) \/ SyncDir(i)
  \/ Repair(i) \/ MergeReview(i) \/ OwnIdentity(i) \/ InspectOwn(i) \/ TakeBack(i)

Work(i) ==
  \/ Start(i) \/ ReadSidecar(i) \/ Establish(i) \/ OpenState(i) \/ Measure(i)
  \/ Publish(i) \/ Finish(i) \/ Step(i)

(* A system call of the script fails with OSError. *)
StepFails(i) ==
  /\ inv[i].todo # << >>
  /\ trouble < MaxTrouble
  /\ trouble' = trouble + 1
  /\ Abandons(i)
  /\ UNCHANGED <<disk, ledger>>

Killed(i) ==
  /\ inv[i].pc # "off" \/ inv[i].todo # << >>
  /\ trouble < MaxTrouble
  /\ trouble' = trouble + 1
  /\ Raises(i)
  /\ UNCHANGED <<disk, ledger>>

PowerLoss ==
  /\ PowerFails
  /\ trouble < MaxTrouble
  /\ trouble' = trouble + 1
  /\ disk' \in AfterPowerLoss(disk)
  /\ inv' = [i \in Invocations |-> Off]
  /\ UNCHANGED ledger

(* After a run, with none in progress, a human writes review notes about the *)
(* run the rows describe; the editor saves in its own CSV dialect.           *)
Annotate ==
  LET found == Seen(Review)
  IN  /\ inv = [i \in Invocations |-> Off]
      /\ found # None
      /\ disk' = Synced(Named(disk, Review,
                   ReviewOf(found.run, found.notes \cup {found.run}, FALSE)), OutDir)
      /\ UNCHANGED <<ledger, inv, trouble>>

Next ==
  \/ PowerLoss
  \/ Annotate
  \/ \E i \in Invocations : Work(i) \/ StepFails(i) \/ Killed(i)

Spec == Init /\ [][Next]_vars

(* The operator runs the command again whenever it ended. *)
FairSpec == Spec /\ \A i \in Invocations : WF_vars(Work(i))

-----------------------------------------------------------------------------
OutputsTypeOK ==
  /\ \A s \in States : ledger[s] # None =>
       ledger[s].id \in Identities /\ ledger[s].result \in Results \cup {Unmeasured}
  /\ \A i \in Invocations :
       /\ inv[i].pc \in {"off", "sidecar", "identity", "state", "measure", "publish", "done"}
       /\ inv[i].pc # "off" => inv[i].id \in Identities /\ inv[i].state \in States
       /\ inv[i].pc = "off" /\ inv[i].todo # << >> => ~inv[i].replace
  /\ DOMAIN disk.seen \subseteq {Sidecar, ReportJson, ReportCsv, Summary, Review}
  /\ trouble \in 0..MaxTrouble

Describes(path, run) == Seen(path) # None /\ Seen(path).run = run

WholeOf(run) ==
  /\ Seen(Sidecar) = IdentityRecord(run.id)
  /\ \A path \in {ReportJson, ReportCsv, Summary, Review} : Describes(path, run)

(* "publish the five operator return files" (run.py:3043): an invocation that *)
(* returns leaves an identity record, a report pair, a summary and a review   *)
(* table that all describe the run of its state file.                         *)
DoneIsWhole == \A i \in Invocations : At(i, "done") => WholeOf(RunOf(i))

(* The identity record "can never trail a published report" (run.py:2447):    *)
(* whenever an invocation publishes a report the record names its identity.   *)
PublishesReport ==
  /\ trouble' = trouble
  /\ Seen(ReportJson)' # None
  /\ Seen(ReportJson)' # Seen(ReportJson)

SidecarLeads ==
  [][PublishesReport => Seen(Sidecar) = IdentityRecord(Seen(ReportJson)'.run.id)]_vars

(* What a human wrote about the published run stays in review.csv, through    *)
(* crashes, repairs and reruns, unless the operator asks for --replace        *)
(* (_merge_review_rows, run.py:2755).                                         *)
NoReplacement == \A i \in Invocations : ~inv[i].replace

KeepsNotes(run) ==
  Seen(Review) # None /\ run \in Seen(Review).notes =>
    Seen(Review)' # None /\ run \in Seen(Review)'.notes

NotesSurvive ==
  [][NoReplacement /\ Seen(ReportJson) # None => KeepsNotes(Seen(ReportJson).run)]_vars

(* Without --replace a published report is never overwritten, and the only    *)
(* one taken back is a half published one, by the invocation that linked it.  *)
ReportKept ==
  [][Seen(ReportJson) # None /\ Seen(ReportJson)' # Seen(ReportJson) =>
       \/ trouble' # trouble
       \/ ~NoReplacement
       \/ Doing(Seen(ReportJson).by, "unlink")]_vars

(* "rerun the IDENTICAL command to resume" (RUN-P25-6.txt:235): when the      *)
(* trouble is over, the outputs are completed and stay so.                    *)
Whole == Seen(ReportJson) # None /\ WholeOf(Seen(ReportJson).run)

EventuallyWhole == <>[]Whole
=============================================================================
