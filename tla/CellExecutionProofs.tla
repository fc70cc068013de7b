------------------------- MODULE CellExecutionProofs -------------------------
(***************************************************************************)
(* The measurement of a cell and its execution, for any polled stages, any *)
(* size of an outcome and of the pipe, any plan and any number of failures *)
(* and kills: what is answered is a whole measurement, what is committed   *)
(* is that measurement, and publication accepts it.                        *)
(***************************************************************************)
EXTENDS CellExecution, SequenceTheorems, WellFoundedInduction, TLAPS

Memory == 0..MaxMemory
StageNames == {"baseline", "cleanup", "process_exit"} \cup {Windows[n] : n \in DOMAIN Windows}
Samples == Seq([stage : StageNames, used : Memory])
Outcomes == {NoOutcome, Error} \cup {Ok(payload, samples) : payload \in Payload, samples \in Samples}

ChildStates ==
  [pc : {"none", "baseline", "enter", "work", "stopping", "joining", "put", "gone"},
   window : 1..Len(Windows) + 1, raised : BOOLEAN, samples : Samples,
   payload : SUBSET Payload, outcome : Outcomes, sent : 0..Chunks]

PollerStates ==
  [pc : {"none", "waiting", "recording", "stopped"}, reading : Memory, max : Memory, failed : BOOLEAN]

ParentStates ==
  [pc : {"start", "get", "receive", "alive?", "drain", "join", "exit", "done"},
   got : Nat, answer : Outcomes]

CudaTyped ==
  /\ memory \in Memory /\ child \in ChildStates /\ poller \in PollerStates
  /\ stop \in BOOLEAN /\ pipe \in 0..Capacity /\ parent \in ParentStates
  /\ taken \in SUBSET Memory /\ blind \in BOOLEAN /\ trouble \in 0..MaxTrouble

Polling == child.pc \in {"work", "stopping", "joining"}
Sending == child.pc \in {"put", "gone"}

InOrder(samples) ==
  /\ Len(samples) <= Len(Stages)
  /\ \A n \in 1..Len(samples) : samples[n].stage = Stages[n]

(* The child has the samples of the windows it has been through, and what it *)
(* sends as ok has all of them.                                              *)
ChildSound ==
  /\ InOrder(child.samples)
  /\ child.pc \in {"none", "baseline"} => child = [NoChild EXCEPT !.pc = child.pc]
  /\ child.pc = "enter" => Len(child.samples) = child.window
  /\ Polling => child.window <= Len(Windows) /\ Len(child.samples) = child.window
  /\ child.payload # {} => child.window = Len(Windows) + 1
  /\ ~Sending => child.outcome = NoOutcome /\ child.sent = 0
  /\ child.pc = "put" => child.outcome # NoOutcome
  /\ child.sent > 0 => child.outcome # NoOutcome
  /\ child.sent <= Size(child.outcome)
  /\ child.outcome.kind = "ok" =>
       ~blind /\ InOrder(child.outcome.samples) /\ Len(child.outcome.samples) = Len(Windows) + 2
  /\ ~Alive => memory = 0

(* The poller lives as long as its window; but for a reading in flight, its  *)
(* maximum is that of all that were taken; and it knows of a failed reading. *)
PollerSound ==
  /\ poller.pc \in {"waiting", "recording"} => Polling
  /\ child.pc \in {"none", "baseline", "gone"} => poller.pc = "none"
  /\ blind => Sending \/ (Polling /\ poller.failed)
  /\ Polling =>
       /\ poller.pc # "none" /\ poller.max \in taken
       /\ poller.pc = "recording" => poller.reading \in taken
       /\ \A used \in taken :
            used <= poller.max \/ (poller.pc = "recording" /\ used <= poller.reading)

(* The parent holds nothing, a part, or the whole of what the child sent. *)
ParentSound ==
  /\ parent.got + pipe = child.sent
  /\ parent.pc = "start" => child.pc = "none"
  /\ parent.pc \in {"start", "get", "alive?", "drain"} => parent.got = 0
  /\ parent.pc \in {"start", "get", "alive?", "drain", "receive"} => parent.answer = NoOutcome
  /\ parent.pc = "receive" => parent.got < Size(child.outcome)
  /\ parent.pc \in {"drain", "exit", "done"} => ~Alive
  /\ parent.pc \in {"join", "exit"} =>
       \/ parent.answer = NoOutcome /\ child.sent < Size(child.outcome) /\ ~Alive
       \/ parent.answer = child.outcome /\ child.outcome # NoOutcome
  /\ parent.pc = "done" /\ parent.answer.kind = "ok" =>
       /\ ~blind
       /\ InOrder(parent.answer.samples) /\ Len(parent.answer.samples) = Len(Stages)
       /\ Last(parent.answer.samples).used = 0

CudaInv == CudaTyped /\ ChildSound /\ PollerSound /\ ParentSound

(* Rows that are evidence. *)
Complete(rows) == rows \in Samples /\ rows # NoRows /\ HasFinalStages(rows)

MeasuredSound(m) ==
  /\ \E payload \in Payload, rows \in Samples : m = Measurement(payload, rows)
  /\ IF UsesNvml THEN heard = {m.rows} /\ Complete(m.rows) ELSE heard = Nothing /\ m.rows = NoRows

BundleSound(b) ==
  /\ b.status \in {"pass", "fail"}
  /\ \/ UsesNvml /\ heard = {b.rows} /\ Complete(b.rows)
     \/ heard = Nothing /\ b.rows = NoRows /\ (UsesNvml => b.status = "fail")
  /\ ReportAccepts(b) \/ (b.status = "pass" /\ NeverScored(cell.shot))

ExecInv ==
  /\ setup \in [final : BOOLEAN, nvml : BOOLEAN] /\ (setup.final => setup.nvml)
  /\ cell \in Cells /\ done \in 0..MaxCells
  /\ step \in {"next", "measure", "infer", "score", "commit"}
  /\ step # "next" => row = Nothing /\ done < MaxCells
  /\ EvidenceIsOwn /\ RowsPublish
  /\ step = "measure" => UsesNvml /\ heard = Nothing
  /\ step = "infer" => ~UsesNvml /\ heard = Nothing
  /\ IF step = "score" THEN \E m : measured = {m} /\ MeasuredSound(m) ELSE measured = Nothing
  /\ IF step = "commit" THEN \E b : bundle = {b} /\ BundleSound(b) ELSE bundle = Nothing

IInv == CudaInv /\ ExecInv

-----------------------------------------------------------------------------
(* Outcomes and samples. *)

LEMMA OutcomeKinds ==
  ASSUME NEW o \in Outcomes
  PROVE  /\ Size(o) \in 1..Chunks
         /\ o.kind = "ok" => /\ o # NoOutcome /\ o.payload \in Payload /\ o.samples \in Samples
                             /\ o = Ok(o.payload, o.samples)
         /\ o.kind # "ok" => o \in {NoOutcome, Error}
BY MeasureAssumption DEF Outcomes, Size, Ok, NoOutcome, Error

LEMMA Constructed ==
  /\ NoOutcome \in Outcomes /\ Error \in Outcomes /\ NoOutcome # Error
  /\ NoOutcome.kind # "ok" /\ Error.kind # "ok" /\ Size(NoOutcome) = 1 /\ Size(Error) = 1
  /\ \A payload \in Payload, samples \in Samples :
       /\ Ok(payload, samples) \in Outcomes /\ Ok(payload, samples).kind = "ok"
       /\ Ok(payload, samples).payload = payload /\ Ok(payload, samples).samples = samples
       /\ Size(Ok(payload, samples)) = Chunks /\ Ok(payload, samples) # NoOutcome
<1>1. /\ NoOutcome \in Outcomes /\ Error \in Outcomes
      /\ \A payload \in Payload, samples \in Samples : Ok(payload, samples) \in Outcomes
  BY DEF Outcomes
<1>2. /\ NoOutcome.kind = "none" /\ Error.kind = "error"
      /\ \A payload, samples : /\ Ok(payload, samples).kind = "ok"
                              /\ Ok(payload, samples).payload = payload
                              /\ Ok(payload, samples).samples = samples
  BY DEF NoOutcome, Error, Ok
<1>3. NoOutcome # Error /\ \A payload, samples : Ok(payload, samples) # NoOutcome
  BY <1>2
<1> QED BY <1>1, <1>2, <1>3 DEF Size

LEMMA StageList ==
  /\ Stages \in Seq(StageNames) /\ Len(Stages) = Len(Windows) + 3 /\ Len(Windows) \in Nat
  /\ Stages[1] = "baseline"
  /\ \A n \in 1..Len(Windows) : Stages[n + 1] = Windows[n] /\ Windows[n] \in StageNames
  /\ Stages[Len(Windows) + 2] = "cleanup" /\ Stages[Len(Windows) + 3] = "process_exit"
<1>1. Windows \in Seq(StageNames) /\ <<"baseline">> \in Seq(StageNames)
      /\ <<"cleanup", "process_exit">> \in Seq(StageNames)
  <2>1. Len(Windows) \in Nat /\ Windows \in [1..Len(Windows) -> StageNames]
    BY MeasureAssumption DEF StageNames
  <2>2. Windows \in Seq(StageNames)
    BY <2>1
  <2> QED BY <2>2 DEF StageNames
<1>2. Len(Windows) \in Nat /\ \A n \in 1..Len(Windows) : Windows[n] \in StageNames
  BY <1>1
<1> DEFINE front == <<"baseline">> \o Windows
<1>3. /\ front \in Seq(StageNames) /\ Len(front) = Len(Windows) + 1
      /\ front[1] = "baseline"
      /\ \A n \in 1..Len(Windows) : front[n + 1] = Windows[n]
  BY <1>1, <1>2
<1> HIDE DEF front
<1>4. Stages = front \o <<"cleanup", "process_exit">>
  BY <1>1 DEF Stages, front
<1>5. Stages \in Seq(StageNames) /\ Len(Stages) = Len(Windows) + 3
  BY <1>1, <1>2, <1>3, <1>4
<1>6. \A n \in 1..Len(front) : Stages[n] = front[n]
  BY <1>1, <1>3, <1>4
<1>7. Stages[Len(Windows) + 2] = "cleanup" /\ Stages[Len(Windows) + 3] = "process_exit"
  BY <1>1, <1>2, <1>3, <1>4
<1> QED BY <1>2, <1>3, <1>5, <1>6, <1>7

(* The next sample in order. *)
LEMMA NextSample ==
  ASSUME NEW samples \in Samples, InOrder(samples), Len(samples) < Len(Stages),
         NEW used \in Memory
  PROVE  LET longer == Append(samples, Sample(Stages[Len(samples) + 1], used))
         IN  /\ longer \in Samples /\ InOrder(longer) /\ Len(longer) = Len(samples) + 1
             /\ Last(longer).used = used
<1> DEFINE sample == Sample(Stages[Len(samples) + 1], used)
           longer == Append(samples, sample)
<1>1. Len(samples) \in Nat /\ Len(samples) + 1 \in 1..Len(Stages)
  BY StageList DEF Samples
<1>2. sample \in [stage : StageNames, used : Memory] /\ sample.used = used
      /\ sample.stage = Stages[Len(samples) + 1]
  BY <1>1, StageList DEF Sample
<1> HIDE DEF sample
<1>3. /\ longer \in Samples /\ Len(longer) = Len(samples) + 1
      /\ \A n \in 1..Len(samples) : longer[n] = samples[n]
      /\ longer[Len(samples) + 1] = sample
  BY <1>2 DEF Samples
<1> HIDE DEF longer
<1>4. InOrder(longer)
  BY <1>1, <1>2, <1>3 DEF InOrder
<1>5. Last(longer).used = used
  BY <1>2, <1>3 DEF Last
<1> QED BY <1>3, <1>4, <1>5 DEF longer, sample

-----------------------------------------------------------------------------
(* What a step leaves alone stays sound. *)

LEMMA SameChild ==
  ASSUME ChildSound, UNCHANGED <<memory, child, blind>>
  PROVE  ChildSound'
BY DEF ChildSound, Polling, Sending, Alive, InOrder

LEMMA SamePoller ==
  ASSUME PollerSound, UNCHANGED <<poller, child, taken, blind>>
  PROVE  PollerSound'
BY DEF PollerSound, Polling, Sending

LEMMA SameParent ==
  ASSUME ParentSound, UNCHANGED <<parent, pipe, child, blind>>
  PROVE  ParentSound'
BY DEF ParentSound, Alive, InOrder

(* What every cell starts with. *)
Fresh ==
  /\ memory = 0 /\ child = NoChild /\ poller = NoPoller /\ stop = FALSE
  /\ pipe = 0 /\ parent = Idle /\ taken = {} /\ blind = FALSE
  /\ trouble \in 0..MaxTrouble

LEMMA FreshSound == Fresh => CudaInv
<1> SUFFICES ASSUME Fresh PROVE CudaInv
  OBVIOUS
<1>1. << >> \in Samples /\ Len(<< >>) = 0
  BY DEF Samples
<1>2. NoChild \in ChildStates
  BY <1>1, StageList, Constructed, MeasureAssumption DEF NoChild, ChildStates
<1>3. NoPoller \in PollerStates /\ Idle \in ParentStates /\ 0 \in Memory
  BY Constructed, MeasureAssumption DEF NoPoller, PollerStates, Idle, ParentStates, Memory
<1>4. CudaTyped
  <2>1. 0 \in 0..Capacity
    BY MeasureAssumption
  <2> QED BY <1>2, <1>3, <2>1 DEF Fresh, CudaTyped
<1>5. InOrder(<< >>)
  BY <1>1, StageList DEF InOrder
<1>6. ChildSound
  <2>1. /\ child.pc = "none" /\ child.samples = << >> /\ child.payload = {}
        /\ child.outcome = NoOutcome /\ child.sent = 0 /\ child = NoChild /\ memory = 0
    BY DEF Fresh, NoChild
  <2>2. child = [NoChild EXCEPT !.pc = child.pc]
    BY <2>1 DEF NoChild
  <2> QED BY <1>5, <2>1, <2>2, Constructed DEF ChildSound, Polling, Sending, Alive
<1>7. PollerSound
  BY DEF Fresh, PollerSound, NoChild, NoPoller, Polling
<1>8. ParentSound
  BY Constructed DEF Fresh, ParentSound, NoChild, Idle, Alive
<1> QED BY <1>4, <1>6, <1>7, <1>8 DEF CudaInv

-----------------------------------------------------------------------------
(* The child's main thread. *)

LEMMA BaselineSound == CudaInv /\ Baseline => CudaInv'
<1> SUFFICES ASSUME CudaInv, Baseline PROVE CudaInv'
  OBVIOUS
<1> USE DEF CudaInv
<1> DEFINE samples == <<Sample("baseline", memory)>>
<1>1. /\ child.pc = "baseline"
      /\ child' = [child EXCEPT !.pc = "enter", !.samples = samples]
      /\ UNCHANGED <<memory, poller, stop, pipe, parent, taken, blind, trouble>>
  BY DEF Baseline
<1>2. /\ child \in ChildStates /\ memory \in Memory
      /\ child.window = 1 /\ child.samples = << >> /\ child.payload = {}
      /\ child.outcome = NoOutcome /\ child.sent = 0
  BY <1>1 DEF CudaTyped, ChildSound, NoChild
<1>3. samples \in Samples /\ InOrder(samples) /\ Len(samples) = 1
  <2>1. Sample("baseline", memory) \in [stage : StageNames, used : Memory]
    BY <1>2 DEF Sample, StageNames
  <2>2. samples \in Samples /\ Len(samples) = 1
    BY <2>1 DEF Samples
  <2>3. samples[1].stage = Stages[1]
    BY StageList DEF Sample
  <2> HIDE DEF samples
  <2> QED BY <2>2, <2>3, StageList DEF InOrder
<1> HIDE DEF samples
<1>4. /\ child' \in ChildStates /\ child'.pc = "enter" /\ child'.samples = samples
      /\ child'.window = child.window /\ child'.payload = child.payload
      /\ child'.outcome = child.outcome /\ child'.sent = child.sent
  BY <1>1, <1>2, <1>3 DEF ChildStates
<1>5. CudaTyped'
  BY <1>1, <1>4 DEF CudaTyped
<1>6. ChildSound'
  <2>1. child'.samples = samples /\ Len(child'.samples) = child'.window
    BY <1>2, <1>3, <1>4
  <2>2. child'.outcome = NoOutcome /\ child'.sent = 0 /\ child'.payload = {} /\ child'.pc = "enter"
    BY <1>2, <1>4
  <2>3. InOrder(child.samples)'
    BY <1>3, <2>1 DEF InOrder
  <2>4. (child.sent <= Size(child.outcome))' /\ child'.outcome.kind # "ok"
    BY <2>2, Constructed
  <2>5. child'.pc \notin {"none", "baseline"} /\ ~Polling' /\ ~Sending' /\ Alive' /\ child'.pc # "put"
    BY <2>2 DEF Polling, Sending, Alive
  <2> QED BY <2>1, <2>2, <2>3, <2>4, <2>5 DEF ChildSound
<1>7. PollerSound'
  BY <1>1, <1>4 DEF PollerSound, Polling, Sending
<1>8. ParentSound'
  BY <1>1, <1>2, <1>4 DEF ParentSound, Alive, InOrder
<1> QED BY <1>5, <1>6, <1>7, <1>8

LEMMA EnterSound == CudaInv /\ Enter => CudaInv'
<1> SUFFICES ASSUME CudaInv, Enter PROVE CudaInv'
  OBVIOUS
<1> USE DEF CudaInv
<1>1. /\ child.pc = "enter" /\ child.window <= Len(Windows)
      /\ child' = [child EXCEPT !.pc = "work"]
      /\ poller' = [NoPoller EXCEPT !.pc = "waiting", !.max = memory]
      /\ stop' = FALSE /\ taken' = {memory}
      /\ UNCHANGED <<memory, pipe, parent, blind, trouble>>
  BY DEF Enter
<1>2. child \in ChildStates /\ memory \in Memory /\ memory \in Int
  BY DEF CudaTyped, Memory
<1>3. /\ child' \in ChildStates /\ child'.pc = "work"
      /\ child'.samples = child.samples /\ child'.window = child.window
      /\ child'.payload = child.payload /\ child'.outcome = child.outcome
      /\ child'.sent = child.sent
  BY <1>1, <1>2 DEF ChildStates
<1>4. /\ poller' \in PollerStates /\ poller'.pc = "waiting" /\ poller'.max = memory
  <2>1. poller' = [pc |-> "waiting", reading |-> 0, max |-> memory, failed |-> FALSE]
    BY <1>1 DEF NoPoller
  <2>2. 0 \in Memory
    BY MeasureAssumption DEF Memory
  <2> QED BY <1>2, <2>1, <2>2 DEF PollerStates
<1>5. CudaTyped'
  BY <1>1, <1>2, <1>3, <1>4 DEF CudaTyped
<1>6. ChildSound'
  BY <1>1, <1>2, <1>3, StageList DEF ChildSound, Polling, Sending, Alive, InOrder
<1>7. PollerSound'
  BY <1>1, <1>2, <1>3, <1>4 DEF PollerSound, Polling, Sending
<1>8. ParentSound'
  BY <1>1, <1>3 DEF ParentSound, Alive, InOrder
<1> QED BY <1>5, <1>6, <1>7, <1>8

(* The main thread goes on inside a window. *)
LEMMA WindowSound ==
  ASSUME CudaInv, child.pc = "work",
         NEW pc \in {"work", "stopping"}, NEW raised \in BOOLEAN,
         child' = [child EXCEPT !.pc = pc, !.raised = raised],
         memory' \in Memory, trouble' \in 0..MaxTrouble,
         UNCHANGED <<poller, stop, pipe, parent, taken, blind>>
  PROVE  CudaInv'
<1> USE DEF CudaInv
<1>1. child \in ChildStates
  BY DEF CudaTyped
<1>2. /\ child' \in ChildStates /\ child'.pc = pc
      /\ child'.samples = child.samples /\ child'.window = child.window
      /\ child'.payload = child.payload /\ child'.outcome = child.outcome
      /\ child'.sent = child.sent
  BY <1>1 DEF ChildStates
<1>3. CudaTyped'
  BY <1>2 DEF CudaTyped
<1>4. ChildSound'
  BY <1>2 DEF ChildSound, Polling, Sending, Alive, InOrder
<1>5. PollerSound'
  BY <1>2 DEF PollerSound, Polling, Sending
<1>6. ParentSound'
  BY <1>2 DEF ParentSound, Alive, InOrder
<1> QED BY <1>3, <1>4, <1>5, <1>6

LEMMA WorkSound == CudaInv /\ (UseMemory \/ WorkReturns \/ WorkRaises) => CudaInv'
<1> SUFFICES ASSUME CudaInv, UseMemory \/ WorkReturns \/ WorkRaises PROVE CudaInv'
  OBVIOUS
<1>1. child \in ChildStates /\ memory \in Memory /\ trouble \in 0..MaxTrouble
  BY DEF CudaInv, CudaTyped
<1>2. CASE UseMemory
  <2>1. child' = [child EXCEPT !.pc = "work", !.raised = child.raised] /\ child.raised \in BOOLEAN
    BY <1>1, <1>2 DEF UseMemory, ChildStates
  <2> QED BY <1>1, <1>2, <2>1, WindowSound DEF UseMemory, Memory
<1>3. CASE WorkReturns
  BY <1>1, <1>3, WindowSound DEF WorkReturns
<1>4. CASE WorkRaises
  <2>1. trouble' \in 0..MaxTrouble
    BY <1>1, <1>4, MeasureAssumption DEF WorkRaises, Troubled
  <2> QED BY <1>1, <1>4, <2>1, WindowSound DEF WorkRaises
<1> QED BY <1>2, <1>3, <1>4

LEMMA SignalStopSound == CudaInv /\ SignalStop => CudaInv'
<1> SUFFICES ASSUME CudaInv, SignalStop PROVE CudaInv'
  OBVIOUS
<1> USE DEF CudaInv
<1>1. /\ child.pc = "stopping" /\ stop' = TRUE
      /\ child' = [child EXCEPT !.pc = "joining"]
      /\ UNCHANGED <<memory, poller, pipe, parent, taken, blind, trouble>>
  BY DEF SignalStop
<1>2. /\ child' \in ChildStates /\ child'.pc = "joining"
      /\ child'.samples = child.samples /\ child'.window = child.window
      /\ child'.payload = child.payload /\ child'.outcome = child.outcome
      /\ child'.sent = child.sent
  BY <1>1 DEF ChildStates, CudaTyped
<1>3. CudaTyped'
  BY <1>1, <1>2 DEF CudaTyped
<1>4. ChildSound'
  BY <1>1, <1>2 DEF ChildSound, Polling, Sending, Alive, InOrder
<1>5. PollerSound'
  BY <1>1, <1>2 DEF PollerSound, Polling, Sending
<1>6. ParentSound'
  BY <1>1, <1>2 DEF ParentSound, Alive, InOrder
<1> QED BY <1>3, <1>4, <1>5, <1>6

LEMMA CloseWindowSound == CudaInv /\ CloseWindow => CudaInv'
<1> SUFFICES ASSUME CudaInv, CloseWindow PROVE CudaInv'
  OBVIOUS
<1> USE DEF CudaInv
<1> DEFINE samples == Append(child.samples, Sample(Windows[child.window], poller.max))
<1>1. /\ child.pc = "joining" /\ poller.pc = "stopped"
      /\ child' = IF WindowFails
                  THEN [child EXCEPT !.pc = "put", !.samples = samples, !.outcome = Error]
                  ELSE [child EXCEPT !.pc = "enter", !.samples = samples, !.window = @ + 1]
      /\ UNCHANGED <<memory, poller, stop, pipe, parent, taken, blind, trouble>>
  BY DEF CloseWindow, Joined
<1>2. /\ child \in ChildStates /\ child.window \in 1..Len(Windows)
      /\ Len(child.samples) = child.window /\ child.samples \in Samples
      /\ InOrder(child.samples) /\ poller.max \in Memory
      /\ child.payload = {} /\ child.sent = 0 /\ child.outcome = NoOutcome
  BY <1>1, StageList DEF CudaTyped, ChildStates, PollerStates, ChildSound, Polling, Sending
<1>3. samples \in Samples /\ InOrder(samples) /\ Len(samples) = child.window + 1
  <2>1. Windows[child.window] = Stages[Len(child.samples) + 1] /\ Len(child.samples) < Len(Stages)
    BY <1>2, StageList
  <2> QED BY <1>2, <2>1, NextSample
<1> HIDE DEF samples
<1>4. CASE WindowFails
  <2>1. /\ child' \in ChildStates /\ child'.pc = "put" /\ child'.samples = samples
        /\ child'.window = child.window /\ child'.payload = child.payload
        /\ child'.outcome = Error /\ child'.sent = child.sent
    BY <1>1, <1>2, <1>3, <1>4, Constructed DEF ChildStates
  <2>2. CudaTyped'
    BY <1>1, <2>1 DEF CudaTyped
  <2>3. ChildSound'
    BY <1>1, <1>2, <1>3, <2>1, Constructed DEF ChildSound, Polling, Sending, Alive, InOrder
  <2>4. PollerSound'
    BY <1>1, <2>1 DEF PollerSound, Polling, Sending
  <2>5. ParentSound'
    BY <1>1, <1>2, <2>1, Constructed DEF ParentSound, Alive, InOrder
  <2> QED BY <2>2, <2>3, <2>4, <2>5
<1>5. CASE ~WindowFails
  <2>1. /\ child' \in ChildStates /\ child'.pc = "enter" /\ child'.samples = samples
        /\ child'.window = child.window + 1 /\ child'.payload = child.payload
        /\ child'.outcome = child.outcome /\ child'.sent = child.sent
    <3>1. child.window + 1 \in 1..Len(Windows) + 1
      BY <1>2, StageList
    <3>2. child' = [child EXCEPT !.pc = "enter", !.samples = samples, !.window = child.window + 1]
      BY <1>1, <1>5
    <3> QED BY <1>2, <1>3, <3>1, <3>2 DEF ChildStates
  <2>2. CudaTyped'
    BY <1>1, <2>1 DEF CudaTyped
  <2>3. ChildSound'
    BY <1>1, <1>2, <1>3, <2>1, Constructed DEF ChildSound, Polling, Sending, Alive, InOrder
  <2>4. PollerSound'
    BY <1>1, <1>5, <2>1 DEF PollerSound, Polling, Sending, WindowFails
  <2>5. ParentSound'
    BY <1>1, <1>2, <2>1 DEF ParentSound, Alive, InOrder
  <2> QED BY <2>2, <2>3, <2>4, <2>5
<1> QED BY <1>4, <1>5

LEMMA InferOthersSound == CudaInv /\ InferOthers => CudaInv'
<1> SUFFICES ASSUME CudaInv, InferOthers PROVE CudaInv'
  OBVIOUS
<1> USE DEF CudaInv
<1>1. PICK payload \in Payload : child' = [child EXCEPT !.payload = {payload}]
  BY DEF InferOthers
<1>2. /\ child.pc = "enter" /\ child.window > Len(Windows) /\ memory' \in Memory
      /\ UNCHANGED <<poller, stop, pipe, parent, taken, blind, trouble>>
  BY DEF InferOthers, Memory
<1>3. /\ child' \in ChildStates /\ child'.pc = "enter"
      /\ child'.samples = child.samples /\ child'.window = child.window
      /\ child'.payload = {payload} /\ child'.outcome = child.outcome
      /\ child'.sent = child.sent
  BY <1>1, <1>2 DEF ChildStates, CudaTyped
<1>4. child.window = Len(Windows) + 1
  BY <1>2, StageList DEF CudaTyped, ChildStates
<1>5. CudaTyped'
  BY <1>2, <1>3 DEF CudaTyped
<1>6. ChildSound'
  BY <1>2, <1>3, <1>4 DEF ChildSound, Polling, Sending, Alive, InOrder
<1>7. PollerSound'
  BY <1>2, <1>3 DEF PollerSound, Polling, Sending
<1>8. ParentSound'
  BY <1>2, <1>3 DEF ParentSound, Alive, InOrder
<1> QED BY <1>5, <1>6, <1>7, <1>8

(* The child has something to report. *)
LEMMA ReportSound ==
  ASSUME CudaInv, child.pc \in {"baseline", "enter"},
         child' \in ChildStates, child'.pc = "put", InOrder(child'.samples),
         child'.window = child.window, child'.payload = child.payload, child'.sent = child.sent,
         child'.outcome # NoOutcome,
         child'.outcome.kind = "ok" => InOrder(child'.outcome.samples)
                                       /\ Len(child'.outcome.samples) = Len(Windows) + 2,
         trouble' \in 0..MaxTrouble,
         UNCHANGED <<memory, poller, stop, pipe, parent, taken, blind>>
  PROVE  CudaInv'
<1> USE DEF CudaInv
<1>1. child'.outcome \in Outcomes
  BY DEF ChildStates
<1>2. child.sent = 0 /\ child.outcome = NoOutcome /\ ~blind
  BY DEF ChildSound, Sending, PollerSound, Polling
<1>3. CudaTyped'
  BY DEF CudaTyped
<1>4. ChildSound'
  <2>1. child'.sent <= Size(child'.outcome)
    BY <1>1, <1>2, OutcomeKinds
  <2> QED BY <1>2, <2>1 DEF ChildSound, Polling, Sending, Alive, InOrder
<1>5. PollerSound'
  BY <1>2 DEF PollerSound, Polling, Sending
<1>6. ParentSound'
  <2>1. parent.pc # "receive" \/ parent.got < Size(child'.outcome)
    BY <1>1, <1>2, OutcomeKinds DEF ParentSound, CudaTyped, ParentStates
  <2> QED BY <1>2, <2>1 DEF ParentSound, Alive, InOrder
<1> QED BY <1>3, <1>4, <1>5, <1>6

LEMMA CleanupSound == CudaInv /\ Cleanup => CudaInv'
<1> SUFFICES ASSUME CudaInv, Cleanup PROVE CudaInv'
  OBVIOUS
<1> DEFINE samples == Append(child.samples, Sample("cleanup", memory))
<1>1. PICK payload \in child.payload :
        child' = [child EXCEPT !.pc = "put", !.samples = samples, !.outcome = Ok(payload, samples)]
  BY DEF Cleanup
<1>2. child.pc = "enter" /\ UNCHANGED <<memory, poller, stop, pipe, parent, taken, blind, trouble>>
  BY DEF Cleanup
<1>3. /\ child \in ChildStates /\ memory \in Memory /\ trouble \in 0..MaxTrouble
      /\ child.window = Len(Windows) + 1 /\ Len(child.samples) = child.window
      /\ child.samples \in Samples /\ InOrder(child.samples) /\ payload \in Payload
  BY <1>1, <1>2 DEF CudaInv, CudaTyped, ChildStates, ChildSound
<1>4. samples \in Samples /\ InOrder(samples) /\ Len(samples) = Len(Windows) + 2
  <2>1. "cleanup" = Stages[Len(child.samples) + 1] /\ Len(child.samples) < Len(Stages)
    BY <1>3, StageList
  <2> QED BY <1>3, <2>1, NextSample, StageList
<1> HIDE DEF samples
<1>5. /\ Ok(payload, samples) \in Outcomes /\ Ok(payload, samples) # NoOutcome
      /\ Ok(payload, samples).samples = samples
  BY <1>3, <1>4, Constructed
<1>6. /\ child' \in ChildStates /\ child'.pc = "put" /\ child'.samples = samples
      /\ child'.window = child.window /\ child'.payload = child.payload /\ child'.sent = child.sent
      /\ child'.outcome = Ok(payload, samples)
  BY <1>1, <1>3, <1>4, <1>5 DEF ChildStates
<1> QED BY <1>2, <1>3, <1>4, <1>5, <1>6, ReportSound

LEMMA QueryRaisesSound == CudaInv /\ QueryRaises => CudaInv'
<1> SUFFICES ASSUME CudaInv, QueryRaises PROVE CudaInv'
  OBVIOUS
<1>1. /\ child.pc \in {"baseline", "enter"}
      /\ child' = [child EXCEPT !.pc = "put", !.outcome = Error]
      /\ trouble' \in 0..MaxTrouble
      /\ UNCHANGED <<memory, poller, stop, pipe, parent, taken, blind>>
  BY MeasureAssumption DEF QueryRaises, Reports, Troubled, CudaInv, CudaTyped
<1>2. child \in ChildStates /\ child.samples \in Samples /\ InOrder(child.samples)
  BY DEF CudaInv, CudaTyped, ChildStates, ChildSound
<1>3. /\ child' \in ChildStates /\ child'.pc = "put" /\ child'.samples = child.samples
      /\ child'.window = child.window /\ child'.payload = child.payload /\ child'.sent = child.sent
      /\ child'.outcome = Error
  BY <1>1, <1>2, Constructed DEF ChildStates
<1> QED BY <1>1, <1>2, <1>3, Constructed, ReportSound

LEMMA SendChunkSound == CudaInv /\ SendChunk => CudaInv'
<1> SUFFICES ASSUME CudaInv, SendChunk PROVE CudaInv'
  OBVIOUS
<1> USE DEF CudaInv
<1>1. /\ child.pc = "put" /\ child.sent < Size(child.outcome) /\ pipe < Capacity
      /\ child' = [child EXCEPT !.sent = @ + 1] /\ pipe' = pipe + 1
      /\ UNCHANGED <<memory, poller, stop, parent, taken, blind, trouble>>
  BY DEF SendChunk
<1>2. child \in ChildStates /\ child.sent \in Nat /\ Size(child.outcome) \in 1..Chunks
  BY OutcomeKinds DEF CudaTyped, ChildStates
<1>3. child.sent + 1 \in 0..Chunks /\ pipe + 1 \in 0..Capacity /\ pipe \in Nat
  BY <1>1, <1>2, MeasureAssumption DEF CudaTyped
<1>4. /\ child' \in ChildStates /\ child'.pc = "put" /\ child'.samples = child.samples
      /\ child'.window = child.window /\ child'.payload = child.payload
      /\ child'.outcome = child.outcome /\ child'.sent = child.sent + 1
  BY <1>1, <1>2, <1>3 DEF ChildStates
<1>5. CudaTyped'
  BY <1>1, <1>3, <1>4 DEF CudaTyped
<1>6. ChildSound'
  BY <1>1, <1>2, <1>4 DEF ChildSound, Polling, Sending, Alive, InOrder
<1>7. PollerSound'
  BY <1>1, <1>4 DEF PollerSound, Polling, Sending
<1>8. ParentSound'
  <2>1. parent.got \in Nat /\ parent'.got + pipe' = child'.sent
    BY <1>1, <1>2, <1>3, <1>4 DEF ParentSound, CudaTyped, ParentStates
  <2>2. Alive /\ Alive'
    BY <1>1, <1>4 DEF Alive
  <2> QED BY <1>1, <1>4, <2>1, <2>2 DEF ParentSound, InOrder
<1> QED BY <1>5, <1>6, <1>7, <1>8

(* The child is gone, at its end or at any other moment of its life. *)
LEMMA LeavesSound ==
  ASSUME CudaInv, Alive, Leaves, trouble' \in 0..MaxTrouble,
         UNCHANGED <<stop, pipe, parent, taken, blind>>
  PROVE  CudaInv'
<1> USE DEF CudaInv
<1>1. child' = [child EXCEPT !.pc = "gone"] /\ memory' = 0 /\ poller' = NoPoller
  BY DEF Leaves
<1>2. /\ child' \in ChildStates /\ child'.pc = "gone" /\ child'.samples = child.samples
      /\ child'.window = child.window /\ child'.payload = child.payload
      /\ child'.outcome = child.outcome /\ child'.sent = child.sent
  BY <1>1 DEF ChildStates, CudaTyped
<1>3. NoPoller \in PollerStates /\ 0 \in Memory /\ poller'.pc = "none"
  BY <1>1, MeasureAssumption DEF NoPoller, PollerStates, Memory
<1>4. CudaTyped'
  BY <1>1, <1>2, <1>3 DEF CudaTyped
<1>5. ChildSound'
  BY <1>1, <1>2 DEF ChildSound, Polling, Sending, Alive, InOrder
<1>6. PollerSound'
  BY <1>2, <1>3 DEF PollerSound, Polling, Sending
<1>7. ParentSound'
  BY <1>2 DEF ParentSound, Alive, InOrder
<1> QED BY <1>4, <1>5, <1>6, <1>7

LEMMA EndsSound == CudaInv /\ (Ends \/ Killed) => CudaInv'
<1> SUFFICES ASSUME CudaInv, Ends \/ Killed PROVE CudaInv'
  OBVIOUS
<1>1. trouble \in 0..MaxTrouble
  BY DEF CudaInv, CudaTyped
<1>2. CASE Ends
  <2>1. Alive /\ Leaves /\ trouble' \in 0..MaxTrouble /\ UNCHANGED <<stop, pipe, parent, taken, blind>>
    BY <1>1, <1>2 DEF Ends, Alive
  <2> QED BY <2>1, LeavesSound
<1>3. CASE Killed
  <2>1. Alive /\ Leaves /\ trouble' \in 0..MaxTrouble /\ UNCHANGED <<stop, pipe, parent, taken, blind>>
    BY <1>1, <1>3, MeasureAssumption DEF Killed, Troubled
  <2> QED BY <2>1, LeavesSound
<1> QED BY <1>2, <1>3

-----------------------------------------------------------------------------
(* The polling thread. *)

LEMMA PollerStepSound ==
  ASSUME CudaInv, poller.pc \in {"waiting", "recording"},
         poller' \in PollerStates, poller'.pc # "none",
         taken' \in SUBSET Memory, poller'.max \in taken',
         poller'.pc = "recording" => poller'.reading \in taken',
         \A used \in taken' :
           used <= poller'.max \/ (poller'.pc = "recording" /\ used <= poller'.reading),
         blind' \in BOOLEAN, blind' => poller'.failed, trouble' \in 0..MaxTrouble,
         UNCHANGED <<memory, child, stop, pipe, parent>>
  PROVE  CudaInv'
<1> USE DEF CudaInv
<1>1. Polling /\ child \in ChildStates
  BY DEF PollerSound, CudaTyped
<1>2. CudaTyped'
  BY DEF CudaTyped
<1>3. ChildSound'
  BY <1>1, Constructed DEF ChildSound, Polling, Sending, Alive, InOrder
<1>4. PollerSound'
  BY <1>1 DEF PollerSound, Polling, Sending
<1>5. ParentSound'
  BY <1>1 DEF ParentSound, Alive, InOrder, Polling
<1> QED BY <1>2, <1>3, <1>4, <1>5

(* The greater of two readings. *)
LEMMA MaxOfTwo ==
  ASSUME NEW a \in Nat, NEW b \in Nat
  PROVE  Max({a, b}) \in {a, b} /\ a <= Max({a, b}) /\ b <= Max({a, b})
<1>1. \E x \in {a, b} : \A y \in {a, b} : x >= y
  OBVIOUS
<1> QED BY <1>1 DEF Max

LEMMA PollerSoundSteps == CudaInv /\ (Polls \/ Records \/ PollFails \/ PollStops) => CudaInv'
<1> SUFFICES ASSUME CudaInv, Polls \/ Records \/ PollFails \/ PollStops PROVE CudaInv'
  OBVIOUS
<1>1. /\ poller \in PollerStates /\ memory \in Memory /\ taken \in SUBSET Memory
      /\ trouble \in 0..MaxTrouble /\ blind \in BOOLEAN
      /\ poller.reading \in Memory /\ poller.max \in Memory /\ poller.failed \in BOOLEAN
  BY DEF CudaInv, CudaTyped, PollerStates
<1>2. poller.pc \in {"waiting", "recording"}
  BY DEF Polls, Records, PollFails, PollStops
<1>3. /\ poller.max \in taken
      /\ poller.pc = "recording" => poller.reading \in taken
      /\ \A used \in taken : used <= poller.max \/ (poller.pc = "recording" /\ used <= poller.reading)
      /\ blind => poller.failed
  BY <1>2 DEF CudaInv, PollerSound, Polling, Sending
<1>4. CASE Polls
  <2>1. /\ poller' \in PollerStates /\ poller'.pc = "recording" /\ poller'.reading = memory
        /\ poller'.max = poller.max /\ poller'.failed = poller.failed
    BY <1>1, <1>4 DEF Polls, PollerStates
  <2>2. \A used \in taken \cup {memory} : used <= poller.max \/ used <= memory
    BY <1>1, <1>3, <1>4 DEF Polls, Memory
  <2>3. /\ taken' = taken \cup {memory} /\ UNCHANGED <<memory, child, stop, pipe, parent, blind, trouble>>
    BY <1>4 DEF Polls
  <2> QED BY <1>1, <1>2, <1>3, <2>1, <2>2, <2>3, PollerStepSound
<1>5. CASE Records
  <2> DEFINE max == Max({poller.max, poller.reading})
  <2>1. max \in {poller.max, poller.reading} /\ poller.max <= max /\ poller.reading <= max
    BY <1>1, MaxOfTwo DEF Memory
  <2>2. poller.pc = "recording" /\ poller' = [poller EXCEPT !.pc = "waiting", !.max = max]
        /\ UNCHANGED <<memory, child, stop, pipe, parent, taken, blind, trouble>>
    BY <1>5 DEF Records
  <2> HIDE DEF max
  <2>3. max \in Memory /\ max \in taken
    BY <1>1, <1>3, <2>1, <2>2
  <2>4. \A used \in taken : used <= max
    BY <1>1, <1>3, <2>1, <2>3 DEF Memory
  <2>5. /\ poller' \in PollerStates /\ poller'.pc = "waiting" /\ poller'.max = max
        /\ poller'.failed = poller.failed
    BY <1>1, <2>2, <2>3 DEF PollerStates
  <2> QED BY <1>1, <1>2, <1>3, <2>2, <2>3, <2>4, <2>5, PollerStepSound
<1>6. CASE PollFails
  <2>1. /\ poller.pc = "waiting" /\ poller' = [poller EXCEPT !.pc = "stopped", !.failed = TRUE]
        /\ blind' = TRUE /\ trouble < MaxTrouble /\ trouble' = trouble + 1
        /\ UNCHANGED <<memory, child, stop, pipe, parent, taken>>
    BY <1>6 DEF PollFails, Troubled
  <2>2. /\ poller' \in PollerStates /\ poller'.pc = "stopped" /\ poller'.max = poller.max
        /\ poller'.failed = TRUE
    BY <1>1, <2>1 DEF PollerStates
  <2>3. trouble' \in 0..MaxTrouble
    BY <1>1, <2>1, MeasureAssumption
  <2> QED BY <1>1, <1>3, <2>1, <2>2, <2>3, PollerStepSound
<1>7. CASE PollStops
  <2>1. /\ poller.pc = "waiting" /\ poller' = [poller EXCEPT !.pc = "stopped"]
        /\ UNCHANGED <<memory, child, stop, pipe, parent, taken, blind, trouble>>
    BY <1>7 DEF PollStops
  <2>2. /\ poller' \in PollerStates /\ poller'.pc = "stopped" /\ poller'.max = poller.max
        /\ poller'.failed = poller.failed
    BY <1>1, <2>1 DEF PollerStates
  <2> QED BY <1>1, <1>3, <2>1, <2>2, PollerStepSound
<1> QED BY <1>4, <1>5, <1>6, <1>7

-----------------------------------------------------------------------------
(* The parent. *)

(* A step of the parent that touches nothing of the child. *)
LEMMA ParentStepSound ==
  ASSUME CudaInv, parent' \in ParentStates, pipe' \in 0..Capacity, ParentSound',
         trouble' \in 0..MaxTrouble, UNCHANGED childSide
  PROVE  CudaInv'
BY SameChild, SamePoller DEF CudaInv, CudaTyped, childSide

LEMMA ForkSound == CudaInv /\ Fork => CudaInv'
<1> SUFFICES ASSUME CudaInv, Fork PROVE CudaInv'
  OBVIOUS
<1> USE DEF CudaInv
<1>1. /\ parent.pc = "start" /\ parent' = [parent EXCEPT !.pc = "get"]
      /\ child' = [child EXCEPT !.pc = "baseline"]
      /\ UNCHANGED <<memory, poller, stop, pipe, taken, blind, trouble>>
  BY DEF Fork
<1>2. child.pc = "none" /\ child = [NoChild EXCEPT !.pc = "none"]
  BY <1>1 DEF ParentSound, ChildSound
<1>3. child' = [NoChild EXCEPT !.pc = "baseline"] /\ child \in ChildStates
  BY <1>1, <1>2 DEF NoChild, CudaTyped
<1>4. /\ child' \in ChildStates /\ child'.pc = "baseline" /\ child'.samples = child.samples
      /\ child'.window = child.window /\ child'.payload = child.payload
      /\ child'.outcome = child.outcome /\ child'.sent = child.sent
  BY <1>1, <1>3 DEF ChildStates
<1>5. /\ parent \in ParentStates /\ parent' \in ParentStates /\ parent'.pc = "get"
      /\ parent'.got = parent.got /\ parent'.answer = parent.answer
  BY <1>1 DEF CudaTyped, ParentStates
<1>6. CudaTyped'
  BY <1>1, <1>4, <1>5 DEF CudaTyped
<1>7. ChildSound'
  <2>1. child' = [NoChild EXCEPT !.pc = child'.pc]
    BY <1>3, <1>4
  <2>2. memory' = 0 /\ child'.outcome = NoOutcome /\ child'.sent = 0 /\ child'.payload = {}
    BY <1>1, <1>2, <1>4 DEF ChildSound, Alive, NoChild
  <2> QED BY <1>1, <1>4, <2>1, <2>2, Constructed DEF ChildSound, Polling, Sending, InOrder
<1>8. PollerSound'
  BY <1>1, <1>2, <1>4 DEF PollerSound, Polling, Sending
<1>9. ParentSound'
  BY <1>1, <1>4, <1>5 DEF ParentSound, Alive, InOrder
<1> QED BY <1>6, <1>7, <1>8, <1>9

(* The parent only goes on. *)
LEMMA GoesSound ==
  ASSUME CudaInv, NEW pc, ParentGoes(pc),
         \/ parent.pc \in {"get", "alive?", "drain"} /\ pc \in {"get", "alive?", "receive"}
         \/ parent.pc = "alive?" /\ pc = "drain" /\ ~Alive
         \/ parent.pc = "drain" /\ pc = "join" /\ pipe = 0
         \/ parent.pc = "join" /\ pc = "exit" /\ ~Alive
  PROVE  CudaInv'
<1>1. parent' = [parent EXCEPT !.pc = pc] /\ UNCHANGED <<childSide, pipe, trouble>>
  BY DEF ParentGoes
<1>2. parent \in ParentStates /\ pipe \in 0..Capacity /\ trouble \in 0..MaxTrouble
  BY DEF CudaInv, CudaTyped
<1>3. /\ parent' \in ParentStates /\ parent'.pc = pc
      /\ parent'.got = parent.got /\ parent'.answer = parent.answer
  BY <1>1, <1>2 DEF ParentStates
<1>4. Size(child.outcome) \in 1..Chunks /\ ParentSound
  BY OutcomeKinds DEF CudaInv, CudaTyped, ChildStates
<1>5. ParentSound'
  BY <1>1, <1>3, <1>4 DEF ParentSound, Alive, InOrder, childSide
<1> QED BY <1>1, <1>2, <1>3, <1>5, ParentStepSound

LEMMA PollingParentSound ==
  CudaInv /\ (Arrived \/ Empty \/ CheckAlive \/ Drain \/ JoinChild) => CudaInv'
<1> SUFFICES ASSUME CudaInv, Arrived \/ Empty \/ CheckAlive \/ Drain \/ JoinChild PROVE CudaInv'
  OBVIOUS
<1>1. CASE Arrived
  BY <1>1, GoesSound DEF Arrived
<1>2. CASE Empty
  BY <1>2, GoesSound DEF Empty
<1>3. CASE CheckAlive
  BY <1>3, GoesSound DEF CheckAlive
<1>4. CASE Drain
  <2>1. pipe \in Nat
    BY DEF CudaInv, CudaTyped
  <2> QED BY <1>4, <2>1, GoesSound DEF Drain
<1>5. CASE JoinChild
  BY <1>5, GoesSound DEF JoinChild, Reaped
<1> QED BY <1>1, <1>2, <1>3, <1>4, <1>5

LEMMA ReceiveChunkSound == CudaInv /\ ReceiveChunk => CudaInv'
<1> SUFFICES ASSUME CudaInv, ReceiveChunk PROVE CudaInv'
  OBVIOUS
<1>1. /\ parent.pc = "receive" /\ pipe > 0 /\ pipe' = pipe - 1
      /\ parent' = IF parent.got + 1 = Size(child.outcome)
                   THEN [parent EXCEPT !.pc = "join", !.got = @ + 1, !.answer = child.outcome]
                   ELSE [parent EXCEPT !.got = @ + 1]
      /\ UNCHANGED <<childSide, trouble>>
  BY DEF ReceiveChunk
<1>2. /\ parent \in ParentStates /\ parent.got \in Nat /\ pipe \in 0..Capacity
      /\ trouble \in 0..MaxTrouble /\ child.outcome \in Outcomes /\ child.sent \in Nat
      /\ Size(child.outcome) \in 1..Chunks
  BY OutcomeKinds DEF CudaInv, CudaTyped, ParentStates, ChildStates
<1>3. /\ parent.got + pipe = child.sent /\ parent.got < Size(child.outcome)
      /\ parent.answer = NoOutcome
  BY <1>1 DEF CudaInv, ParentSound
<1>4. child.outcome # NoOutcome
  BY <1>1, <1>2, <1>3 DEF CudaInv, ChildSound
<1>5. pipe' \in 0..Capacity /\ pipe \in Nat
  BY <1>1, <1>2, MeasureAssumption
<1>6. CASE parent.got + 1 = Size(child.outcome)
  <2>1. /\ parent' \in ParentStates /\ parent'.pc = "join"
        /\ parent'.got = parent.got + 1 /\ parent'.answer = child.outcome
    <3>1. parent' = [parent EXCEPT !.pc = "join", !.got = @ + 1, !.answer = child.outcome]
      BY <1>1, <1>6
    <3>2. parent' = [pc |-> "join", got |-> parent.got + 1, answer |-> child.outcome]
      BY <1>2, <3>1 DEF ParentStates
    <3>3. parent.got + 1 \in Nat
      BY <1>2
    <3> QED BY <1>2, <3>2, <3>3 DEF ParentStates
  <2>2. ParentSound'
    BY <1>1, <1>2, <1>3, <1>4, <1>5, <2>1 DEF ParentSound, InOrder, childSide
  <2> QED BY <1>1, <1>2, <1>5, <2>1, <2>2, ParentStepSound
<1>7. CASE parent.got + 1 # Size(child.outcome)
  <2>1. /\ parent' \in ParentStates /\ parent'.pc = "receive"
        /\ parent'.got = parent.got + 1 /\ parent'.answer = parent.answer
    BY <1>1, <1>2, <1>7 DEF ParentStates
  <2>2. ParentSound'
    BY <1>1, <1>2, <1>3, <1>5, <1>7, <2>1 DEF ParentSound, InOrder, childSide
  <2> QED BY <1>1, <1>2, <1>5, <2>1, <2>2, ParentStepSound
<1> QED BY <1>6, <1>7

(* The parent has its answer, an error. *)
LEMMA ErrorSound == CudaInv /\ (ForkFails \/ ExitReadingFails) => CudaInv'
<1> SUFFICES ASSUME CudaInv, ForkFails \/ ExitReadingFails PROVE CudaInv'
  OBVIOUS
<1>1. /\ parent.pc \in {"start", "exit"} /\ trouble' \in 0..MaxTrouble
      /\ parent' = [parent EXCEPT !.pc = "done", !.answer = Error] /\ UNCHANGED <<childSide, pipe>>
  BY MeasureAssumption DEF ForkFails, ExitReadingFails, Troubled, CudaInv, CudaTyped
<1>2. ~Alive /\ parent \in ParentStates /\ pipe \in 0..Capacity
  BY <1>1 DEF CudaInv, CudaTyped, ParentSound, Alive
<1>3. /\ parent' \in ParentStates /\ parent'.pc = "done"
      /\ parent'.got = parent.got /\ parent'.answer = Error
  BY <1>1, <1>2, Constructed DEF ParentStates
<1>4. ParentSound'
  BY <1>1, <1>2, <1>3, Constructed DEF CudaInv, ParentSound, Alive, childSide
<1> QED BY <1>1, <1>2, <1>3, <1>4, ParentStepSound

LEMMA ExitReadingSound == CudaInv /\ ExitReading => CudaInv'
<1> SUFFICES ASSUME CudaInv, ExitReading PROVE CudaInv'
  OBVIOUS
<1> DEFINE answer == parent.answer
           samples == Append(answer.samples, Sample("process_exit", memory))
<1>1. /\ parent.pc = "exit"
      /\ parent' = [parent EXCEPT !.pc = "done", !.answer =
                      IF answer.kind = "ok" THEN Ok(answer.payload, samples) ELSE Error]
      /\ UNCHANGED <<childSide, pipe, trouble>>
  BY DEF ExitReading
<1>2. /\ parent \in ParentStates /\ answer \in Outcomes /\ memory \in Memory
      /\ pipe \in 0..Capacity /\ trouble \in 0..MaxTrouble
  BY DEF CudaInv, CudaTyped, ParentStates
<1>3. ~Alive /\ memory = 0
  BY <1>1 DEF CudaInv, ParentSound, ChildSound
<1>4. CASE answer.kind = "ok"
  <2>1. /\ answer.payload \in Payload /\ answer.samples \in Samples /\ answer # NoOutcome
    BY <1>2, <1>4, OutcomeKinds
  <2>2. answer = child.outcome
    BY <1>1, <2>1 DEF CudaInv, ParentSound
  <2>3. ~blind /\ InOrder(answer.samples) /\ Len(answer.samples) = Len(Windows) + 2
    BY <1>4, <2>2 DEF CudaInv, ChildSound
  <2>4. "process_exit" = Stages[Len(answer.samples) + 1] /\ Len(answer.samples) < Len(Stages)
    BY <2>3, StageList
  <2>5. /\ samples \in Samples /\ InOrder(samples) /\ Len(samples) = Len(Stages)
        /\ Last(samples).used = 0
    BY <1>2, <1>3, <2>1, <2>3, <2>4, NextSample, StageList
  <2> HIDE DEF samples
  <2>6. /\ parent' \in ParentStates /\ parent'.pc = "done" /\ parent'.got = parent.got
        /\ parent'.answer.samples = samples
    BY <1>1, <1>2, <1>4, <2>1, <2>5, Constructed DEF ParentStates
  <2>7. ParentSound'
    BY <1>1, <1>3, <2>3, <2>5, <2>6 DEF CudaInv, ParentSound, Alive, InOrder, childSide
  <2> QED BY <1>1, <1>2, <2>6, <2>7, ParentStepSound
<1>5. CASE answer.kind # "ok"
  <2>1. /\ parent' \in ParentStates /\ parent'.pc = "done"
        /\ parent'.got = parent.got /\ parent'.answer = Error
    BY <1>1, <1>2, <1>5, Constructed DEF ParentStates
  <2>2. ParentSound'
    BY <1>1, <1>3, <2>1, Constructed DEF CudaInv, ParentSound, Alive, childSide
  <2> QED BY <1>1, <1>2, <2>1, <2>2, ParentStepSound
<1> QED BY <1>4, <1>5

LEMMA CudaStep == CudaInv /\ CudaNext => CudaInv'
BY BaselineSound, EnterSound, WorkSound, SignalStopSound, CloseWindowSound, InferOthersSound,
   CleanupSound, QueryRaisesSound, SendChunkSound, EndsSound, PollerSoundSteps, ForkSound,
   PollingParentSound, ReceiveChunkSound, ErrorSound, ExitReadingSound
DEF CudaNext, ChildWork, PollerWork, ParentWork, CudaTrouble

-----------------------------------------------------------------------------
(* The executor. *)

(* A set of numbers between two bounds has a greatest element. *)
LEMMA GreatestOf ==
  ASSUME NEW lo \in Int, NEW hi \in Int, NEW S \in SUBSET (lo..hi), S # {}
  PROVE  Max(S) \in S
<1> DEFINE T == {hi - x : x \in S}
<1>1. PICK x \in S : TRUE
  OBVIOUS
<1>2. T \in SUBSET Nat /\ hi - x \in T
  BY <1>1
<1>3. IsWellFoundedOn(OpToRel(<, Nat), Nat)
  BY NatLessThanWellFounded
<1>4. PICK g \in T : \A y \in T : ~(<<y, g>> \in OpToRel(<, Nat))
  BY <1>2, <1>3, WFMin
<1>5. \A y \in T : ~(y < g)
  BY <1>2, <1>4 DEF OpToRel
<1>6. PICK top \in S : g = hi - top
  BY <1>4
<1>7. \A y \in S : top >= y
  <2> TAKE y \in S
  <2>1. hi - y \in T
    OBVIOUS
  <2>2. ~(hi - y < hi - top)
    BY <1>5, <1>6, <2>1
  <2> QED BY <2>2
<1> QED BY <1>6, <1>7 DEF Max

LEMMA PeakIsNumber ==
  ASSUME NEW rows \in Samples, rows # NoRows
  PROVE  Peak(rows) \in Int
<1> DEFINE S == {rows[n].used - rows[1].used : n \in DOMAIN rows}
<1>1. Len(rows) \in Nat \ {0} /\ DOMAIN rows = 1..Len(rows)
  BY EmptySeq DEF Samples, NoRows
<1>2. \A n \in 1..Len(rows) : rows[n].used \in 0..MaxMemory
  <2>1. \A n \in 1..Len(rows) : rows[n] \in [stage : StageNames, used : Memory]
    BY ElementOfSeq DEF Samples
  <2> QED BY <2>1 DEF Memory
<1>3. S \in SUBSET ((-MaxMemory)..MaxMemory)
  BY <1>1, <1>2, MeasureAssumption
<1>4. rows[1].used - rows[1].used \in S
  BY <1>1
<1> HIDE DEF S
<1>5. Max(S) \in S
  <2>1. -MaxMemory \in Int /\ MaxMemory \in Int /\ S # {}
    BY <1>4, MeasureAssumption
  <2> QED BY <1>3, <2>1, GreatestOf
<1> QED BY <1>3, <1>5, MeasureAssumption DEF Peak, S

LEMMA MeasurementParts ==
  ASSUME NEW payload \in Payload, NEW rows \in Samples
  PROVE  LET m == Measurement(payload, rows)
         IN  /\ m.payload = payload /\ m.rows = rows
             /\ m.resource.samples = rows /\ m.resource.peak \in Int
<1>1. (IF rows = NoRows THEN 0 ELSE Peak(rows)) \in Int
  BY PeakIsNumber
<1> QED BY <1>1 DEF Measurement

(* A whole measurement has every stage that a final profile asks for. *)
LEMMA WholeIsComplete ==
  ASSUME NEW samples \in Samples, InOrder(samples), Len(samples) = Len(Stages)
  PROVE  Complete(samples)
<1>1. Len(samples) = Len(Windows) + 3 /\ DOMAIN samples = 1..Len(samples) /\ Len(Windows) \in Nat
  BY StageList DEF Samples
<1>2. \A n \in 1..Len(samples) : samples[n].stage = Stages[n]
  BY DEF InOrder
<1>3. DOMAIN Windows = 1..Len(Windows)
  BY MeasureAssumption
<1>4. \A n \in 1..Len(Windows) : n + 1 \in 1..Len(samples) /\ samples[n + 1].stage = Windows[n]
  BY <1>1, <1>2, StageList
<1>5. ASSUME NEW stage \in {"session_create", "steady"}
      PROVE  stage \in {samples[n].stage : n \in DOMAIN samples}
  <2>1. PICK n \in DOMAIN Windows : Windows[n] = stage
    BY WindowsAssumption
  <2> QED BY <1>1, <1>3, <1>4, <2>1
<1>6. /\ samples[1].stage = "baseline" /\ 1 \in DOMAIN samples
      /\ samples[Len(Windows) + 2].stage = "cleanup" /\ Len(Windows) + 2 \in DOMAIN samples
      /\ samples[Len(Windows) + 3].stage = "process_exit" /\ Len(Windows) + 3 \in DOMAIN samples
  BY <1>1, <1>2, StageList
<1>7. HasFinalStages(samples)
  BY <1>5, <1>6 DEF HasFinalStages, REQUIRED_FINAL_NVML_STAGES
<1>8. samples # NoRows
  BY <1>1 DEF NoRows
<1> QED BY <1>7, <1>8 DEF Complete

(* What a row is judged by depends on the cell and the profile alone. *)
LEMMA SameJudges ==
  ASSUME UNCHANGED <<setup, cell>>
  PROVE  /\ UsesNvml' = UsesNvml
         /\ \A b : ReportAccepts(b)' = ReportAccepts(b)
         /\ \A r : PublicationAccepts(r)' = PublicationAccepts(r)
BY DEF UsesNvml, ReportAccepts, Applicable, Disposed, PublicationAccepts

LEMMA FailureAccepted ==
  ASSUME NEW b, b.status = "fail", b.metrics = Nothing
  PROVE  ReportAccepts(b)
BY DEF ReportAccepts, Nothing

LEMMA FailedWithout ==
  ASSUME measured = Nothing
  PROVE  /\ FailedBundle = BareFailure /\ FailedBundle.status = "fail"
         /\ FailedBundle.metrics = Nothing /\ FailedBundle.rows = NoRows
BY DEF FailedBundle, BareFailure

LEMMA FailedWith ==
  ASSUME NEW m, measured = {m}
  PROVE  /\ FailedBundle.status = "fail" /\ FailedBundle.metrics = Nothing
         /\ FailedBundle.rows = m.rows
<1>1. (CHOOSE x \in measured : TRUE) = m /\ measured # Nothing
  BY DEF Nothing
<1> QED BY <1>1 DEF FailedBundle

(* A scored bundle is one the report accepts, but for the truth that is never *)
(* computed.                                                                  *)
LEMMA ScoredAccepted ==
  ASSUME cell \in Cells, setup.final => setup.nvml,
         NEW payload \in Payload, NEW rows \in Samples, UsesNvml => Complete(rows),
         NEW computed \in SUBSET Computed, NEW unstable \in BOOLEAN,
         ~CannotScore(payload, computed)
  PROVE  LET b == ScoredBundle(Measurement(payload, rows), Scores(payload, computed), unstable)
         IN  /\ b.status \in {"pass", "fail"} /\ b.rows = rows
             /\ ReportAccepts(b) \/ (b.status = "pass" /\ NeverScored(cell.shot))
<1> DEFINE m == Measurement(payload, rows)
           metrics == Scores(payload, computed)
           b == ScoredBundle(m, metrics, unstable)
           judged == [numeric |-> metrics \cup Reliability, unstable |-> unstable,
                      not_applicable |-> REPORT_METRICS \ metrics]
<1>1. /\ m.rows = rows /\ m.resource.samples = rows /\ m.resource.peak \in Int
  BY MeasurementParts
<1>2. metrics \subseteq REPORT_METRICS
  BY DEF Scores, Computed, REPORT_METRICS, DenseMetrics, LandmarkMetrics
<1> HIDE DEF m
<1>3. /\ b.status = IF hard_gate_failure(unstable, m.resource.peak) THEN "fail" ELSE "pass"
      /\ b.metrics = {judged} /\ b.resource = {m.resource} /\ b.rows = rows
  BY <1>1 DEF ScoredBundle
<1> HIDE DEF b
<1>4. Disposed(judged)
  <2>1. Reliability \cap REPORT_METRICS = {}
    BY DEF Reliability, REPORT_METRICS, DenseMetrics, LandmarkMetrics
  <2> HIDE DEF metrics
  <2> QED BY <1>2, <2>1 DEF Disposed
<1>5. cell.shot \in Shots /\ cell.provider \in {"cuda", "cpu"}
  BY CellAssumption
<1>6. ASSUME b.status = "pass", ~NeverScored(cell.shot)
      PROVE  ReportAccepts(b)
  <2>1. ~unstable /\ ~(m.resource.peak > MemoryLimit)
    BY <1>3, <1>6 DEF hard_gate_failure
  <2>2. m.resource.peak <= MemoryLimit
    BY <1>1, <2>1, CellAssumption
  <2>3. Applicable(judged.numeric)
    <3>1. cell.shot.truth = "analytic" => cell.shot.partition = "synthetic"
      BY <1>5, <1>6 DEF NeverScored, Shots
    <3>2. cell.shot.chained => cell.shot.partition = "synthetic"
      BY <1>5, <1>6 DEF NeverScored, Shots
    <3>3. cell.shot.truth # "landmarks"
      BY <1>6 DEF NeverScored
    <3> QED BY <3>1, <3>2, <3>3 DEF Applicable, Scores, DenseDue, Generated
  <2>4. setup.final /\ cell.provider = "cuda" => HasFinalStages(m.resource.samples)
    BY <1>1 DEF UsesNvml, Complete
  <2> HIDE DEF judged
  <2> QED BY <1>3, <1>4, <2>1, <2>2, <2>3, <2>4 DEF ReportAccepts, judged
<1>7. ASSUME b.status = "fail"
      PROVE  ReportAccepts(b)
  BY <1>3, <1>4, <1>7 DEF ReportAccepts
<1>8. b.status \in {"pass", "fail"}
  BY <1>3
<1> QED BY <1>3, <1>6, <1>7, <1>8 DEF b, m

LEMMA ExecStable ==
  ASSUME ExecInv, UNCHANGED execVars
  PROVE  ExecInv'
BY SameJudges DEF ExecInv, execVars, UsesNvml, MeasuredSound, BundleSound, EvidenceIsOwn, RowsPublish

LEMMA Initially == Init => IInv
<1> SUFFICES ASSUME Init PROVE IInv
  OBVIOUS
<1>1. CudaInv
  <2>1. 0 \in 0..MaxTrouble
    BY MeasureAssumption
  <2> QED BY <2>1, FreshSound DEF Init, CudaInit, Fresh
<1>2. cell \in Cells
  BY CellAssumption DEF Init
<1>3. 0 \in 0..MaxCells
  BY CellAssumption
<1>4. ExecInv
  BY <1>2, <1>3 DEF Init, ExecInv, EvidenceIsOwn, RowsPublish, Nothing
<1> QED BY <1>1, <1>4 DEF IInv

LEMMA StartCellSound == IInv /\ StartCell => IInv'
<1> SUFFICES ASSUME IInv, StartCell PROVE IInv'
  OBVIOUS
<1>1. /\ step = "next" /\ done < MaxCells /\ cell' \in Cells
      /\ UNCHANGED <<setup, done, bundle, trouble>>
      /\ step' = IF UsesNvml' THEN "measure" ELSE "infer"
      /\ measured' = Nothing /\ row' = Nothing /\ heard' = Nothing
  BY DEF StartCell
<1>2. CudaInv'
  <2>1. Fresh'
    BY <1>1 DEF StartCell, Fresh, IInv, CudaInv, CudaTyped
  <2>2. Fresh' => CudaInv'
    BY FreshSound, PTL
  <2> QED BY <2>1, <2>2
<1>3. ExecInv'
  BY <1>1 DEF IInv, ExecInv, EvidenceIsOwn, RowsPublish, Nothing
<1> QED BY <1>2, <1>3 DEF IInv

(* Steps of the executor leave the measurement as it is. *)
LEMMA SameCuda ==
  ASSUME CudaInv, UNCHANGED <<memory, child, poller, stop, pipe, parent, taken, blind>>,
         trouble' \in 0..MaxTrouble
  PROVE  CudaInv'
BY SameChild, SamePoller, SameParent DEF CudaInv, CudaTyped

LEMMA TroubledCuda ==
  ASSUME CudaInv, UNCHANGED <<memory, child, poller, stop, pipe, parent, taken, blind>>, Troubled
  PROVE  CudaInv'
<1>1. trouble' \in 0..MaxTrouble
  BY MeasureAssumption DEF CudaInv, CudaTyped, Troubled
<1> QED BY <1>1, SameCuda

LEMMA UnchangedCuda ==
  ASSUME CudaInv, UNCHANGED cudaVars
  PROVE  CudaInv'
BY SameCuda DEF cudaVars, CudaInv, CudaTyped

(* The measurement of the cell is there. *)
LEMMA MeasuredNext ==
  ASSUME ExecInv, step \in {"measure", "infer"}, NEW m, IsMeasured(m),
         \E payload \in Payload, rows \in Samples : m = Measurement(payload, rows),
         IF UsesNvml THEN heard' = {m.rows} /\ Complete(m.rows) ELSE heard' = Nothing /\ m.rows = NoRows
  PROVE  ExecInv'
<1>1. /\ measured' = {m} /\ step' = "score" /\ UNCHANGED <<setup, cell, done, bundle, row>>
  BY DEF IsMeasured
<1>2. row = Nothing /\ bundle = Nothing
  BY DEF ExecInv
<1>3. MeasuredSound(m)'
  BY <1>1, SameJudges DEF MeasuredSound
<1> QED BY <1>1, <1>2, <1>3 DEF ExecInv, EvidenceIsOwn, RowsPublish, Nothing

(* The executor has a bundle to commit. *)
LEMMA ReturnsNext ==
  ASSUME ExecInv, step \in {"measure", "infer", "score"}, NEW b, Returns(b),
         b.status \in {"pass", "fail"},
         \/ UsesNvml /\ heard' = {b.rows} /\ Complete(b.rows)
         \/ heard' = Nothing /\ b.rows = NoRows /\ (UsesNvml => b.status = "fail"),
         ReportAccepts(b) \/ (b.status = "pass" /\ NeverScored(cell.shot))
  PROVE  ExecInv'
<1>1. /\ bundle' = {b} /\ step' = "commit" /\ measured' = Nothing
      /\ UNCHANGED <<setup, cell, done, row>>
  BY DEF Returns
<1>2. row = Nothing
  BY DEF ExecInv
<1>3. BundleSound(b)'
  BY <1>1, SameJudges DEF BundleSound
<1> QED BY <1>1, <1>2, <1>3 DEF ExecInv, EvidenceIsOwn, RowsPublish, Nothing

LEMMA ChildIsHeardSound == IInv /\ ChildIsHeard => IInv'
<1> SUFFICES ASSUME IInv, ChildIsHeard PROVE IInv'
  OBVIOUS
<1> DEFINE answer == parent.answer
<1>1. /\ step = "measure" /\ parent.pc = "done" /\ UNCHANGED cudaVars
      /\ heard' = IF answer.kind = "ok" THEN {answer.samples} ELSE Nothing
      /\ IF answer.kind = "ok" /\ (setup.final => HasFinalStages(answer.samples))
         THEN IsMeasured(Measurement(answer.payload, answer.samples))
         ELSE Returns(FailedBundle)
  BY DEF ChildIsHeard
<1>2. CudaInv'
  BY <1>1, UnchangedCuda DEF IInv
<1>3. ExecInv /\ UsesNvml /\ measured = Nothing
  BY <1>1 DEF IInv, ExecInv
<1>4. CASE answer.kind = "ok"
  <2>1. answer.payload \in Payload /\ answer.samples \in Samples
    BY <1>4, OutcomeKinds DEF IInv, CudaInv, CudaTyped, ParentStates
  <2>2. Complete(answer.samples)
    BY <1>1, <1>4, <2>1, WholeIsComplete DEF IInv, CudaInv, ParentSound
  <2>3. IsMeasured(Measurement(answer.payload, answer.samples)) /\ heard' = {answer.samples}
    BY <1>1, <1>4, <2>2 DEF Complete
  <2>4. Measurement(answer.payload, answer.samples).rows = answer.samples
    BY <2>1, MeasurementParts
  <2>5. ExecInv'
    BY <1>1, <1>3, <2>1, <2>2, <2>3, <2>4, MeasuredNext
  <2> QED BY <1>2, <2>5 DEF IInv
<1>5. CASE answer.kind # "ok"
  <2>1. heard' = Nothing /\ Returns(FailedBundle)
    BY <1>1, <1>5
  <2>2. ExecInv'
    BY <1>1, <1>3, <2>1, FailedWithout, FailureAccepted, ReturnsNext
  <2> QED BY <1>2, <2>2 DEF IInv
<1> QED BY <1>4, <1>5

LEMMA InferSound == IInv /\ (InferInProcess \/ InferenceFails) => IInv'
<1> SUFFICES ASSUME IInv, InferInProcess \/ InferenceFails PROVE IInv'
  OBVIOUS
<1>1. step = "infer" /\ heard' = heard
  BY DEF InferInProcess, InferenceFails
<1>2. ExecInv /\ ~UsesNvml /\ measured = Nothing /\ heard' = Nothing
  BY <1>1 DEF IInv, ExecInv
<1>3. CASE InferInProcess
  <2>1. PICK payload \in Payload : IsMeasured(Measurement(payload, NoRows))
    BY <1>3 DEF InferInProcess
  <2>2. NoRows \in Samples
    BY DEF NoRows, Samples
  <2>3. Measurement(payload, NoRows).rows = NoRows
    BY <2>2, MeasurementParts
  <2>4. ExecInv'
    BY <1>1, <1>2, <2>1, <2>2, <2>3, MeasuredNext
  <2>5. CudaInv'
    BY <1>3, UnchangedCuda DEF IInv, InferInProcess
  <2> QED BY <2>4, <2>5 DEF IInv
<1>4. CASE InferenceFails
  <2>1. ExecInv'
    BY <1>1, <1>2, <1>4, FailedWithout, FailureAccepted, ReturnsNext DEF InferenceFails
  <2>2. CudaInv'
    BY <1>4, TroubledCuda DEF IInv, InferenceFails
  <2> QED BY <2>1, <2>2 DEF IInv
<1> QED BY <1>3, <1>4

LEMMA ScoreSound == IInv /\ Score => IInv'
<1> SUFFICES ASSUME IInv, Score PROVE IInv'
  OBVIOUS
<1>1. PICK m \in measured, computed \in SUBSET Computed, unstable \in BOOLEAN :
        Returns(IF CannotScore(m.payload, computed) THEN FailedBundle
                ELSE ScoredBundle(m, Scores(m.payload, computed), unstable))
  BY DEF Score
<1>2. step = "score" /\ UNCHANGED <<cudaVars, heard>>
  BY DEF Score
<1>3. ExecInv /\ measured = {m} /\ MeasuredSound(m) /\ cell \in Cells /\ (setup.final => setup.nvml)
  BY <1>1, <1>2 DEF IInv, ExecInv
<1>4. PICK payload \in Payload, rows \in Samples : m = Measurement(payload, rows)
  BY <1>3 DEF MeasuredSound
<1>5. m.payload = payload /\ m.rows = rows
  BY <1>4, MeasurementParts
<1>6. /\ UsesNvml => heard' = {rows} /\ Complete(rows)
      /\ ~UsesNvml => heard' = Nothing /\ rows = NoRows
  BY <1>2, <1>3, <1>5 DEF MeasuredSound
<1>7. ExecInv'
  <2>1. CASE CannotScore(m.payload, computed)
    <3>1. /\ FailedBundle.status = "fail" /\ FailedBundle.metrics = Nothing
          /\ FailedBundle.rows = rows
      BY <1>3, <1>5, FailedWith
    <3> QED BY <1>1, <1>2, <1>3, <1>6, <2>1, <3>1, FailureAccepted, ReturnsNext
  <2>2. CASE ~CannotScore(m.payload, computed)
    <3> DEFINE b == ScoredBundle(m, Scores(m.payload, computed), unstable)
    <3>1. /\ b.status \in {"pass", "fail"} /\ b.rows = rows
          /\ ReportAccepts(b) \/ (b.status = "pass" /\ NeverScored(cell.shot))
      BY <1>3, <1>4, <1>5, <1>6, <2>2, ScoredAccepted
    <3>2. Returns(b)
      BY <1>1, <2>2
    <3> HIDE DEF b
    <3> QED BY <1>2, <1>3, <1>6, <3>1, <3>2, ReturnsNext
  <2> QED BY <2>1, <2>2
<1>8. CudaInv'
  BY <1>2, UnchangedCuda DEF IInv
<1> QED BY <1>7, <1>8 DEF IInv

LEMMA RunEndsNext ==
  ASSUME ExecInv, step # "next", RunEnds
  PROVE  ExecInv'
BY SameJudges DEF ExecInv, RunEnds, EvidenceIsOwn, RowsPublish, Nothing

LEMMA CommitSound == IInv /\ Commit => IInv'
<1> SUFFICES ASSUME IInv, Commit PROVE IInv'
  OBVIOUS
<1>1. step = "commit" /\ UNCHANGED cudaVars
  BY DEF Commit
<1>2. PICK b : bundle = {b} /\ BundleSound(b)
  BY <1>1 DEF IInv, ExecInv
<1>3. CudaInv'
  BY <1>1, UnchangedCuda DEF IInv
<1>4. CASE NeedsEvidence(b) /\ ~EvidenceIsSound(b)
  <2>1. RunEnds
    BY <1>2, <1>4 DEF Commit
  <2> QED BY <1>1, <1>3, <2>1, RunEndsNext DEF IInv
<1>5. CASE ~(NeedsEvidence(b) /\ ~EvidenceIsSound(b))
  <2> DEFINE r == [status |-> b.status, metrics |-> b.metrics, resource |-> b.resource,
                   evidence |-> IF NeedsEvidence(b) THEN {b.rows} ELSE Nothing]
  <2>1. /\ row' = {r} /\ step' = "next" /\ done' = done + 1 /\ bundle' = Nothing
        /\ UNCHANGED <<setup, cell, measured, heard>>
    BY <1>2, <1>5 DEF Commit
  <2>2. /\ r.status = b.status /\ r.metrics = b.metrics /\ r.resource = b.resource
        /\ r.evidence = IF NeedsEvidence(b) THEN {b.rows} ELSE Nothing
    OBVIOUS
  <2> HIDE DEF r
  <2>3. r.evidence = heard
    BY <1>2, <2>2 DEF BundleSound, NeedsEvidence, Complete
  <2>4. PublicationAccepts(r)
    BY <1>2, <1>5, <2>2 DEF BundleSound, NeedsEvidence, EvidenceIsSound, PublicationAccepts, Nothing
  <2>5. ReportAccepts(r) \/ (r.status = "pass" /\ NeverScored(cell.shot))
    BY <1>2, <2>2 DEF BundleSound, ReportAccepts
  <2>6. EvidenceIsOwn' /\ RowsPublish'
    BY <2>1, <2>3, <2>4, <2>5, SameJudges DEF EvidenceIsOwn, RowsPublish
  <2>7. done' \in 0..MaxCells
    BY <1>1, <2>1, CellAssumption DEF IInv, ExecInv
  <2>8. ExecInv'
    BY <1>1, <2>1, <2>6, <2>7 DEF IInv, ExecInv
  <2> QED BY <1>3, <2>8 DEF IInv
<1> QED BY <1>4, <1>5

LEMMA AbortsSound == IInv /\ Aborts => IInv'
<1> SUFFICES ASSUME IInv, Aborts PROVE IInv'
  OBVIOUS
<1>1. /\ step \in {"infer", "score", "commit"} /\ Troubled /\ RunEnds
      /\ UNCHANGED <<memory, child, poller, stop, pipe, parent, taken, blind>>
  BY DEF Aborts
<1>2. ExecInv'
  BY <1>1, RunEndsNext DEF IInv
<1>3. CudaInv'
  BY <1>1, TroubledCuda DEF IInv
<1> QED BY <1>2, <1>3 DEF IInv

LEMMA Inductive == IInv /\ [Next]_vars => IInv'
<1> SUFFICES ASSUME IInv, [Next]_vars PROVE IInv'
  OBVIOUS
<1>1. CASE ExecutorWork
  BY <1>1, StartCellSound, ChildIsHeardSound, InferSound, ScoreSound, CommitSound DEF ExecutorWork
<1>2. CASE InferenceFails
  BY <1>2, InferSound
<1>3. CASE Aborts
  BY <1>3, AbortsSound
<1>4. CASE Measuring /\ CudaNext
  BY <1>4, CudaStep, ExecStable DEF IInv, Measuring
<1>5. CASE UNCHANGED vars
  BY <1>5, UnchangedCuda, ExecStable DEF IInv, vars
<1> QED BY <1>1, <1>2, <1>3, <1>4, <1>5 DEF Next

LEMMA Invariance == Spec => []IInv
BY Initially, Inductive, PTL DEF Spec

-----------------------------------------------------------------------------
(* What follows from the invariant. *)

LEMMA InvTyped == IInv => CellTypeOK
<1> SUFFICES ASSUME IInv PROVE CellTypeOK
  OBVIOUS
<1>1. CudaTypeOK
  BY DEF IInv, CudaInv, CudaTyped, ChildSound, PollerSound, ParentSound, ChildStates, PollerStates,
         Memory, CudaTypeOK
<1>2. step = "commit" => bundle # Nothing
  BY DEF IInv, ExecInv, Nothing
<1> QED BY <1>1, <1>2 DEF IInv, ExecInv, CudaInv, CudaTyped, CellTypeOK

LEMMA InvTrue == IInv => AnswerIsTrue
<1> SUFFICES ASSUME IInv PROVE AnswerIsTrue
  OBVIOUS
<1> DEFINE samples == parent.answer.samples
<1>1. ASSUME parent.pc = "done", parent.answer.kind = "ok"
      PROVE  [n \in DOMAIN samples |-> samples[n].stage] = Stages
  <2>1. samples \in Samples
    BY <1>1, OutcomeKinds DEF IInv, CudaInv, CudaTyped, ParentStates
  <2>2. InOrder(samples) /\ Len(samples) = Len(Stages)
    BY <1>1 DEF IInv, CudaInv, ParentSound
  <2> HIDE DEF samples
  <2>3. DOMAIN samples = 1..Len(Stages) /\ \A n \in 1..Len(Stages) : samples[n].stage = Stages[n]
    BY <2>1, <2>2 DEF Samples, InOrder
  <2>4. Stages = [n \in 1..Len(Stages) |-> Stages[n]]
    BY StageList
  <2> QED BY <2>3, <2>4
<1>2. ASSUME parent.pc = "exit", parent.answer = NoOutcome
      PROVE  child.sent < Size(child.outcome)
  BY <1>2 DEF IInv, CudaInv, ParentSound
<1> QED BY <1>1, <1>2 DEF IInv, CudaInv, ParentSound, AnswerIsTrue

(* A step that lengthens the samples of a child that joins its poller is the *)
(* one that closes the window.                                               *)
LEMMA OnlyCloseWindow ==
  ASSUME IInv, Next, ClosesWindow
  PROVE  CloseWindow
<1>1. /\ child.pc = "joining" /\ child \in ChildStates /\ Len(child.samples) \in Nat
      /\ Len(child'.samples) > Len(child.samples)
  BY DEF IInv, CudaInv, CudaTyped, ChildStates, Samples, ClosesWindow
<1>2. ASSUME UNCHANGED child PROVE FALSE
  BY <1>1, <1>2
<1>3. ~StartCell
  <2>1. ASSUME StartCell PROVE FALSE
    <3>1. Len(child'.samples) = 0
      BY <2>1 DEF StartCell, NoChild
    <3> QED BY <1>1, <3>1
  <2> QED BY <2>1
<1>4. Measuring /\ CudaNext
  BY <1>2, <1>3 DEF Next, ExecutorWork, InferenceFails, Aborts, ChildIsHeard, InferInProcess, Score,
                    Commit, cudaVars
<1>5. ~Killed /\ ~Fork
  <2>1. ASSUME NEW pc, child' = [child EXCEPT !.pc = pc] PROVE FALSE
    <3>1. child'.samples = child.samples
      BY <1>1, <2>1 DEF ChildStates
    <3> QED BY <1>1, <3>1
  <2> QED BY <2>1 DEF Killed, Leaves, Fork
<1>6. ~ParentWork /\ ~PollerWork /\ ~PollFails /\ ~ForkFails /\ ~ExitReadingFails /\ ~UseMemory
  BY <1>2, <1>5 DEF ParentWork, PollerWork, Arrived, Empty, CheckAlive, Drain, ReceiveChunk,
    JoinChild, ExitReading, Polls, Records, PollStops, PollFails, ForkFails, ExitReadingFails,
    UseMemory, ParentGoes, childSide
<1> QED BY <1>1, <1>4, <1>5, <1>6 DEF CudaNext, CudaTrouble, ChildWork, Baseline, Enter, WorkReturns,
  WorkRaises, SignalStop, InferOthers, Cleanup, SendChunk, Ends, QueryRaises

LEMMA PeakCaptured ==
  ASSUME IInv, Next, ClosesWindow
  PROVE  Last(child'.samples).used = Max(taken)
<1>1. CloseWindow
  BY OnlyCloseWindow
<1> DEFINE sample == Sample(Windows[child.window], poller.max)
<1>2. /\ child \in ChildStates /\ child.samples \in Samples /\ child.pc = "joining"
      /\ poller.pc = "stopped" /\ child'.samples = Append(child.samples, sample)
  BY <1>1 DEF CloseWindow, Joined, IInv, CudaInv, CudaTyped, ChildStates
<1>3. Last(child'.samples) = sample
  <2>1. /\ Len(Append(child.samples, sample)) = Len(child.samples) + 1
        /\ Append(child.samples, sample)[Len(child.samples) + 1] = sample
    BY <1>2 DEF Samples
  <2> HIDE DEF sample
  <2> QED BY <1>2, <2>1 DEF Last
<1>4. poller.max \in taken /\ \A used \in taken : used <= poller.max
  BY <1>2 DEF IInv, CudaInv, PollerSound, Polling
<1>5. taken \subseteq 0..MaxMemory /\ MaxMemory \in Nat
  BY MeasureAssumption DEF IInv, CudaInv, CudaTyped, Memory
<1>6. Max(taken) = poller.max
  <2>1. \A used \in taken : poller.max >= used
    BY <1>4, <1>5
  <2>2. Max(taken) \in taken /\ \A used \in taken : Max(taken) >= used
    BY <1>4, <2>1 DEF Max
  <2>3. Max(taken) <= poller.max /\ Max(taken) >= poller.max
    BY <1>4, <2>2
  <2>4. Max(taken) \in Int /\ poller.max \in Int
    <3>1. \A used \in taken : used \in Int
      BY <1>5
    <3> QED BY <1>4, <2>2, <3>1
  <2> QED BY <2>3, <2>4
<1> QED BY <1>3, <1>6 DEF Sample

-----------------------------------------------------------------------------
(* The executor's variables and the measurement's keep their types, and what *)
(* was received and what is in the pipe is always what the child has sent.   *)
THEOREM CellTyped == Spec => []CellTypeOK
BY Invariance, InvTyped, PTL

(* What the parent answers as ok is a whole measurement: no background       *)
(* reading of any window failed, all the stages are there in order, and the  *)
(* process_exit reading is of a device the child has left; and only a child  *)
(* that died before it had sent its outcome is taken to have left none       *)
(* (run_cuda_measurement_in_subprocess, _child_main, PollWindow).            *)
THEOREM AlwaysTrue == Spec => []AnswerIsTrue
BY Invariance, InvTrue, PTL

(* The sample a polled window leaves is the greatest of all the readings     *)
(* taken while it was open, the reading in flight when it closed included    *)
(* (PollWindow.__exit__ joins its thread before it reads the maximum).       *)
THEOREM PeaksCaptured == Spec => PeakIsCaptured
<1>1. IInv /\ [Next]_vars => [ClosesWindow => Last(child'.samples).used = Max(taken)]_cudaVars
  BY PeakCaptured DEF vars
<1> QED BY <1>1, Invariance, PTL DEF Spec, PeakIsCaptured

(* The NVML evidence committed with a row is what the cell's own child       *)
(* measured, and nothing of it is lost when scoring or a gate failed the     *)
(* cell (_run_cell, ctx.measured_cell, _commit_cell_bundle).                 *)
THEOREM AlwaysOwn == Spec => []EvidenceIsOwn
<1>1. IInv => EvidenceIsOwn
  BY DEF IInv, ExecInv
<1> QED BY <1>1, Invariance, PTL

(* Every committed row is one the publication of the evidence accepts, and   *)
(* one the report validator accepts but for the shots whose truth the        *)
(* executor never computes (_run_cell, _hard_gate_failure, judged by         *)
(* validate_report_consistency, _regenerate_public_evidence_outputs).        *)
THEOREM AlwaysPublish == Spec => []RowsPublish
<1>1. IInv => RowsPublish
  BY DEF IInv, ExecInv
<1> QED BY <1>1, Invariance, PTL
=============================================================================
