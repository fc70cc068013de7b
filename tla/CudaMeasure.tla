----------------------------- MODULE CudaMeasure -----------------------------
(***************************************************************************)
(* The measurement of one CUDA cell (tools/bakeoff/run.py and nvml.py): a  *)
(* forked child runs the inference under NVML polling windows, each with a *)
(* background thread, and sends one outcome through a multiprocessing      *)
(* queue; the parent drains the queue, reaps the child and only then takes *)
(* the process_exit reading.                                               *)
(*                                                                         *)
(* Memory is what the child's CUDA context holds on the device.  An NVML   *)
(* query returns or raises; it does not hang.                              *)
(***************************************************************************)
EXTENDS Integers, Sequences, SequencesExt, FiniteSetsExt

CONSTANTS
  Windows,     \* the polled stages, in order: session_create, steady, ...
  MaxMemory,   \* bound on the memory the work holds
  Chunks,      \* writes that an outcome with its grids takes on the queue's pipe
  Capacity,    \* chunks the pipe holds
  MaxTrouble   \* bound on failed queries, failing work and kills

ASSUME MeasureAssumption ==
  /\ Windows \in Seq(STRING) /\ MaxMemory \in Nat
  /\ Chunks \in Nat \ {0} /\ Capacity \in Nat \ {0} /\ MaxTrouble \in Nat

VARIABLES
  memory,   \* what the child holds on the device
  child,    \* the child's main thread: pc, window, samples, outcome, chunks sent
  poller,   \* the PollWindow and its thread
  stop,     \* PollWindow._stop_event
  pipe,     \* chunks in the queue's pipe
  parent,   \* the parent: pc, chunks received, what it answers
  taken,    \* every reading of the open window (history)
  blind,    \* a background reading has failed (history)
  trouble

cudaVars == <<memory, child, poller, stop, pipe, parent, taken, blind, trouble>>

childSide == <<memory, child, poller, stop, taken, blind>>

(* What the inferences behind the polled one gave: a mandatory chain is whole *)
(* or was given up, the flow of the reversed pair is there or was skipped.    *)
Payload == [links : {"whole", "broken"}, reverse : BOOLEAN]

NoOutcome == [kind |-> "none"]
Error == [kind |-> "error"]
Ok(payload, samples) == [kind |-> "ok", payload |-> payload, samples |-> samples]

(* Writes that an outcome takes: an error is short. *)
Size(outcome) == IF outcome.kind = "ok" THEN Chunks ELSE 1

Sample(stage, used) == [stage |-> stage, used |-> used]

NoPoller == [pc |-> "none", reading |-> 0, max |-> 0, failed |-> FALSE]

NoChild == [pc |-> "none", window |-> 1, raised |-> FALSE, samples |-> << >>,
            payload |-> {}, outcome |-> NoOutcome, sent |-> 0]

Idle == [pc |-> "start", got |-> 0, answer |-> NoOutcome]

CudaInit ==
  /\ memory = 0
  /\ child = NoChild
  /\ poller = NoPoller
  /\ stop = FALSE
  /\ pipe = 0
  /\ parent = Idle
  /\ taken = {}
  /\ blind = FALSE
  /\ trouble = 0

Alive == child.pc \notin {"none", "gone"}

Troubled == trouble < MaxTrouble /\ trouble' = trouble + 1

(* _child_main reports an exception as an error outcome. *)
Reports(outcome) == child' = [child EXCEPT !.pc = "put", !.outcome = outcome]

-----------------------------------------------------------------------------
(* The child's main thread. *)
Baseline ==
  /\ child.pc = "baseline"
  /\ child' = [child EXCEPT !.pc = "enter", !.samples = <<Sample("baseline", memory)>>]
  /\ UNCHANGED <<memory, poller, stop, pipe, parent, taken, blind, trouble>>

(* PollWindow.__enter__: one reading at once, then the thread. *)
Enter ==
  /\ child.pc = "enter" /\ child.window <= Len(Windows)
  /\ child' = [child EXCEPT !.pc = "work"]
  /\ poller' = [NoPoller EXCEPT !.pc = "waiting", !.max = memory]
  /\ stop' = FALSE
  /\ taken' = {memory}
  /\ UNCHANGED <<memory, pipe, parent, blind, trouble>>

UseMemory ==
  /\ child.pc = "work"
  /\ memory' \in 0..MaxMemory
  /\ UNCHANGED <<child, poller, stop, pipe, parent, taken, blind, trouble>>

WorkReturns ==
  /\ child.pc = "work"
  /\ child' = [child EXCEPT !.pc = "stopping", !.raised = FALSE]
  /\ UNCHANGED <<memory, poller, stop, pipe, parent, taken, blind, trouble>>

WorkRaises ==
  /\ child.pc = "work"
  /\ Troubled
  /\ child' = [child EXCEPT !.pc = "stopping", !.raised = TRUE]
  /\ UNCHANGED <<memory, poller, stop, pipe, parent, taken, blind>>

(* PollWindow.__exit__: set the event, join the thread, read the maximum. *)
SignalStop ==
  /\ child.pc = "stopping"
  /\ stop' = TRUE
  /\ child' = [child EXCEPT !.pc = "joining"]
  /\ UNCHANGED <<memory, poller, pipe, parent, taken, blind, trouble>>

\* Bug variant: the maximum is read before the thread has ended.
Joined_AtOnce == TRUE

Joined == poller.pc = "stopped"

WindowFails == child.raised \/ poller.failed

CloseWindow ==
  LET samples == Append(child.samples, Sample(Windows[child.window], poller.max))
  IN  /\ child.pc = "joining" /\ Joined
      /\ child' = IF WindowFails
                  THEN [child EXCEPT !.pc = "put", !.samples = samples, !.outcome = Error]
                  ELSE [child EXCEPT !.pc = "enter", !.samples = samples, !.window = @ + 1]
      /\ UNCHANGED <<memory, poller, stop, pipe, parent, taken, blind, trouble>>

(* The chain links, the reversed pair and the review offsets, which are not   *)
(* polled: a failure of one of them is caught and is part of the payload.     *)
InferOthers ==
  /\ child.pc = "enter" /\ child.window > Len(Windows) /\ child.payload = {}
  /\ \E payload \in Payload : child' = [child EXCEPT !.payload = {payload}]
  /\ memory' \in 0..MaxMemory
  /\ UNCHANGED <<poller, stop, pipe, parent, taken, blind, trouble>>

Cleanup ==
  LET samples == Append(child.samples, Sample("cleanup", memory))
  IN  /\ child.pc = "enter"
      /\ \E payload \in child.payload :
           child' = [child EXCEPT !.pc = "put", !.samples = samples,
                                  !.outcome = Ok(payload, samples)]
      /\ UNCHANGED <<memory, poller, stop, pipe, parent, taken, blind, trouble>>

(* A query of the main thread raises (baseline, __enter__, cleanup), or an    *)
(* inference raises what _perform_cell_inference does not expect.             *)
QueryRaises ==
  /\ child.pc \in {"baseline", "enter"}
  /\ Troubled
  /\ Reports(Error)
  /\ UNCHANGED <<memory, poller, stop, pipe, parent, taken, blind>>

(* The queue's feeder writes the outcome; the process ends when it is out.   *)
SendChunk ==
  /\ child.pc = "put"
  /\ child.sent < Size(child.outcome) /\ pipe < Capacity
  /\ child' = [child EXCEPT !.sent = @ + 1]
  /\ pipe' = pipe + 1
  /\ UNCHANGED <<memory, poller, stop, parent, taken, blind, trouble>>

Leaves == child' = [child EXCEPT !.pc = "gone"] /\ memory' = 0 /\ poller' = NoPoller

Ends ==
  /\ child.pc = "put" /\ child.sent = Size(child.outcome)
  /\ Leaves
  /\ UNCHANGED <<stop, pipe, parent, taken, blind, trouble>>

(* The kernel kills the child, whatever its threads are doing. *)
Killed ==
  /\ Alive
  /\ Troubled
  /\ Leaves
  /\ UNCHANGED <<stop, pipe, parent, taken, blind>>

-----------------------------------------------------------------------------
(* The polling thread: wait for the interval or the event, query, record.    *)
Polls ==
  /\ poller.pc = "waiting" /\ ~stop
  /\ poller' = [poller EXCEPT !.pc = "recording", !.reading = memory]
  /\ taken' = taken \cup {memory}
  /\ UNCHANGED <<memory, child, stop, pipe, parent, blind, trouble>>

Records ==
  /\ poller.pc = "recording"
  /\ poller' = [poller EXCEPT !.pc = "waiting", !.max = Max({@, poller.reading})]
  /\ UNCHANGED <<memory, child, stop, pipe, parent, taken, blind, trouble>>

PollFails ==
  /\ poller.pc = "waiting" /\ ~stop
  /\ Troubled
  /\ poller' = [poller EXCEPT !.pc = "stopped", !.failed = TRUE]
  /\ blind' = TRUE
  /\ UNCHANGED <<memory, child, stop, pipe, parent, taken>>

PollStops ==
  /\ poller.pc = "waiting" /\ stop
  /\ poller' = [poller EXCEPT !.pc = "stopped"]
  /\ UNCHANGED <<memory, child, stop, pipe, parent, taken, blind, trouble>>

-----------------------------------------------------------------------------
(* The parent. *)
Fork ==
  /\ parent.pc = "start"
  /\ parent' = [parent EXCEPT !.pc = "get"]
  /\ child' = [child EXCEPT !.pc = "baseline"]
  /\ UNCHANGED <<memory, poller, stop, pipe, taken, blind, trouble>>

ForkFails ==
  /\ parent.pc = "start"
  /\ Troubled
  /\ parent' = [parent EXCEPT !.pc = "done", !.answer = Error]
  /\ UNCHANGED <<childSide, pipe>>

ParentGoes(pc) == parent' = [parent EXCEPT !.pc = pc] /\ UNCHANGED <<childSide, pipe, trouble>>

(* get(timeout): something arrived, or the queue was empty. *)
Arrived == parent.pc = "get" /\ pipe > 0 /\ ParentGoes("receive")
Empty == parent.pc = "get" /\ pipe = 0 /\ ParentGoes("alive?")

\* Bug variants: a plain blocking get; no last look after the child is gone.
CheckAlive_Never == parent.pc = "alive?" /\ ParentGoes("get")

CheckAlive_NoDrain == parent.pc = "alive?" /\ ParentGoes(IF Alive THEN "get" ELSE "join")

CheckAlive == parent.pc = "alive?" /\ ParentGoes(IF Alive THEN "get" ELSE "drain")

(* get_nowait. *)
Drain == parent.pc = "drain" /\ ParentGoes(IF pipe > 0 THEN "receive" ELSE "join")

(* recv_bytes reads a whole message.  The parent holds a writing end of the  *)
(* pipe itself, so a child that dies in the middle is no end of file.        *)
ReceiveChunk ==
  /\ parent.pc = "receive" /\ pipe > 0
  /\ pipe' = pipe - 1
  /\ parent' = IF parent.got + 1 = Size(child.outcome)
               THEN [parent EXCEPT !.pc = "join", !.got = @ + 1, !.answer = child.outcome]
               ELSE [parent EXCEPT !.got = @ + 1]
  /\ UNCHANGED <<childSide, trouble>>

\* Bug variant: the parent does not wait for the child to end.
Reaped_Early == TRUE

Reaped == ~Alive

JoinChild == parent.pc = "join" /\ Reaped /\ ParentGoes("exit")

(* The process_exit reading, for an outcome that is ok. *)
ExitReading ==
  LET answer == parent.answer
  IN  /\ parent.pc = "exit"
      /\ parent' = [parent EXCEPT !.pc = "done", !.answer =
           IF answer.kind = "ok"
           THEN Ok(answer.payload, Append(answer.samples, Sample("process_exit", memory)))
           ELSE Error]
      /\ UNCHANGED <<childSide, pipe, trouble>>

ExitReadingFails ==
  /\ parent.pc = "exit"
  /\ Troubled
  /\ parent' = [parent EXCEPT !.pc = "done", !.answer = Error]
  /\ UNCHANGED <<childSide, pipe>>

ChildWork ==
  \/ Baseline \/ Enter \/ WorkReturns \/ SignalStop \/ CloseWindow
  \/ InferOthers \/ Cleanup \/ SendChunk \/ Ends

PollerWork == Polls \/ Records \/ PollStops

ParentWork ==
  \/ Fork \/ Arrived \/ Empty \/ CheckAlive \/ Drain \/ ReceiveChunk \/ JoinChild \/ ExitReading

CudaTrouble == WorkRaises \/ QueryRaises \/ PollFails \/ Killed \/ ForkFails \/ ExitReadingFails

CudaNext == ChildWork \/ PollerWork \/ ParentWork \/ UseMemory \/ CudaTrouble

-----------------------------------------------------------------------------
CudaTypeOK ==
  /\ memory \in 0..MaxMemory /\ pipe \in 0..Capacity
  /\ child.pc \in {"none", "baseline", "enter", "work", "stopping", "joining", "put", "gone"}
  /\ child.window \in 1..Len(Windows) + 1 /\ child.sent \in 0..Chunks
  /\ poller.pc \in {"none", "waiting", "recording", "stopped"}
  /\ child.pc \in {"none", "baseline", "gone"} => poller.pc = "none"
  /\ parent.got + pipe = child.sent
  /\ parent.pc \in {"exit", "done"} => ~Alive

(* "a transient peak must not be missed" (nvml.py:239): the sample a window   *)
(* leaves is at least every reading taken in it, the one that was in flight   *)
(* when the window closed included.                                           *)
ClosesWindow == child.pc = "joining" /\ Len(child'.samples) > Len(child.samples)

PeakIsCaptured == [][ClosesWindow => Last(child'.samples).used = Max(taken)]_cudaVars

(* What is reported ok is a whole measurement: no background reading failed   *)
(* (its peak would be that of the readings before), every stage is there in   *)
(* order, and the process_exit reading was taken after the teardown           *)
(* (run.py:863), when nothing of the child is left on the device.  And a      *)
(* child that sent its whole outcome and ended between two polls is heard     *)
(* (run.py:827): only one that died before is taken to have left none.        *)
Stages == <<"baseline">> \o Windows \o <<"cleanup", "process_exit">>

AnswerIsTrue ==
  /\ parent.pc = "done" /\ parent.answer.kind = "ok" =>
       /\ ~blind
       /\ [n \in DOMAIN parent.answer.samples |-> parent.answer.samples[n].stage] = Stages
       /\ Last(parent.answer.samples).used = 0
  /\ parent.pc = "exit" /\ parent.answer = NoOutcome => child.sent < Size(child.outcome)

(* The child is gone in the middle of sending its outcome. *)
CutOff == ~Alive /\ child.sent \in 1..Size(child.outcome) - 1
=============================================================================
