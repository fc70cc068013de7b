----------------------------- MODULE RowRenderer -----------------------------
(***************************************************************************)
(* One frame of the plugin (src/ofx/OpticalFlowPlugin.cpp): the host asks   *)
(* the query actions which frames the effect needs and whether it is an     *)
(* identity, then calls render, which picks an input, hands the rows of the *)
(* destination to the host's thread suite, and falls back - to transparent  *)
(* black for the tracker, to a serial pass for the ST map - when the suite  *)
(* fails.  The artist may abort at any time.                                *)
(*                                                                          *)
(* A destination that is not float RGBA is painted into a buffer of the     *)
(* plugin and converted block by block; the host only ever sees "host".     *)
(***************************************************************************)
EXTENDS Integers, FiniteSets

CONSTANTS
  Heights,             \* rows of the intersection of window and image
  MaxCPUs,             \* bound on what the suite's CPU query answers
  RowsPerAbortCheck    \* kRowsPerAbortCheck

ASSUME HeightAssumption == Heights \subseteq Nat \ {0}
ASSUME CPUAssumption == MaxCPUs \in Nat /\ RowsPerAbortCheck \in Nat \ {0}

VARIABLES
  request,   \* descriptor, routing parameters, connected clips, height, layout
  pc,        \* "asked", "rows", "serial", "done"
  painting,  \* the picture this pass paints
  fetched,   \* the <<clip, time>> whose image render holds, {} when none
  count,     \* threadCount the suite passes to its workers
  worker,    \* worker -> [state, next]: next row it has not painted
  suite,     \* "up", or "failed" once the thread suite threw in this pass
  lost,      \* suite failures of this render
  aborted,   \* what effect.abort() answers
  view,      \* row -> picture in the plugin's view
  host,      \* row -> picture in the host's image
  painters   \* row -> workers that painted it in this pass (history)

requestVars == <<request, fetched>>
vars == <<requestVars, pc, painting, count, worker, suite, lost, aborted, view, host, painters>>

Clips == {"source", "insert"}
Times == {"now", "reference"}   \* args.time and the reference frame

Copy(clip, time) == [what |-> "copy", clip |-> clip, time |-> time]
Black == [what |-> "black"]
Identity(geometry) == [what |-> "st", geometry |-> geometry]
Undefined == [what |-> "undefined"]

Pictures ==
  {Copy(c, t) : c \in Clips, t \in Times} \cup {Black, Identity("source"), Identity("output")}

Requests ==
  [kind : {"track", "st"}, output : {"composite", "warped"},
   insertTime : {"current", "reference"}, connected : SUBSET Clips,
   height : Heights, direct : BOOLEAN]

Threads == 0..(IF MaxCPUs = 0 THEN 0 ELSE MaxCPUs - 1)
Rows == 0..(request.height - 1)

-----------------------------------------------------------------------------
(* The query actions and render each choose clip and time from the routing  *)
(* parameters on their own.                                                 *)
InsertTime(r) == IF r.insertTime = "reference" THEN "reference" ELSE "now"

\* Bug variant: only the clip of the selected output, always at the rendered time.
getFramesNeeded_Pruned(r) ==
  IF r.kind = "st" \/ r.output = "composite" THEN {<<"source", "now">>} ELSE {<<"insert", "now">>}

getFramesNeeded(r) ==
  {<<"source", "now">>} \cup (IF r.kind = "track" THEN {<<"insert", InsertTime(r)>>} ELSE {})

(* The frames isIdentity lets the host show instead of calling render. *)
isIdentity(r) ==
  IF r.kind = "st" THEN {}
  ELSE IF r.output = "composite"
       THEN {<<c, "now">> : c \in r.connected \cap {"source"}}
       ELSE {<<c, InsertTime(r)>> : c \in r.connected \cap {"insert"}}

inputClip(r) == IF r.output = "composite" THEN "source" ELSE "insert"

inputTime(r) == IF r.output = "composite" \/ r.insertTime = "current" THEN "now" ELSE "reference"

-----------------------------------------------------------------------------
(* RowRenderer::multiThreadFunction: the rows of one worker. *)

rowsPerWorker(n) == (request.height + n - 1) \div n

LowerOf(a, b) == IF a < b THEN a ELSE b

first(id, n) == id * rowsPerWorker(n)

last(id, n) == LowerOf(request.height, first(id, n) + rowsPerWorker(n))

AtLeastOne(n) == IF n < 1 THEN 1 ELSE n

Waiting(n) == [id \in Threads |-> [state |-> IF id < n THEN "waiting" ELSE "done", next |-> 0]]

NoPainters == [y \in Rows |-> {}]

(* runRows: the CPU query, then the suite starts workers.  It may start fewer *)
(* than asked for, and either call may throw before a row is painted.         *)
Pass(picture) ==
  /\ painting' = picture
  /\ painters' = NoPainters
  /\ pc' = "rows"
  /\ \/ /\ \E cpus \in 0..MaxCPUs :
             \E n \in 1..AtLeastOne(LowerOf(cpus, request.height)) :
               count' = n /\ worker' = Waiting(n)
        /\ suite' = "up"
        /\ UNCHANGED lost
     \/ /\ suite' = "failed"
        /\ lost' = lost + 1
        /\ count' = 0
        /\ worker' = Waiting(0)

(* attach: a direct view is the host's own memory, a buffer starts as zeros. *)
Init ==
  /\ request \in {r \in Requests : r.kind = "st" => r.output = "composite"
                                                    /\ r.insertTime = "current"}
  /\ pc = "asked"
  /\ painting = Undefined
  /\ fetched = {}
  /\ count = 0
  /\ worker = Waiting(0)
  /\ suite = "up"
  /\ lost = 0
  /\ aborted = FALSE
  /\ view = [y \in Rows |-> IF request.direct THEN Undefined ELSE Black]
  /\ host = [y \in Rows |-> Undefined]
  /\ painters = NoPainters

(* render of the tracker: the input is fetched, or black takes its place. *)
RenderTrack ==
  LET r == request
  IN  /\ pc = "asked"
      /\ r.kind = "track"
      /\ \/ /\ inputClip(r) \in r.connected
            /\ fetched' = {<<inputClip(r), inputTime(r)>>}
            /\ Pass(Copy(inputClip(r), inputTime(r)))
         \/ /\ UNCHANGED fetched
            /\ Pass(Black)
      /\ UNCHANGED <<request, aborted, view, host>>

(* renderStMap: without a Source image the geometry of the Output is used. *)
RenderStMap ==
  /\ pc = "asked"
  /\ request.kind = "st"
  /\ \/ /\ "source" \in request.connected
        /\ fetched' = {<<"source", "now">>}
        /\ Pass(Identity("source"))
     \/ /\ UNCHANGED fetched
        /\ Pass(Identity("output"))
  /\ UNCHANGED <<request, aborted, view, host>>

-----------------------------------------------------------------------------
(* One worker.  A block is written to the view and back to the host before   *)
(* the next abort check; blocks of two workers are disjoint, so is the step. *)
Block(id) ==
  {y \in Rows : worker[id].next <= y /\ y < LowerOf(worker[id].next + RowsPerAbortCheck,
                                                     last(id, count))}

Begin(id) ==
  /\ pc = "rows"
  /\ worker[id].state = "waiting"
  /\ suite = "up"
  /\ worker' = [worker EXCEPT ![id] = [state |-> "running", next |-> first(id, count)]]
  /\ UNCHANGED <<requestVars, pc, painting, count, suite, lost, aborted, view, host, painters>>

Paint(id) ==
  /\ pc \in {"rows", "serial"}
  /\ worker[id].state = "running"
  /\ worker[id].next < last(id, count)
  /\ ~aborted
  /\ view' = [y \in Rows |-> IF y \in Block(id) THEN painting ELSE view[y]]
  /\ host' = [y \in Rows |-> IF y \in Block(id) THEN view'[y] ELSE host[y]]
  /\ painters' = [y \in Rows |-> IF y \in Block(id) THEN painters[y] \cup {id} ELSE painters[y]]
  /\ worker' = [worker EXCEPT ![id].next = LowerOf(@ + RowsPerAbortCheck, last(id, count))]
  /\ UNCHANGED <<requestVars, pc, painting, count, suite, lost, aborted>>

Returns(id) == worker' = [worker EXCEPT ![id].state = "done"]

\* Bug variant: an aborted worker goes round its loop without advancing.
Return_Continues(id) ==
  /\ worker[id].state = "running"
  /\ \/ worker[id].next >= last(id, count) /\ Returns(id)
     \/ aborted /\ UNCHANGED worker
  /\ UNCHANGED <<requestVars, pc, painting, count, suite, lost, aborted, view, host, painters>>

Return(id) ==
  /\ worker[id].state = "running"
  /\ worker[id].next >= last(id, count) \/ aborted
  /\ Returns(id)
  /\ UNCHANGED <<requestVars, pc, painting, count, suite, lost, aborted, view, host, painters>>

(* The suite throws after some workers ran: those it has not started never   *)
(* run, those it has started it joins.                                       *)
SuiteFails ==
  /\ pc = "rows"
  /\ suite = "up"
  /\ suite' = "failed"
  /\ lost' = lost + 1
  /\ worker' = [id \in Threads |->
                  IF worker[id].state = "waiting" THEN [worker[id] EXCEPT !.state = "done"]
                  ELSE worker[id]]
  /\ UNCHANGED <<requestVars, pc, painting, count, aborted, view, host, painters>>

Joined == \A id \in Threads : worker[id].state = "done"

Finish ==
  /\ pc \in {"rows", "serial"}
  /\ Joined
  /\ pc = "serial" \/ suite = "up"
  /\ pc' = "done"
  /\ UNCHANGED <<requestVars, painting, count, worker, suite, lost, aborted, view, host, painters>>

(* The exception of a copy is answered with black, that of black is logged. *)

FallBackToBlack ==
  /\ pc = "rows"
  /\ Joined
  /\ suite = "failed"
  /\ request.kind = "track"
  /\ painting # Black
  /\ Pass(Black)
  /\ UNCHANGED <<requestVars, aborted, view, host>>

GiveUp ==
  /\ pc = "rows"
  /\ Joined
  /\ suite = "failed"
  /\ painting = Black
  /\ pc' = "done"
  /\ UNCHANGED <<requestVars, painting, count, worker, suite, lost, aborted, view, host, painters>>

(* renderer.multiThreadFunction(0, 1) in the calling thread, then rethrown.  *)
\* Bug variant: the serial pass takes the rows of the worker that failed.
FinishSerially_OwnShare ==
  /\ pc = "rows"
  /\ Joined
  /\ suite = "failed"
  /\ request.kind = "st"
  /\ pc' = "serial"
  /\ count' = AtLeastOne(count)
  /\ worker' = [worker EXCEPT ![0] = [state |-> "running", next |-> 0]]
  /\ painters' = NoPainters
  /\ UNCHANGED <<requestVars, painting, suite, lost, aborted, view, host>>

FinishSerially ==
  /\ pc = "rows"
  /\ Joined
  /\ suite = "failed"
  /\ request.kind = "st"
  /\ pc' = "serial"
  /\ count' = 1
  /\ worker' = [worker EXCEPT ![0] = [state |-> "running", next |-> 0]]
  /\ painters' = NoPainters
  /\ UNCHANGED <<requestVars, painting, suite, lost, aborted, view, host>>

Abort ==
  /\ ~aborted
  /\ pc # "done"
  /\ aborted' = TRUE
  /\ UNCHANGED <<requestVars, pc, painting, count, worker, suite, lost, view, host, painters>>

WorkerStep(id) == Begin(id) \/ Paint(id) \/ Return(id)

CallerStep ==
  RenderTrack \/ RenderStMap \/ Finish \/ FallBackToBlack \/ GiveUp \/ FinishSerially

(* render has returned; the host may still look at the image. *)
Returned == pc = "done" /\ UNCHANGED vars

Next == CallerStep \/ (\E id \in Threads : WorkerStep(id)) \/ SuiteFails \/ Abort \/ Returned

Spec == Init /\ [][Next]_vars

(* The calling thread runs, and the host's suite runs every worker it starts. *)
FairSpec == Spec /\ WF_vars(CallerStep) /\ \A id \in Threads : WF_vars(WorkerStep(id))

-----------------------------------------------------------------------------
Unfinished == request.kind = "track" /\ suite = "failed"

(* A render that was not aborted returns one whole picture: however many CPUs *)
(* the host reports, however few workers it starts and wherever its suite     *)
(* throws, no row is left undefined and none shows the picture of an earlier  *)
(* pass - all of the copy, all black or all of the identity map.  Only two    *)
(* failures in one render of the tracker, or one under black, give that up.   *)
(* And no row has two painters in one pass: the view is shared without a lock.*)
WholeFrame ==
  /\ \A y \in Rows : Cardinality(painters[y]) <= 1
  /\ pc = "done" /\ ~aborted /\ ~Unfinished =>
       \E picture \in Pictures :
         /\ \A y \in Rows : host[y] = picture
         /\ request.kind = "st" <=> picture.what = "st"
         /\ picture.what = "st" => (picture.geometry = "source" <=> fetched # {})
         /\ picture = Black <=> request.kind = "track" /\ (fetched = {} \/ lost > 0)

(* The frame render fetches is one getFramesNeeded announced, and where      *)
(* isIdentity offered the host a shortcut, the rows rendered instead are     *)
(* those of the very frame it offered (or black where the host failed).      *)
QueriesAgree ==
  /\ fetched \subseteq getFramesNeeded(request)
  /\ \A offer \in isIdentity(request) : \A y \in Rows :
       host[y].what = "copy" => host[y] = Copy(offer[1], offer[2])

(* Every render returns: an abort, a suite that fails once or twice and any  *)
(* number of idle workers included.                                          *)
RenderReturns == <>(pc = "done")
=============================================================================
