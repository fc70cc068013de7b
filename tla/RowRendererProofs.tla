-------------------------- MODULE RowRendererProofs --------------------------
(***************************************************************************)
(* A frame of any height, for any number of threads, any length of a block *)
(* and wherever the host's suite throws: every row is painted once, with   *)
(* one picture, and that picture is the one the queries announced.         *)
(***************************************************************************)
EXTENDS RowRenderer, FiniteSetTheorems, TLAPS

Share(id) == {y \in Rows : first(id, count) <= y /\ y < last(id, count)}

TypeOK ==
  /\ request \in Requests
  /\ pc \in {"asked", "rows", "serial", "done"}
  /\ count \in Nat /\ 0..count - 1 \subseteq Threads
  /\ worker \in [Threads -> [state : {"waiting", "running", "done"}, next : Nat]]
  /\ suite \in {"up", "failed"} /\ lost \in Nat /\ aborted \in BOOLEAN
  /\ host \in [Rows -> Pictures \cup {Undefined}]
  /\ painters \in [Rows -> SUBSET Threads]

(* What is painted is what the request routes to, or a fallback for it. *)
Routed ==
  LET r == request
      input == <<inputClip(r), inputTime(r)>>
  IN  /\ r.kind = "st" => r.output = "composite" /\ r.insertTime = "current"
      /\ suite = "failed" => lost > 0
      /\ pc = "asked" => painting = Undefined /\ fetched = {} /\ lost = 0 /\ suite = "up"
      /\ pc # "asked" /\ r.kind = "st" =>
           \/ painting = Identity("source") /\ fetched = {<<"source", "now">>}
           \/ painting = Identity("output") /\ fetched = {}
      /\ pc # "asked" /\ r.kind = "track" =>
           /\ fetched \in {{}, {input}}
           /\ fetched = {input} => input[1] \in r.connected
           /\ \/ painting = Black /\ (fetched = {} \/ lost > 0)
              \/ painting = Copy(input[1], input[2]) /\ fetched = {input}
                   /\ (suite = "up" => lost = 0)

(* Whatever pass left a row in the host's image, it was one of this request. *)
Shown ==
  \A y \in Rows :
    host[y].what = "copy" =>
      host[y] = Copy(inputClip(request), inputTime(request)) /\ request.kind = "track"

(* Rows are painted by the worker that owns them, with the picture of the pass. *)
Painted ==
  \A y \in Rows :
    /\ \A id \in painters[y] : id \in 0..count - 1 /\ y \in Share(id)
    /\ painters[y] # {} => host[y] = painting

(* All rows are given to a worker that will start or has started. *)
Covering ==
  \/ pc = "rows" /\ suite = "up"
  \/ pc = "serial"
  \/ pc = "done" /\ (suite = "up" \/ request.kind = "st")

(* A worker has painted what it has gone through; one that is done, all of it. *)
Progress(id) ==
  /\ worker[id].state = "waiting" => pc = "rows" /\ suite = "up" /\ id \in 0..count - 1
  /\ worker[id].state = "running" =>
       /\ pc \in {"rows", "serial"}
       /\ id \in 0..count - 1
       /\ first(id, count) <= worker[id].next
       /\ \A y \in Share(id) : y < worker[id].next => id \in painters[y]
  /\ worker[id].state = "done" /\ id \in 0..count - 1 /\ Covering /\ ~aborted =>
       \A y \in Share(id) : id \in painters[y]

IInv ==
  /\ TypeOK
  /\ Routed
  /\ Shown
  /\ Painted
  /\ Covering => count >= 1
  /\ pc = "serial" \/ (pc = "done" /\ suite = "failed" /\ request.kind = "st") => count = 1
  /\ pc = "serial" => request.kind = "st"
  /\ pc = "done" => \A id \in Threads : worker[id].state = "done"
  /\ \A id \in Threads : Progress(id)

-----------------------------------------------------------------------------
(* The division of the rows. *)

LEMMA Division ==
  ASSUME NEW h \in Nat \ {0}, NEW n \in Nat \ {0}
  PROVE  LET per == (h + n - 1) \div n IN per \in Nat \ {0} /\ h <= n * per
OBVIOUS

LEMMA Heads ==
  ASSUME request \in Requests
  PROVE  request.height \in Nat \ {0} /\ Rows \subseteq Nat
<1>1. request.height \in Heights
  BY DEF Requests
<1>2. request.height \in Nat \ {0}
  BY <1>1, HeightAssumption
<1> QED BY <1>2 DEF Rows

LEMMA ThreadNumbers ==
  /\ Threads \subseteq Nat /\ 0 \in Threads
  /\ \A k \in 0..MaxCPUs : \A h \in Nat \ {0} : \A n \in 1..AtLeastOne(LowerOf(k, h)) :
       n \in Nat \ {0} /\ 0..n - 1 \subseteq Threads
BY CPUAssumption DEF Threads, AtLeastOne, LowerOf

(* The bounds of a worker are numbers. *)
LEMMA Bounds ==
  ASSUME request \in Requests, NEW n \in Nat \ {0}, NEW id \in Nat
  PROVE  first(id, n) \in Nat /\ last(id, n) \in Nat
<1>1. rowsPerWorker(n) \in Nat /\ request.height \in Nat
  BY Heads, Division DEF rowsPerWorker
<1>2. id * rowsPerWorker(n) \in Nat
  BY <1>1
<1> QED BY <1>1, <1>2 DEF first, last, LowerOf

(* Every row has an owner, and only one. *)
LEMMA Owners ==
  ASSUME request \in Requests, count \in Nat \ {0}
  PROVE  /\ \A y \in Rows : \E id \in 0..count - 1 : y \in Share(id)
         /\ \A y \in Rows : \A i, j \in 0..count - 1 :
              y \in Share(i) /\ y \in Share(j) => i = j
<1> DEFINE per == rowsPerWorker(count)
           h == request.height
<1>1. per \in Nat \ {0} /\ h <= count * per /\ h \in Nat \ {0}
  BY Heads, Division DEF rowsPerWorker
<1>2. \A id, y : y \in Share(id) <=> y \in 0..h - 1 /\ id * per <= y
                                      /\ y < LowerOf(h, id * per + per)
  BY DEF Share, first, last, Rows
<1> HIDE DEF per, h
<1>3. ASSUME NEW y \in 0..h - 1 PROVE \E id \in 0..count - 1 : y \in Share(id)
  <2> DEFINE id == y \div per
  <2>1. id \in Nat /\ per * id <= y /\ y < per * id + per
    BY <1>1
  <2>2. id < count
    BY <1>1, <2>1
  <2>3. id * per = per * id /\ id * per \in Nat
    BY <1>1, <2>1
  <2> HIDE DEF id
  <2>4. y < LowerOf(h, id * per + per)
    BY <1>1, <2>1, <2>3 DEF LowerOf
  <2>5. y \in Share(id)
    BY <1>2, <2>1, <2>3, <2>4
  <2> QED BY <2>1, <2>2, <2>5
<1>4. ASSUME NEW i \in Nat, NEW j \in Nat, NEW y \in 0..h - 1, i < j,
             y \in Share(i), y \in Share(j)
      PROVE  FALSE
  <2>1. i * per + per <= j * per
    BY <1>1, <1>4
  <2>2. i * per \in Nat /\ j * per \in Nat
    BY <1>1
  <2>3. y < i * per + per /\ j * per <= y
    BY <1>1, <1>2, <1>4, <2>2 DEF LowerOf
  <2> QED BY <1>1, <2>1, <2>2, <2>3
<1>5. \A y \in 0..h - 1 : \A i, j \in Nat : y \in Share(i) /\ y \in Share(j) => i = j
  BY <1>4
<1>6. 0..count - 1 \subseteq Nat
  OBVIOUS
<1> QED BY <1>3, <1>5, <1>6 DEF Rows, h

-----------------------------------------------------------------------------
(* The steps. *)

(* A suite that starts n workers has the others done. *)
LEMMA WaitingWorkers ==
  ASSUME NEW n \in Nat
  PROVE  /\ Waiting(n) \in [Threads -> [state : {"waiting", "running", "done"}, next : Nat]]
         /\ \A id \in Threads : Waiting(n)[id].state = IF id \in 0..n - 1 THEN "waiting" ELSE "done"
<1>1. \A id \in Threads : id \in Nat /\ (id \in 0..n - 1 <=> id < n)
  BY ThreadNumbers
<1> QED BY <1>1 DEF Waiting

LEMMA Initially == Init => IInv
<1> SUFFICES ASSUME Init PROVE IInv
  OBVIOUS
<1>1. request \in Requests
  BY DEF Init
<1>2. TypeOK
  <2>1. worker = Waiting(0) /\ count = 0 /\ pc = "asked" /\ suite = "up" /\ lost = 0 /\ aborted = FALSE
    BY DEF Init
  <2>2. host \in [Rows -> Pictures \cup {Undefined}]
    BY DEF Init
  <2>3. painters \in [Rows -> SUBSET Threads]
    BY DEF Init, NoPainters
  <2>4. 0..count - 1 \subseteq Threads
    BY <2>1
  <2> QED BY <1>1, <2>1, <2>2, <2>3, <2>4, WaitingWorkers DEF TypeOK
<1>3. Routed
  BY DEF Init, Routed
<1>4. Shown
  BY DEF Init, Shown, Undefined
<1>5. Painted
  BY DEF Init, Painted, NoPainters
<1>6. \A id \in Threads : Progress(id)
  <2>1. 0..count - 1 = {} /\ worker = Waiting(0) /\ 0..0 - 1 = {}
    BY DEF Init
  <2>2. \A id \in Threads : worker[id].state = "done"
    BY <2>1, WaitingWorkers
  <2> QED BY <2>1, <2>2 DEF Progress
<1> QED BY <1>2, <1>3, <1>4, <1>5, <1>6 DEF IInv, Init, Covering

(* What a new pass is given: nothing painted, its picture, the workers the *)
(* suite starts or none.                                                   *)
LEMMA PassStarts ==
  ASSUME TypeOK, NEW picture, Pass(picture), UNCHANGED <<request, aborted, view, host>>
  PROVE  /\ TypeOK' /\ Painted'
         /\ pc' = "rows" /\ painting' = picture
         /\ suite' = "up" => count' >= 1 /\ lost' = lost
         /\ suite' = "failed" => lost' = lost + 1
         /\ \A id \in Threads : Progress(id)'
<1> DEFINE n == count'
<1>1. Rows' = Rows /\ request \in Requests /\ request.height \in Nat \ {0}
  BY Heads DEF TypeOK, Rows
<1>2. CASE suite' = "up"
  <2>1. PICK k \in 0..MaxCPUs :
          \E m \in 1..AtLeastOne(LowerOf(k, request.height)) : count' = m /\ worker' = Waiting(m)
    BY <1>2 DEF Pass
  <2>2. /\ count' \in Nat \ {0} /\ 0..count' - 1 \subseteq Threads
        /\ worker' = Waiting(count')
    BY <2>1, <1>1, ThreadNumbers
  <2>3. worker' \in [Threads -> [state : {"waiting", "running", "done"}, next : Nat]]
    BY <2>2, WaitingWorkers
  <2>4. lost' = lost /\ painting' = picture /\ pc' = "rows" /\ painters' = NoPainters
    BY <1>2 DEF Pass
  <2>5. \A id \in Threads : Progress(id)'
    BY <2>2, <2>4, <1>2, WaitingWorkers DEF Progress
  <2>6. painters' = [y \in Rows' |-> {}]
    BY <1>1, <2>4 DEF NoPainters
  <2>7. TypeOK'
    BY <1>1, <1>2, <2>2, <2>3, <2>4, <2>6 DEF TypeOK
  <2>8. Painted'
    BY <2>6 DEF Painted
  <2> QED BY <1>2, <2>2, <2>4, <2>5, <2>7, <2>8
<1>3. CASE suite' = "failed"
  <2>1. count' = 0 /\ worker' = Waiting(0) /\ lost' = lost + 1
    BY <1>3 DEF Pass
  <2>2. 0..count' - 1 \subseteq Threads
    BY <2>1
  <2>3. worker' \in [Threads -> [state : {"waiting", "running", "done"}, next : Nat]]
    BY <2>1, WaitingWorkers
  <2>4. painting' = picture /\ pc' = "rows" /\ painters' = NoPainters
    BY DEF Pass
  <2>5. \A id \in Threads : Progress(id)'
    BY <2>1, <2>2, <2>4, <1>3, WaitingWorkers DEF Progress
  <2>6. painters' = [y \in Rows' |-> {}]
    BY <1>1, <2>4 DEF NoPainters
  <2>7. TypeOK'
    BY <1>1, <1>3, <2>1, <2>2, <2>3, <2>4, <2>6 DEF TypeOK
  <2>8. Painted'
    BY <2>6 DEF Painted
  <2> QED BY <1>3, <2>1, <2>4, <2>5, <2>7, <2>8
<1> QED BY <1>2, <1>3 DEF Pass

LEMMA StartsTrack == IInv /\ RenderTrack => IInv'
<1> SUFFICES ASSUME IInv, RenderTrack PROVE IInv'
  OBVIOUS
<1> DEFINE r == request
           input == <<inputClip(r), inputTime(r)>>
<1>1. UNCHANGED <<request, aborted, view, host>> /\ pc = "asked" /\ request.kind = "track"
  BY DEF RenderTrack
<1>2. lost = 0 /\ fetched = {}
  BY <1>1 DEF IInv, Routed
<1>3. CASE /\ inputClip(r) \in r.connected
           /\ fetched' = {input}
           /\ Pass(Copy(input[1], input[2]))
  <2>1. Routed'
    BY <1>1, <1>2, <1>3, PassStarts DEF IInv, Routed, inputClip, inputTime
  <2> QED BY <1>1, <1>3, <2>1, PassStarts DEF IInv, Shown, Covering, Rows
<1>4. CASE UNCHANGED fetched /\ Pass(Black)
  <2>1. /\ request' = request /\ request.kind = "track"
        /\ fetched' = {} /\ painting' = Black /\ pc' = "rows"
        /\ suite' = "failed" => lost' > 0
    BY <1>1, <1>2, <1>4, PassStarts DEF IInv
  <2>2. Routed'
    BY <2>1 DEF Routed
  <2> QED BY <1>1, <1>4, <2>2, PassStarts DEF IInv, Shown, Covering, Rows
<1> QED BY <1>3, <1>4 DEF RenderTrack

LEMMA StartsStMap == IInv /\ RenderStMap => IInv'
<1> SUFFICES ASSUME IInv, RenderStMap PROVE IInv'
  OBVIOUS
<1>1. UNCHANGED <<request, aborted, view, host>> /\ pc = "asked" /\ request.kind = "st"
  BY DEF RenderStMap
<1>2. lost = 0 /\ fetched = {}
  BY <1>1 DEF IInv, Routed
<1>3. PICK picture :
        /\ Pass(picture)
        /\ \/ picture = Identity("source") /\ fetched' = {<<"source", "now">>}
           \/ picture = Identity("output") /\ fetched' = {}
  BY <1>2 DEF RenderStMap
<1>4. /\ painting' = picture /\ pc' = "rows"
      /\ suite' = "failed" => lost' > 0
  BY <1>1, <1>2, <1>3, PassStarts DEF IInv
<1>5. /\ request' = request /\ request'.kind = "st"
      /\ request'.output = "composite" /\ request'.insertTime = "current"
  BY <1>1 DEF IInv, Routed
<1>6. Routed'
  BY <1>3, <1>4, <1>5 DEF Routed
<1> QED BY <1>1, <1>3, <1>4, <1>6, PassStarts DEF IInv, Shown, Covering, Rows

LEMMA FallsBack == IInv /\ FallBackToBlack => IInv'
<1> SUFFICES ASSUME IInv, FallBackToBlack PROVE IInv'
  OBVIOUS
<1>1. /\ UNCHANGED <<request, fetched, aborted, view, host>>
      /\ pc = "rows" /\ request.kind = "track" /\ suite = "failed" /\ Pass(Black)
  BY DEF FallBackToBlack, requestVars
<1>2. lost \in Nat /\ lost > 0
  BY <1>1 DEF IInv, Routed, TypeOK
<1>3. /\ TypeOK' /\ Painted'
      /\ pc' = "rows" /\ painting' = Black
      /\ suite' = "up" => count' >= 1 /\ lost' = lost
      /\ suite' = "failed" => lost' = lost + 1
      /\ \A id \in Threads : Progress(id)'
  BY <1>1, PassStarts DEF IInv
<1>4. suite' \in {"up", "failed"} /\ lost' > 0
  BY <1>2, <1>3 DEF TypeOK
<1>5. Routed'
  BY <1>1, <1>3, <1>4 DEF IInv, Routed
<1>6. Shown' /\ (Covering' => count' >= 1)
  BY <1>1, <1>3 DEF IInv, Shown, Covering, Rows
<1> QED BY <1>3, <1>5, <1>6 DEF IInv

(* The steps that leave the picture and the rows as they are. *)
LEMMA SamePicture ==
  ASSUME IInv, UNCHANGED <<requestVars, painting, count, lost, view, host, painters>>,
         suite' = suite, pc # "asked", pc' # "asked"
  PROVE  /\ Routed' /\ Shown' /\ Painted'
         /\ Rows' = Rows /\ \A id : Share(id)' = Share(id)
BY DEF IInv, requestVars, Routed, Shown, Painted, Rows, Share, first, last, rowsPerWorker

LEMMA Finishes == IInv /\ Finish => IInv'
<1> SUFFICES ASSUME IInv, Finish PROVE IInv'
  OBVIOUS
<1>1. /\ UNCHANGED <<requestVars, painting, count, worker, suite, lost, aborted, view, host, painters>>
      /\ pc' = "done" /\ pc \in {"rows", "serial"} /\ (pc = "serial" \/ suite = "up")
      /\ \A id \in Threads : worker[id].state = "done"
  BY DEF Finish, Joined
<1>2. /\ Routed' /\ Shown' /\ Painted' /\ Rows' = Rows /\ \A id : Share(id)' = Share(id)
  BY <1>1, SamePicture
<1>3. TypeOK'
  BY <1>1, <1>2 DEF IInv, TypeOK, requestVars
<1>4. Covering
  BY <1>1 DEF Covering
<1>5. \A id \in Threads : Progress(id)'
  BY <1>1, <1>2, <1>4 DEF IInv, Progress
<1> QED BY <1>1, <1>2, <1>3, <1>4, <1>5 DEF IInv, Covering, requestVars

LEMMA GivesUp == IInv /\ GiveUp => IInv'
<1> SUFFICES ASSUME IInv, GiveUp PROVE IInv'
  OBVIOUS
<1>1. /\ UNCHANGED <<requestVars, painting, count, worker, suite, lost, aborted, view, host, painters>>
      /\ pc' = "done" /\ pc = "rows" /\ suite = "failed" /\ painting = Black
      /\ \A id \in Threads : worker[id].state = "done"
  BY DEF GiveUp, Joined
<1>2. /\ Routed' /\ Shown' /\ Painted' /\ Rows' = Rows /\ \A id : Share(id)' = Share(id)
  BY <1>1, SamePicture
<1>3. TypeOK'
  BY <1>1, <1>2 DEF IInv, TypeOK, requestVars
<1>4. request.kind = "track"
  BY <1>1 DEF IInv, Routed, Identity, Black, TypeOK, Requests
<1>5. ~Covering'
  BY <1>1, <1>4 DEF Covering, requestVars
<1>6. \A id \in Threads : Progress(id)'
  BY <1>1, <1>5 DEF IInv, Progress
<1> QED BY <1>1, <1>2, <1>3, <1>4, <1>5, <1>6 DEF IInv, requestVars

LEMMA FinishesSerially == IInv /\ FinishSerially => IInv'
<1> SUFFICES ASSUME IInv, FinishSerially PROVE IInv'
  OBVIOUS
<1>1. /\ UNCHANGED <<requestVars, painting, suite, lost, aborted, view, host>>
      /\ pc = "rows" /\ suite = "failed" /\ request.kind = "st"
      /\ pc' = "serial" /\ count' = 1 /\ painters' = NoPainters
      /\ worker' = [worker EXCEPT ![0] = [state |-> "running", next |-> 0]]
      /\ \A id \in Threads : worker[id].state = "done"
  BY DEF FinishSerially, Joined
<1>2. Rows' = Rows /\ painters' = [y \in Rows' |-> {}] /\ Rows \subseteq Nat
  BY <1>1, Heads DEF requestVars, Rows, NoPainters, IInv, TypeOK
<1>3. 0..count' - 1 = {0} /\ 0 \in Threads
  BY <1>1, ThreadNumbers
<1>4. \A id \in Threads : worker'[id] = IF id = 0 THEN [state |-> "running", next |-> 0]
                                        ELSE worker[id]
  BY <1>1 DEF IInv, TypeOK
<1>5. TypeOK'
  BY <1>1, <1>2, <1>3 DEF IInv, TypeOK, requestVars
<1>6. Routed' /\ Shown' /\ Painted'
  BY <1>1, <1>2 DEF IInv, Routed, Shown, Painted, requestVars
<1>7. first(0, 1)' = 0
  <2>1. request.height \in Nat \ {0}
    BY Heads DEF IInv, TypeOK
  <2>2. rowsPerWorker(1)' \in Nat
    BY <1>1, <2>1 DEF rowsPerWorker, requestVars
  <2> QED BY <2>2 DEF first
<1>8. Progress(0)'
  BY <1>1, <1>2, <1>3, <1>4, <1>7 DEF Progress, Share
<1>9. ASSUME NEW id \in Threads, id # 0 PROVE Progress(id)'
  BY <1>1, <1>3, <1>4, <1>9 DEF Progress
<1> QED BY <1>1, <1>5, <1>6, <1>8, <1>9 DEF IInv, Covering, requestVars

(* A worker starts. *)
LEMMA Begins ==
  ASSUME IInv, NEW id \in Threads, Begin(id)
  PROVE  IInv'
<1>1. /\ UNCHANGED <<requestVars, pc, painting, count, suite, lost, aborted, view, host, painters>>
      /\ pc = "rows" /\ suite = "up" /\ worker[id].state = "waiting"
      /\ worker' = [worker EXCEPT ![id] = [state |-> "running", next |-> first(id, count)]]
  BY DEF Begin
<1>2. /\ Routed' /\ Shown' /\ Painted' /\ Rows' = Rows /\ \A i : Share(i)' = Share(i)
      /\ request' = request
  BY <1>1, SamePicture DEF requestVars
<1>3. count \in Nat \ {0} /\ id \in Nat
  BY <1>1, ThreadNumbers DEF IInv, TypeOK, Covering
<1>4. first(id, count) \in Nat
  BY <1>3, Bounds DEF IInv, TypeOK
<1>5. \A i \in Threads :
        worker'[i] = IF i = id THEN [state |-> "running", next |-> first(id, count)] ELSE worker[i]
  BY <1>1 DEF IInv, TypeOK
<1>6. TypeOK'
  BY <1>1, <1>2, <1>4 DEF IInv, TypeOK
<1>7. \A i : first(i, count)' = first(i, count)
  BY <1>1, <1>2 DEF first, rowsPerWorker
<1>8. \A i \in Threads : Progress(i)'
  <2>1. Progress(id)'
    BY <1>1, <1>2, <1>4, <1>5, <1>7, Heads DEF IInv, Progress, Share, TypeOK
  <2>2. ASSUME NEW i \in Threads, i # id PROVE Progress(i)'
    BY <1>1, <1>2, <1>5, <1>7, <2>2 DEF IInv, Progress, Covering
  <2> QED BY <2>1, <2>2
<1> QED BY <1>1, <1>2, <1>3, <1>6, <1>8 DEF IInv

(* A worker paints a block of its rows. *)
LEMMA Paints ==
  ASSUME IInv, NEW id \in Threads, Paint(id)
  PROVE  IInv'
<1> DEFINE to == LowerOf(worker[id].next + RowsPerAbortCheck, last(id, count))
<1>1. /\ UNCHANGED <<requestVars, pc, painting, count, suite, lost, aborted>>
      /\ pc \in {"rows", "serial"} /\ worker[id].state = "running"
      /\ worker[id].next < last(id, count)
      /\ view' = [y \in Rows |-> IF y \in Block(id) THEN painting ELSE view[y]]
      /\ host' = [y \in Rows |-> IF y \in Block(id) THEN view'[y] ELSE host[y]]
      /\ painters' = [y \in Rows |-> IF y \in Block(id) THEN painters[y] \cup {id} ELSE painters[y]]
      /\ worker' = [worker EXCEPT ![id].next = to]
  BY DEF Paint
<1>2. /\ Rows' = Rows /\ Rows \subseteq Nat /\ request' = request
      /\ \A i : first(i, count)' = first(i, count) /\ last(i, count)' = last(i, count)
      /\ \A i : Share(i)' = Share(i)
  BY <1>1, Heads DEF requestVars, Rows, first, last, rowsPerWorker, IInv, TypeOK, Share
<1>3. id \in 0..count - 1 /\ id \in Nat /\ count \in Nat \ {0}
  BY <1>1, ThreadNumbers DEF IInv, TypeOK, Progress
<1>4. first(id, count) \in Nat /\ last(id, count) \in Nat /\ worker[id].next \in Nat
  BY <1>3, Bounds DEF IInv, TypeOK
<1>5. to \in Nat /\ worker[id].next <= to /\ to <= last(id, count)
  BY <1>1, <1>4, CPUAssumption DEF LowerOf
<1>6. Block(id) = {y \in Rows : worker[id].next <= y /\ y < to}
  BY DEF Block
<1>7. \A i \in Threads : worker'[i] = IF i = id THEN [state |-> "running", next |-> to] ELSE worker[i]
  <2>1. worker[id] = [state |-> "running", next |-> worker[id].next]
    BY <1>1 DEF IInv, TypeOK
  <2> HIDE DEF to
  <2> QED BY <1>1, <2>1 DEF IInv, TypeOK
<1> HIDE DEF to
<1>8. first(id, count) <= worker[id].next
  BY <1>1 DEF IInv, Progress
<1>9. Block(id) \subseteq Share(id)
  <2>1. ASSUME NEW y \in Rows, worker[id].next <= y, y < to
        PROVE  first(id, count) <= y /\ y < last(id, count)
    BY <1>2, <1>4, <1>5, <1>8, <2>1
  <2> QED BY <1>6, <2>1 DEF Share
<1>10. painting \in Pictures
  BY <1>1 DEF IInv, Routed, Pictures, TypeOK, Requests, Clips, Times, inputClip, inputTime
<1>11. TypeOK'
  <2>1. worker' \in [Threads -> [state : {"waiting", "running", "done"}, next : Nat]]
    BY <1>1, <1>5 DEF IInv, TypeOK
  <2>2. host' \in [Rows -> Pictures \cup {Undefined}]
    BY <1>1, <1>10 DEF IInv, TypeOK
  <2>3. painters' \in [Rows -> SUBSET Threads]
    BY <1>1 DEF IInv, TypeOK
  <2> QED BY <1>1, <1>2, <2>1, <2>2, <2>3 DEF IInv, TypeOK
<1>12. Routed'
  BY <1>1, <1>2 DEF IInv, Routed, requestVars
<1>13. Shown'
  <2>1. painting.what = "copy" =>
          painting = Copy(inputClip(request), inputTime(request)) /\ request.kind = "track"
    BY <1>1 DEF IInv, Routed, TypeOK, Requests, Identity, Black
  <2>2. \A y \in Rows : host'[y] = IF y \in Block(id) THEN painting ELSE host[y]
    BY <1>1
  <2> QED BY <1>1, <1>2, <2>1, <2>2 DEF IInv, Shown
<1>14. Painted'
  BY <1>1, <1>2, <1>3, <1>9 DEF IInv, Painted
<1>15. \A i \in Threads : Progress(i)'
  <2>1. Progress(id)'
    <3>1. \A y \in Share(id) : y < to => id \in painters'[y]
      BY <1>1, <1>2, <1>4, <1>5, <1>6 DEF IInv, Progress, Share
    <3>2. first(id, count) <= to
      BY <1>4, <1>5, <1>8
    <3> QED BY <1>1, <1>2, <1>3, <1>7, <3>1, <3>2 DEF Progress
  <2>2. ASSUME NEW i \in Threads, i # id PROVE Progress(i)'
    <3>1. \A y \in Rows : painters[y] \subseteq painters'[y]
      BY <1>1
    <3>2. Share(i) \subseteq Rows
      BY DEF Share
    <3> QED BY <1>1, <1>2, <1>7, <2>2, <3>1, <3>2 DEF IInv, Progress, Covering, requestVars
  <2> QED BY <2>1, <2>2
<1>16. pc' # "done" /\ (Covering' => count' >= 1)
  BY <1>1 DEF IInv, Covering
<1> QED BY <1>1, <1>2, <1>11, <1>12, <1>13, <1>14, <1>15, <1>16 DEF IInv

(* A worker returns: it is through its rows, or the render is aborted. *)
LEMMA WorkerReturns ==
  ASSUME IInv, NEW id \in Threads, Return(id)
  PROVE  IInv'
<1>1. /\ UNCHANGED <<requestVars, pc, painting, count, suite, lost, aborted, view, host, painters>>
      /\ worker[id].state = "running"
      /\ worker[id].next >= last(id, count) \/ aborted
      /\ worker' = [worker EXCEPT ![id].state = "done"]
  BY DEF Return, Returns
<1>2. id \in 0..count - 1 /\ id \in Nat /\ count \in Nat \ {0} /\ pc \in {"rows", "serial"}
  BY <1>1, ThreadNumbers DEF IInv, TypeOK, Progress
<1>3. /\ Routed' /\ Shown' /\ Painted' /\ Rows' = Rows /\ \A i : Share(i)' = Share(i)
      /\ \A i : first(i, count)' = first(i, count)
  BY <1>1, <1>2, SamePicture DEF requestVars, first, rowsPerWorker
<1>4. \A i \in Threads :
        worker'[i] = IF i = id THEN [state |-> "done", next |-> worker[id].next] ELSE worker[i]
  BY <1>1 DEF IInv, TypeOK
<1>5. TypeOK'
  BY <1>1, <1>3 DEF IInv, TypeOK, requestVars
<1>6. ~aborted => \A y \in Share(id) : id \in painters[y]
  <2>1. last(id, count) \in Nat /\ worker[id].next \in Nat
    BY <1>2, Bounds DEF IInv, TypeOK
  <2>2. \A y \in Share(id) : y \in Nat /\ y < last(id, count)
    BY Heads DEF Share, IInv, TypeOK
  <2> QED BY <1>1, <2>1, <2>2 DEF IInv, Progress
<1>7. \A i \in Threads : Progress(i)'
  <2>1. Progress(id)'
    BY <1>1, <1>3, <1>4, <1>6 DEF Progress
  <2>2. ASSUME NEW i \in Threads, i # id PROVE Progress(i)'
    BY <1>1, <1>3, <1>4, <2>2 DEF IInv, Progress, Covering, requestVars
  <2> QED BY <2>1, <2>2
<1> QED BY <1>1, <1>2, <1>3, <1>5, <1>7 DEF IInv, Covering, requestVars

(* The suite throws: the workers that wait are never started. *)
LEMMA SuiteThrows == IInv /\ SuiteFails => IInv'
<1> SUFFICES ASSUME IInv, SuiteFails PROVE IInv'
  OBVIOUS
<1>1. /\ UNCHANGED <<requestVars, pc, painting, count, aborted, view, host, painters>>
      /\ pc = "rows" /\ suite = "up" /\ suite' = "failed" /\ lost' = lost + 1
      /\ worker' = [id \in Threads |->
                      IF worker[id].state = "waiting" THEN [worker[id] EXCEPT !.state = "done"]
                      ELSE worker[id]]
  BY DEF SuiteFails
<1>2. /\ request' = request /\ Rows' = Rows
      /\ \A i : Share(i)' = Share(i) /\ first(i, count)' = first(i, count)
  BY <1>1 DEF requestVars, Rows, Share, first, last, rowsPerWorker
<1>3. TypeOK'
  BY <1>1, <1>2 DEF IInv, TypeOK
<1>4. Routed' /\ Shown' /\ Painted'
  <2>1. lost' > 0
    BY <1>1 DEF IInv, TypeOK
  <2>2. Routed'
    BY <1>1, <1>2, <2>1 DEF IInv, Routed, requestVars
  <2> QED BY <1>1, <1>2, <2>2 DEF IInv, Shown, Painted
<1>5. ~Covering'
  BY <1>1 DEF Covering
<1>6. \A i \in Threads : worker'[i].state = "running" => worker'[i] = worker[i]
  BY <1>1 DEF IInv, TypeOK
<1>7. \A i \in Threads : worker'[i].state # "waiting"
  BY <1>1 DEF IInv, TypeOK
<1>8. \A i \in Threads : Progress(i)'
  BY <1>1, <1>2, <1>5, <1>6, <1>7 DEF IInv, Progress
<1> QED BY <1>1, <1>2, <1>3, <1>4, <1>5, <1>8 DEF IInv

LEMMA Aborted == IInv /\ Abort => IInv'
<1> SUFFICES ASSUME IInv, Abort PROVE IInv'
  OBVIOUS
<1>1. /\ UNCHANGED <<requestVars, pc, painting, count, worker, suite, lost, view, host, painters>>
      /\ aborted' = TRUE
  BY DEF Abort
<1> QED BY <1>1 DEF IInv, TypeOK, Routed, Shown, Painted, Progress, Covering, requestVars, Rows,
            Share, first, last, rowsPerWorker

LEMMA Inductive == IInv /\ [Next]_vars => IInv'
<1> SUFFICES ASSUME IInv, [Next]_vars PROVE IInv'
  OBVIOUS
<1>1. CASE UNCHANGED vars
  BY <1>1 DEF vars, IInv, TypeOK, Routed, Shown, Painted, Progress, Covering, requestVars, Rows,
              Share, first, last, rowsPerWorker
<1>2. CASE CallerStep
  BY <1>2, StartsTrack, StartsStMap, Finishes, FallsBack, GivesUp, FinishesSerially DEF CallerStep
<1>3. ASSUME NEW id \in Threads, WorkerStep(id) PROVE IInv'
  BY <1>3, Begins, Paints, WorkerReturns DEF WorkerStep
<1> QED BY <1>1, <1>2, <1>3, SuiteThrows, Aborted DEF Next, Returned

-----------------------------------------------------------------------------
(* What it says of a frame. *)

LEMMA OnePainter ==
  ASSUME IInv, NEW y \in Rows
  PROVE  Cardinality(painters[y]) <= 1
<1>1. CASE painters[y] = {}
  BY <1>1, FS_EmptySet
<1>2. CASE painters[y] # {}
  <2>1. PICK id \in painters[y] : TRUE
    BY <1>2
  <2>2. count \in Nat \ {0}
    BY <2>1 DEF IInv, Painted, TypeOK
  <2>3. \A i \in painters[y] : i = id
    BY <2>1, <2>2, Owners DEF IInv, Painted, TypeOK
  <2>4. painters[y] = {id}
    BY <2>1, <2>3
  <2>5. Cardinality({id}) = 1
    BY FS_Singleton
  <2> QED BY <2>4, <2>5
<1> QED BY <1>1, <1>2

LEMMA AllPainted ==
  ASSUME IInv, pc = "done", ~aborted, ~Unfinished
  PROVE  \A y \in Rows : host[y] = painting
<1>1. suite = "up" \/ request.kind = "st"
  BY DEF Unfinished, IInv, TypeOK, Requests
<1>2. Covering /\ count \in Nat \ {0}
  BY <1>1 DEF Covering, IInv, TypeOK
<1> TAKE y \in Rows
<1>3. PICK id \in 0..count - 1 : y \in Share(id)
  BY <1>2, Owners DEF IInv, TypeOK
<1>4. id \in painters[y]
  BY <1>2, <1>3 DEF IInv, TypeOK, Progress
<1> QED BY <1>4 DEF IInv, Painted

LEMMA Whole == IInv => WholeFrame
<1> SUFFICES ASSUME IInv PROVE WholeFrame
  OBVIOUS
<1>1. \A y \in Rows : Cardinality(painters[y]) <= 1
  BY OnePainter
<1>2. ASSUME pc = "done", ~aborted, ~Unfinished
      PROVE  /\ painting \in Pictures
             /\ \A y \in Rows : host[y] = painting
             /\ request.kind = "st" <=> painting.what = "st"
             /\ painting.what = "st" => (painting.geometry = "source" <=> fetched # {})
             /\ painting = Black <=> request.kind = "track" /\ (fetched = {} \/ lost > 0)
  <2>1. \A y \in Rows : host[y] = painting
    BY <1>2, AllPainted
  <2>2. CASE request.kind = "st"
    <3>1. \/ painting = Identity("source") /\ fetched = {<<"source", "now">>}
          \/ painting = Identity("output") /\ fetched = {}
      BY <1>2, <2>2 DEF IInv, Routed
    <3>2. /\ painting \in Pictures /\ painting.what = "st" /\ painting # Black
          /\ painting.geometry = "source" <=> fetched # {}
      <4>1. CASE painting = Identity("source") /\ fetched = {<<"source", "now">>}
        BY <4>1 DEF Pictures, Identity, Black
      <4>2. CASE painting = Identity("output") /\ fetched = {}
        BY <4>2 DEF Pictures, Identity, Black
      <4> QED BY <3>1, <4>1, <4>2
    <3> QED BY <2>1, <2>2, <3>2
  <2>3. CASE request.kind = "track"
    <3>1. suite = "up"
      BY <1>2, <2>3 DEF Unfinished, IInv, TypeOK
    <3>2. inputClip(request) \in Clips /\ inputTime(request) \in Times
      BY DEF inputClip, inputTime, Clips, Times
    <3>3. CASE painting = Black /\ (fetched = {} \/ lost > 0)
      <4>1. painting \in Pictures /\ painting.what # "st"
        BY <3>3 DEF Pictures, Black
      <4> QED BY <2>1, <2>3, <3>3, <4>1
    <3>4. CASE /\ painting = Copy(inputClip(request), inputTime(request)) /\ lost = 0
               /\ fetched = {<<inputClip(request), inputTime(request)>>}
      <4>1. painting \in Pictures /\ painting.what # "st" /\ painting # Black
        BY <3>2, <3>4 DEF Pictures, Black, Copy
      <4>2. fetched # {} /\ ~(lost > 0) /\ request.kind # "st"
        BY <2>3, <3>4
      <4> QED BY <2>1, <4>1, <4>2
    <3> QED BY <1>2, <2>3, <3>1, <3>3, <3>4 DEF IInv, Routed
  <2> QED BY <2>2, <2>3 DEF IInv, TypeOK, Requests
<1> QED BY <1>1, <1>2 DEF WholeFrame

LEMMA Announced == IInv => QueriesAgree
<1> SUFFICES ASSUME IInv PROVE QueriesAgree
  OBVIOUS
<1> DEFINE r == request
<1>1. r \in Requests
  BY DEF IInv, TypeOK
<1>2. fetched \subseteq getFramesNeeded(r)
  <2>1. CASE r.kind = "st"
    BY <2>1 DEF IInv, Routed, TypeOK, getFramesNeeded
  <2>2. CASE r.kind = "track"
    <3>1. fetched \subseteq {<<inputClip(r), inputTime(r)>>}
      BY <2>2 DEF IInv, Routed, TypeOK
    <3>2. <<inputClip(r), inputTime(r)>> \in getFramesNeeded(r)
      BY <1>1, <2>2 DEF getFramesNeeded, inputClip, inputTime, InsertTime, Requests
    <3> QED BY <3>1, <3>2
  <2> QED BY <1>1, <2>1, <2>2 DEF Requests
<1>3. ASSUME NEW offer \in isIdentity(r), NEW y \in Rows, host[y].what = "copy"
      PROVE  host[y] = Copy(offer[1], offer[2])
  <2>1. host[y] = Copy(inputClip(r), inputTime(r)) /\ r.kind = "track"
    BY <1>3 DEF IInv, Shown
  <2>2. offer = <<inputClip(r), inputTime(r)>>
    BY <1>1, <1>3, <2>1 DEF isIdentity, inputClip, inputTime, InsertTime, Requests
  <2> QED BY <2>1, <2>2
<1> QED BY <1>2, <1>3 DEF QueriesAgree

(* The types of a render, for any frame and any host. *)
THEOREM FrameTyped == Spec => []TypeOK
BY Initially, Inductive, PTL DEF Spec, IInv

(* However many threads the host has and wherever its suite throws, a render *)
(* that was not aborted returns one whole picture, each row painted by one   *)
(* worker (RowRenderer::multiThreadFunction and the fallbacks around it).    *)
THEOREM AlwaysWhole == Spec => []WholeFrame
BY Initially, Inductive, Whole, PTL DEF Spec

(* Render fetches what getFramesNeeded announced, and shows what isIdentity  *)
(* offered.                                                                  *)
THEOREM AlwaysAgree == Spec => []QueriesAgree
BY Initially, Inductive, Announced, PTL DEF Spec
=============================================================================
