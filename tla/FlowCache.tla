------------------------------ MODULE FlowCache ------------------------------
(***************************************************************************)
(* The instance-lifetime flow cache (src/core/flow/FlowCache.{h,cpp}) and  *)
(* the render threads that share it.  A cache method runs under one mutex  *)
(* and is one step.  Everything a thread does between two methods - pull   *)
(* frames, run the estimator, compose links - happens outside the mutex,   *)
(* so the host may change a clip, bump the generation, press Clear or      *)
(* resize the budgets at any point of it.                                  *)
(*                                                                         *)
(* "inputs" numbers the contents of the source clip and of every parameter *)
(* that affects flow; "announced" is the content the last generation bump  *)
(* told the cache about.  A value remembers the content it was made from.  *)
(***************************************************************************)
EXTENDS LruStore, FiniteSets

CONSTANTS
  Workers,        \* render threads
  Ids,            \* cache identities: every FlowCacheKey field but generation
  PayloadSizes,   \* byteSize() of a valid value
  Budgets,        \* byte budgets the artist may choose
  MaxGeneration,  \* bound on generation bumps
  MaxInputs       \* bound on clip and parameter changes

ASSUME PayloadAssumption == PayloadSizes \subseteq 1..MaxSize
\* Half of SIZE_MAX: then the running total never saturates.
ASSUME BudgetAssumption == Budgets \subseteq 0..MaxSize /\ \A b \in Budgets : 2 * b <= MaxSize
ASSUME BoundAssumption == MaxGeneration \in Nat /\ MaxInputs \in Nat

VARIABLES
  generation,  \* State::generation
  store,       \* State::pairwise and State::accumulated
  inputs,      \* content of the clip and parameters right now
  announced,   \* content at the last bump or Clear
  worker       \* what each render thread holds between two cache calls

hostVars == <<inputs, announced>>
vars == <<generation, store, inputs, announced, worker>>

Stores == {"pairwise", "accumulated"}

Key == [id : Ids, generation : Nat]

\* of: the identity the link really belongs to; valid: FlowLink::isValid().
Value == [of : Ids, valid : BOOLEAN, size : PayloadSizes, inputs : Nat]

\* idle -> captured (token held) -> missed -> computed (value held) -> idle
Idle == [pc |-> "idle"]

WorkerState ==
  {Idle}
    \cup
  [pc : {"captured", "missed"}, token : Nat, at : Stores, id : Ids]
    \cup
  [pc : {"computed"}, token : Nat, at : Stores, id : Ids, value : Value]

byteSize(value) == IF value.valid THEN value.size ELSE 0

(* pairwiseValueMatchesKey and accumulatedValueMatchesKey compare endpoints,
   model, lattice and confidence lattice of the link with those of the key. *)
ValueMatchesKey(key, value) == value.valid /\ value.of = key.id

KeyOf(w, g) == [id |-> worker[w].id, generation |-> g]

-----------------------------------------------------------------------------
Init ==
  /\ generation = 0
  /\ store \in [Stores -> {EmptyStore(b) : b \in Budgets}]
  /\ inputs = 0
  /\ announced = 0
  /\ worker = [w \in Workers |-> Idle]

(* captureGeneration, before any frame is pulled. *)
Capture(w, st, id) ==
  /\ worker[w].pc = "idle"
  /\ worker' = [worker EXCEPT ![w] =
                  [pc |-> "captured", token |-> generation, at |-> st, id |-> id]]
  /\ UNCHANGED <<generation, store, hostVars>>

(* lookupPairwise / lookupAccumulated: a hit ends the job, a miss (also the *)
(* one for a key of another generation) sends the thread off to compute.    *)
Lookup(w) ==
  LET st  == worker[w].at
      key == KeyOf(w, worker[w].token)
      hit == key.generation = generation /\ contains(store[st], key)
  IN  /\ worker[w].pc = "captured"
      /\ worker' = [worker EXCEPT ![w] = IF hit THEN Idle ELSE [@ EXCEPT !.pc = "missed"]]
      /\ store' = IF key.generation = generation
                  THEN [store EXCEPT ![st] = Touched(@, key)] ELSE store
      /\ UNCHANGED <<generation, hostVars>>

Holding(w, value) ==
  [pc |-> "computed", token |-> worker[w].token, at |-> worker[w].at,
   id |-> worker[w].id, value |-> value]

(* Outside the mutex: pull the frames and run the estimator, which may fail *)
(* or answer with a link that is not the requested one.  Of a failure only  *)
(* the validity is ever looked at.                                          *)
Compute(w) ==
  /\ worker[w].pc = "missed"
  /\ \E of \in Ids, valid \in BOOLEAN, size \in PayloadSizes :
       /\ ~valid => of = worker[w].id /\ \A other \in PayloadSizes : size <= other
       /\ worker' = [worker EXCEPT ![w] =
                       Holding(w, [of |-> of, valid |-> valid, size |-> size, inputs |-> inputs])]
  /\ UNCHANGED <<generation, store, hostVars>>

(* An accumulated field composed from a resident link instead of from frames: *)
(* the lookup is a cache call, the field is as old as the link.               *)
Compose(w, id) ==
  LET link == [id |-> id, generation |-> worker[w].token]
      s    == store["pairwise"]
  IN  /\ worker[w].pc = "missed"
      /\ worker[w].at = "accumulated"
      /\ link.generation = generation
      /\ contains(s, link)
      /\ \E size \in PayloadSizes :
           worker' = [worker EXCEPT ![w] =
             Holding(w, [of |-> worker[w].id, valid |-> TRUE, size |-> size,
                         inputs |-> s.order[Find(s, link)].value.inputs])]
      /\ store' = [store EXCEPT !["pairwise"] = Touched(s, link)]
      /\ UNCHANGED <<generation, hostVars>>

Finished(w) == [worker EXCEPT ![w] = Idle]

(* A value that does not match its key is put with zero bytes: it only      *)
(* removes what was resident under the key.                                 *)

Insert(st, key, value) ==
  put(store[st], key, value, IF ValueMatchesKey(key, value) THEN byteSize(value) ELSE 0)

(* publishPairwise / publishAccumulated.  The caller builds the key from the *)
(* token, or from a generation it read again after its work.                 *)
\* Bug variant: only the generation in the key is compared.
Accepts_KeyOnly(token, key) == key.generation = generation

Accepts(token, key) == token = generation /\ key.generation = token

Publish(w, keyGeneration) ==
  LET st  == worker[w].at
      key == KeyOf(w, keyGeneration)
  IN  /\ worker[w].pc = "computed"
      /\ keyGeneration \in {worker[w].token, generation}
      /\ store' = IF Accepts(worker[w].token, key)
                  THEN [store EXCEPT ![st] = Insert(st, key, worker[w].value).store]
                  ELSE store
      /\ worker' = Finished(w)
      /\ UNCHANGED <<generation, hostVars>>

(* putPairwise / putAccumulated, the direct insertion of a precache walk: the *)
(* only guard is the generation in the key, captured before the walk pulled.  *)
Put(w) ==
  LET st  == worker[w].at
      key == KeyOf(w, worker[w].token)
  IN  /\ worker[w].pc = "computed"
      /\ store' = IF key.generation = generation
                  THEN [store EXCEPT ![st] = Insert(st, key, worker[w].value).store]
                  ELSE store
      /\ worker' = Finished(w)
      /\ UNCHANGED <<generation, hostVars>>

-----------------------------------------------------------------------------
(* The host changes a clip or a flow parameter; the cache hears of it later. *)
ChangeInputs ==
  /\ inputs < MaxInputs
  /\ inputs' = inputs + 1
  /\ UNCHANGED <<generation, store, announced, worker>>

(* bumpGeneration (changedClip, changedParam) and clear (the Clear button). *)
\* Bug variant: a bump purges the pairwise links and forgets the fields.
BumpGeneration_PairwiseOnly ==
  /\ generation < MaxGeneration
  /\ generation' = generation + 1
  /\ store' = [store EXCEPT !["pairwise"] = clear(@)]
  /\ announced' = inputs
  /\ UNCHANGED <<inputs, worker>>

BumpGeneration ==
  /\ generation < MaxGeneration
  /\ generation' = generation + 1
  /\ store' = [st \in Stores |-> clear(store[st])]
  /\ announced' = inputs
  /\ UNCHANGED <<inputs, worker>>

(* setPairwiseByteBudget, setAccumulatedByteBudget. *)
SetByteBudget(st, b) ==
  /\ store' = [store EXCEPT ![st] = setBudget(@, b)]
  /\ UNCHANGED <<generation, hostVars, worker>>

(* setBudgets resizes both stores under one lock. *)
SetBudgets(b) ==
  /\ store' = [st \in Stores |-> setBudget(store[st], b[st])]
  /\ UNCHANGED <<generation, hostVars, worker>>

WorkerStep(w) ==
  \/ \E st \in Stores, id \in Ids : Capture(w, st, id)
  \/ Lookup(w)
  \/ Compute(w)
  \/ \E id \in Ids : Compose(w, id)
  \/ \E g \in 0..MaxGeneration : Publish(w, g)
  \/ Put(w)

HostStep ==
  \/ ChangeInputs
  \/ BumpGeneration
  \/ \E st \in Stores, b \in Budgets : SetByteBudget(st, b)
  \/ \E b \in [Stores -> Budgets] : SetBudgets(b)

Next == HostStep \/ \E w \in Workers : WorkerStep(w)

Spec == Init /\ [][Next]_vars

-----------------------------------------------------------------------------
TypeOK ==
  /\ generation \in Nat
  /\ store \in [Stores -> Store(Key, Value)]
  /\ inputs \in Nat
  /\ announced \in Nat
  /\ worker \in [Workers -> WorkerState]

EntriesOf(st) == {store[st].order[i] : i \in DOMAIN store[st].order}

(* Whatever the interleaving of renders with clip changes, bumps and Clear,  *)
(* every resident entry was made from content at least as new as the content *)
(* the last bump announced: no result of work begun before a bump is served  *)
(* after it ("the render path's stale-result guard").                        *)
NoStaleResident ==
  \A st \in Stores : \A e \in EntriesOf(st) : e.value.inputs >= announced

(* The hash index and the recency list always describe the same entries, one *)
(* node for each key (a dangling iterator or a duplicate node otherwise).    *)
IndexCoherent ==
  \A st \in Stores :
    LET order == store[st].order
    IN  /\ store[st].index = {order[i].key : i \in DOMAIN order}
        /\ \A i, j \in DOMAIN order : order[i].key = order[j].key => i = j

(* The running total is the exact sum of the resident payloads and never     *)
(* above the budget, through replacements, evictions and resizes.            *)
ExactBudget ==
  \A st \in Stores :
    /\ store[st].bytes = RunningBytes(store[st].order)[Len(store[st].order)]
    /\ store[st].bytes <= store[st].budget

Replaced(st, key) ==
  \E w \in Workers : worker[w].pc = "computed" /\ worker'[w].pc = "idle"
                     /\ worker[w].at = st /\ worker[w].id = key.id

(* Within a generation an entry leaves a store only (a) when a worker puts   *)
(* under its own key, or (b) as a victim of the budget: then every entry     *)
(* that was more recently used stays, and the last victim would not fit.     *)
EvictsAsPromised ==
  [][generation' = generation =>
       \A st \in Stores :
         LET order   == store[st].order
             Left(i) == order[i].key \notin store'[st].index
             victims == {i \in DOMAIN order : Left(i) /\ ~Replaced(st, order[i].key)}
         IN  /\ \A i \in victims, j \in DOMAIN order :
                  i < j => Left(j) \/ Replaced(st, order[j].key)
             /\ victims # {} =>
                  store'[st].bytes + order[Min(victims)].bytes > store'[st].budget]_vars

(* The cache and its protocol implement the forgetful map: capture before   *)
(* the work, the token check at publication and the purge of both stores at *)
(* a bump are together enough for every value it keeps to be a fresh one.   *)
Slots == UNION {{[at |-> st, key |-> e.key, value |-> e.value] : e \in EntriesOf(st)}
                  : st \in Stores}

Promise == INSTANCE InvalidatingCache WITH resident <- Slots

KeepsPromise == Promise!Spec
=============================================================================
