------------------------------- MODULE LruStore -------------------------------
(***************************************************************************)
(* One byte-budgeted least-recently-used store of FlowCache.cpp: the       *)
(* template class LruStore, as operators from a store to a store.  A store *)
(* is a record:                                                            *)
(*   order    order_, front first: the most recently used entry is order[1]*)
(*   index    the keys of index_ (each maps to its node of order_)         *)
(*   bytes    bytes_, the running total the eviction loop compares         *)
(*   budget   byteBudget_                                                  *)
(* An entry is [key, value, bytes]; keys and values are opaque here.       *)
(***************************************************************************)
EXTENDS Integers, Sequences, SequencesExt

CONSTANT MaxSize   \* the largest std::size_t

ASSUME MaxSizeAssumption == MaxSize \in Nat \ {0}

Entry(Key, Value) == [key : Key, value : Value, bytes : 0..MaxSize]

Store(Key, Value) ==
  [order : Seq(Entry(Key, Value)), index : SUBSET Key,
   bytes : 0..MaxSize, budget : 0..MaxSize]

EmptyStore(budget) == [order |-> << >>, index |-> {}, bytes |-> 0, budget |-> budget]

-----------------------------------------------------------------------------
(* Addition of two sizes that sticks at the largest one. *)
saturatedAdd(a, b) == IF a > MaxSize - b THEN MaxSize ELSE a + b

(* The position index_ holds for a key: the node of order_ that carries it. *)
Find(s, key) == CHOOSE i \in DOMAIN s.order : s.order[i].key = key

contains(s, key) == key \in s.index

clear(s) == EmptyStore(s.budget)

\* Bug variant: the replaced payload stays in the running total.
erase_KeepsBytes(s, key) ==
  IF ~contains(s, key)
  THEN s
  ELSE [s EXCEPT !.order = RemoveAt(@, Find(s, key)), !.index = @ \ {key}]

erase(s, key) ==
  IF ~contains(s, key)
  THEN s
  ELSE [s EXCEPT !.bytes = @ - s.order[Find(s, key)].bytes,
                 !.order = RemoveAt(@, Find(s, key)),
                 !.index = @ \ {key}]

(* RunningBytes(order)[n] is the size of the n most recently used entries. *)
RunningBytes(order) ==
  LET total[n \in 0..Len(order)] == IF n = 0 THEN 0 ELSE total[n - 1] + order[n].bytes
  IN  total

BytesBehind(order, n) == RunningBytes(order)[Len(order)] - RunningBytes(order)[n]

(* The eviction loop drops the back entry while the running total is above *)
(* the budget: it keeps the longest front part that brings it down, or     *)
(* nothing.                                                                *)
Retained(s) ==
  LET fits == {n \in 0..Len(s.order) : s.bytes - BytesBehind(s.order, n) <= s.budget}
  IN  CHOOSE n \in fits \cup {0} : \A m \in fits : m <= n

\* Bug variants: the victims stay in the index; the front is evicted.
evictToFit_KeepsIndex(s) ==
  [s EXCEPT !.bytes = @ - BytesBehind(s.order, Retained(s)),
            !.order = SubSeq(@, 1, Retained(s))]

evictToFit_FromFront(s) ==
  LET kept == Reverse(SubSeq(Reverse(s.order), 1, Retained([s EXCEPT !.order = Reverse(@)])))
  IN  [s EXCEPT !.bytes = RunningBytes(kept)[Len(kept)],
                !.order = kept,
                !.index = {kept[i].key : i \in DOMAIN kept}]

evictToFit(s) ==
  LET n == Retained(s)
      victims == {s.order[i].key : i \in (n + 1)..Len(s.order)}
  IN  [s EXCEPT !.bytes = @ - BytesBehind(s.order, n),
                !.order = SubSeq(@, 1, n),
                !.index = @ \ victims]

setBudget(s, budget) ==
  LET resized == [s EXCEPT !.budget = budget]
  IN  IF budget = 0 THEN clear(resized) ELSE evictToFit(resized)

-----------------------------------------------------------------------------
(* put answers with the new store and whether the key is resident in it. *)
Rejects(s, bytes) == s.budget = 0 \/ bytes = 0 \/ bytes > s.budget

\* Bug variant: the new payload is not counted.
Pushed_Uncounted(s, key, value, bytes) ==
  [s EXCEPT !.order = <<[key |-> key, value |-> value, bytes |-> bytes]>> \o @,
            !.index = @ \cup {key}]

Pushed(s, key, value, bytes) ==
  [s EXCEPT !.order = <<[key |-> key, value |-> value, bytes |-> bytes]>> \o @,
            !.index = @ \cup {key},
            !.bytes = saturatedAdd(@, bytes)]

put(s, key, value, bytes) ==
  LET cleared == erase(s, key)
      kept    == evictToFit(Pushed(cleared, key, value, bytes))
  IN  IF Rejects(cleared, bytes)
      THEN [store |-> cleared, ok |-> FALSE]
      ELSE [store |-> kept, ok |-> contains(kept, key)]

(* A hit splices its node to the front; a miss leaves the store alone. *)
Touched(s, key) ==
  IF contains(s, key)
  THEN [s EXCEPT !.order = <<s.order[Find(s, key)]>> \o RemoveAt(@, Find(s, key))]
  ELSE s
=============================================================================
