-------------------------- MODULE InvalidatingCache --------------------------
(***************************************************************************)
(* What a flow cache promises the renders that share it, without keys of a *)
(* hash, recency lists or bytes: a forgetful map.  It may forget anything  *)
(* at any time, it never holds two values for one key, and it keeps a      *)
(* value only if the value belongs to its key and was made from content at *)
(* least as new as the content of the last invalidation.                   *)
(***************************************************************************)
EXTENDS Integers

VARIABLES
  generation, inputs, announced,
  resident    \* set of [at, key, value]

promised == <<generation, inputs, announced, resident>>

Init ==
  /\ generation = 0
  /\ inputs = 0
  /\ announced = 0
  /\ resident = {}

Change ==
  /\ inputs' = inputs + 1
  /\ UNCHANGED <<generation, announced, resident>>

Invalidate ==
  /\ generation' = generation + 1
  /\ announced' = inputs
  /\ resident' = {}
  /\ UNCHANGED inputs

Forget ==
  /\ resident' \subseteq resident
  /\ UNCHANGED <<generation, inputs, announced>>

Fresh(slot) ==
  /\ slot.key.generation = generation
  /\ slot.value.valid
  /\ slot.value.of = slot.key.id
  /\ announced <= slot.value.inputs
  /\ slot.value.inputs <= inputs

Keep(slot) ==
  /\ Fresh(slot)
  /\ resident' \subseteq {r \in resident : r.at # slot.at \/ r.key # slot.key} \cup {slot}
  /\ UNCHANGED <<generation, inputs, announced>>

Next == Change \/ Invalidate \/ Forget \/ \E slot \in resident' : Keep(slot)

Spec == Init /\ [][Next]_promised
=============================================================================
