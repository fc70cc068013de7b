------------------------------ MODULE RunLedger ------------------------------
(***************************************************************************)
(* What a resumable bake-off run promises, without processes, files or     *)
(* crashes: each cell of the plan is entered into the ledger once, in plan *)
(* order, and an entry - the result and the exact generation of its        *)
(* evidence - is never changed or taken back.                              *)
(***************************************************************************)
EXTENDS Integers, Sequences

CONSTANTS
  Plan,       \* the cells in the order of the matrix plan
  Unrecorded  \* stands for a cell without an entry

VARIABLE ledger

LedgerInit == ledger = [i \in DOMAIN Plan |-> Unrecorded]

Record(i) ==
  /\ ledger[i] = Unrecorded
  /\ \A j \in 1..i - 1 : ledger[j] # Unrecorded
  /\ ledger'[i] # Unrecorded
  /\ ledger' = [ledger EXCEPT ![i] = ledger'[i]]

LedgerSpec == LedgerInit /\ [][\E i \in DOMAIN Plan : Record(i)]_ledger
=============================================================================
