---------------------------- MODULE MCRunOutputs ----------------------------
(* Instances of RunOutputs small enough for TLC. *)
EXTENDS RunOutputs

AskOrNot == BOOLEAN
NeverReplaces == {FALSE}
=============================================================================
