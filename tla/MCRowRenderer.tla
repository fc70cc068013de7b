---------------------------- MODULE MCRowRenderer ----------------------------
(* Instances of RowRenderer small enough for TLC. *)
EXTENDS RowRenderer
=============================================================================
