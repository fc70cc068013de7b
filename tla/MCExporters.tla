---------------------------- MODULE MCExporters ----------------------------
(* Instances of Exporters small enough for TLC. *)
EXTENDS Exporters
=============================================================================
