---------------------------- MODULE MCResponsive ----------------------------
(* Small instances of Responsive for TLC. *)
EXTENDS Responsive
=============================================================================
