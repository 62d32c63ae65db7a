-------------------------- MODULE MCHealthService ---------------------------
(***************************************************************************)
(* Instances of HealthService.tla for TLC; the configurations give every   *)
(* constant an ordinary value.                                             *)
(***************************************************************************)
EXTENDS HealthService
==============================================================================
