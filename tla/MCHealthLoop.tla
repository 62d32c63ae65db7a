---------------------------- MODULE MCHealthLoop ----------------------------
(***************************************************************************)
(* Instances of HealthLoop.tla for TLC; the configurations give every      *)
(* constant an ordinary value.                                             *)
(***************************************************************************)
EXTENDS HealthLoop
==============================================================================
