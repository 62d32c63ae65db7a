------------------------------ MODULE MCHealth ------------------------------
(***************************************************************************)
(* Instances of Health.tla for TLC; the configurations give every constant *)
(* an ordinary value or a set of model values.                             *)
(***************************************************************************)
EXTENDS Health
==============================================================================
