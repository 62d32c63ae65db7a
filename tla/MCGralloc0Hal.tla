--------------------------- MODULE MCGralloc0Hal ----------------------------
(***************************************************************************)
(* An instance of Gralloc0Hal.tla for TLC; the configuration gives every   *)
(* constant a set of model values or an ordinary value.                    *)
(***************************************************************************)
EXTENDS Gralloc0Hal
==============================================================================
