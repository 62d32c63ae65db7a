--------------------------- MODULE MCGralloc1Hal ----------------------------
(***************************************************************************)
(* Instances of Gralloc1Hal.tla for TLC; the configurations give every     *)
(* constant an ordinary value or a set of model values.                    *)
(***************************************************************************)
EXTENDS Gralloc1Hal
==============================================================================
