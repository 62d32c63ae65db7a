--------------------------- MODULE MCGrallocUsage ---------------------------
(***************************************************************************)
(* An instance of GrallocUsage.tla for TLC: every value of both CPU        *)
(* fields, the two flags with a translation and one bit without.           *)
(***************************************************************************)
EXTENDS GrallocUsage

MCBit == 0..7 \cup {23, 24, 40}
==============================================================================
