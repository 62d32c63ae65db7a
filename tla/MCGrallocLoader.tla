-------------------------- MODULE MCGrallocLoader ---------------------------
(***************************************************************************)
(* An instance of GrallocLoader.tla for TLC: the versions on both sides of *)
(* each case of the switch in createHal.                                   *)
(***************************************************************************)
EXTENDS GrallocLoader

MCVersion == {0, 1, 255, 256, 257, 511, 512, 65535}
==============================================================================
