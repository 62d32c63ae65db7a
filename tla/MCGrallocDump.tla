--------------------------- MODULE MCGrallocDump ----------------------------
(***************************************************************************)
(* An instance of GrallocDump.tla for TLC: texts of up to three bytes, a   *)
(* fixed buffer that the longer ones overrun, and a size type in which the *)
(* size of the longest one wraps around.                                   *)
(***************************************************************************)
EXTENDS GrallocDump, TLC

\* Threads are interchangeable.
Symmetry == Permutations(Thread)
==============================================================================
