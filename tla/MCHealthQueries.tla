-------------------------- MODULE MCHealthQueries ---------------------------
(***************************************************************************)
(* An instance of HealthQueries.tla for TLC.                               *)
(***************************************************************************)
EXTENDS HealthQueries

\* A reading that fits an int32_t of four bits, and one beyond each end of it.
Readings == {-9, 3, 8}
==============================================================================
