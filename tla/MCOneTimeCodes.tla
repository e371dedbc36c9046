--------------------------- MODULE MCOneTimeCodes ---------------------------
(* A finite instance of OneTimeCodes. *)
EXTENDS OneTimeCodes

CONSTANTS r1, r2, v1, v2
=============================================================================
