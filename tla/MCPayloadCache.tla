--------------------------- MODULE MCPayloadCache ---------------------------
(* A finite instance of PayloadCache. *)
EXTENDS PayloadCache, TLC

CONSTANTS a, b, e1, e2, v1, v2

Symmetry == Permutations(Activities) \cup Permutations(Editors) \cup Permutations(Visitors)
=============================================================================
