----------------------------- MODULE MCRefunds -----------------------------
(* Finite instances of Refunds. *)
EXTENDS Refunds

CONSTANTS v, w
=============================================================================
