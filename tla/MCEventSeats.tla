---------------------------- MODULE MCEventSeats ----------------------------
(* A finite instance of EventSeats: a single guest and a party of two. *)
EXTENDS EventSeats, TLC

CONSTANTS r1, r2, v, w, f

Parties == (r1 :> 1) @@ (r2 :> 2)
=============================================================================
