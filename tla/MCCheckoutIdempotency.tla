----------------------- MODULE MCCheckoutIdempotency -----------------------
(* Finite instances of CheckoutIdempotency. *)
EXTENDS CheckoutIdempotency, TLC

CONSTANTS a, b, c, fp1, fp2

\* Two calls send the same body and the third another one.
TwoBodies == (a :> fp1) @@ (b :> fp2) @@ (c :> fp1)

SameBodySymmetry == Permutations({a, c})
=============================================================================
