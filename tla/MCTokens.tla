------------------------------ MODULE MCTokens ------------------------------
(* Finite instances of Tokens. *)
EXTENDS Tokens, TLC

CONSTANTS m1, m2, m3, s1, s2, c, d

\* Two lessons of one slot, one of another.
ThreeLessons == (m1 :> s1) @@ (m2 :> s1) @@ (m3 :> s2)

Symmetry == Permutations({m1, m2}) \cup Permutations({c, d})
=============================================================================
