------------------------------ MODULE MCOrders ------------------------------
(* A finite instance of Orders: two orders of one parent overlap in one of two
   slots and share the deposit, which covers the price of the second. *)
EXTENDS Orders, TLC

CONSTANTS o1, o2, s1, s2, mother, ann, bob

MCParentOf  == (o1 :> mother) @@ (o2 :> mother)
MCStudentOf == (o1 :> ann) @@ (o2 :> bob)
MCSlotsOf   == (o1 :> {s1, s2}) @@ (o2 :> {s1})
MCPrice     == (o1 :> 3) @@ (o2 :> 2)
MCOpening   == (mother :> 2)
=============================================================================
