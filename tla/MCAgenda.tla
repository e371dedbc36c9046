------------------------------ MODULE MCAgenda ------------------------------
(* A finite instance of Agenda: weeks of two days, a child in one of two groups. *)
EXTENDS Agenda

CONSTANTS g1, g2, ra, ta, c, k1, m1

ThreeRows ==
    {[day |-> 0, start |-> 0, end |-> 1, room |-> ra, teacher |-> None],
     [day |-> 0, start |-> 1, end |-> 2, room |-> ra, teacher |-> None],
     [day |-> 1, start |-> 0, end |-> 1, room |-> ra, teacher |-> ta]}

\* Another day, other times.
TwoOverrides ==
    {[day |-> 1, start |-> 1, end |-> 2, room |-> None, teacher |-> None],
     [day |-> None, start |-> 2, end |-> 3, room |-> None, teacher |-> ta]}

OneChild == [k \in {k1} |-> g1]
=============================================================================
