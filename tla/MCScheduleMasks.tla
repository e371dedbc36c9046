--------------------------- MODULE MCScheduleMasks ---------------------------
(* A finite instance of ScheduleMasks: weeks of two days. *)
EXTENDS ScheduleMasks

CONSTANTS g1, g2, ra, rb, ta, tb, c, d

ThreeRows ==
    {[day |-> 0, start |-> 0, end |-> 1, room |-> ra, teacher |-> ta],
     [day |-> 0, start |-> 1, end |-> 2, room |-> ra, teacher |-> None],
     [day |-> 1, start |-> 0, end |-> 1, room |-> rb, teacher |-> ta]}

\* Another day; another room at overlapping times; another teacher; only times.
FourOverrides ==
    {[day |-> 1, start |-> 0, end |-> 1, room |-> None, teacher |-> None],
     [day |-> None, start |-> 0, end |-> 2, room |-> rb, teacher |-> tb],
     [day |-> 0, start |-> 1, end |-> 2, room |-> None, teacher |-> tb],
     [day |-> None, start |-> 1, end |-> 2, room |-> None, teacher |-> None]}
=============================================================================
