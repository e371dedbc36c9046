------------------------------ MODULE LoginCode ------------------------------
(***************************************************************************)
(* What sign-in by a one-time code promises, without rows, locks or clocks *)
(* (docs/auth-flow.md, section 3): an address has at most one code that    *)
(* works; a newer code replaces it; it survives a limited number of wrong  *)
(* guesses; a right guess opens one session and ends it.  OneTimeCodes     *)
(* implements this specification.                                          *)
(***************************************************************************)
EXTENDS Naturals

CONSTANTS Ids, MaxAttempts

VARIABLES
    last,      \* the newest code ever issued, 0 before the first
    live,      \* the code that works, 0 if there is none
    wrong,     \* wrong guesses at the live code
    sessions   \* sessions opened by each code

vars == <<last, live, wrong, sessions>>

Init ==
    /\ last = 0 /\ live = 0 /\ wrong = 0
    /\ sessions = [i \in Ids |-> 0]

\* A new code; the one before it is dead.
Issue ==
    /\ last + 1 \in Ids
    /\ last' = last + 1 /\ live' = last + 1 /\ wrong' = 0
    /\ UNCHANGED sessions

Guess ==
    /\ live # 0 /\ wrong < MaxAttempts
    /\ wrong' = wrong + 1
    /\ UNCHANGED <<last, live, sessions>>

\* The right code: the session is opened, the code is gone.
Redeem ==
    /\ live # 0 /\ wrong < MaxAttempts
    /\ sessions' = [sessions EXCEPT ![live] = @ + 1]
    /\ live' = 0 /\ wrong' = 0
    /\ UNCHANGED last

\* The code ends without a session: it was purged, or the account is inactive.
Lapse ==
    /\ live # 0
    /\ live' = 0 /\ wrong' = 0
    /\ UNCHANGED <<last, sessions>>

Next == Issue \/ Guess \/ Redeem \/ Lapse

Spec == Init /\ [][Next]_vars
=============================================================================
