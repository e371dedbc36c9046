CONSTANTS
    m1 = m1
    m2 = m2
    m3 = m3
    s1 = s1
    s2 = s2
    c = c
    d = d
    NoCall = NoCall
    Marks = {m1, m2, m3}
    Slots = {s1, s2}
    SlotOf <- ThreeLessons
    Granted = 1
    Calls = {c, d}
    MaxForms = 2
SPECIFICATION Spec
INVARIANTS
    TypeOK
    TokensConserved
    UsedSessionsAreCharged
    DebitedWasAttended
    SettledBooksBalance
SYMMETRY Symmetry
CHECK_DEADLOCK FALSE
