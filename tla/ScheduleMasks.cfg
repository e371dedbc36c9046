CONSTANTS
    g1 = g1
    g2 = g2
    ra = ra
    rb = rb
    ta = ta
    tb = tb
    c = c
    d = d
    None = None
    NoMask = NoMask
    NoRequest = NoRequest
    CANCELLATION = CANCELLATION
    Groups = {g1, g2}
    Rooms = {ra, rb}
    Teachers = {ta, tb}
    DaysInWeek = 2
    Weeks = 1
    Rows <- ThreeRows
    Overrides <- FourOverrides
    Calls = {c, d}
    MaxEdits = 1
SPECIFICATION FairSpec
INVARIANT NoDoubleBooking
PROPERTY CallsEnd
CHECK_DEADLOCK FALSE
