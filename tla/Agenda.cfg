CONSTANTS
    g1 = g1
    g2 = g2
    ra = ra
    ta = ta
    c = c
    k1 = k1
    m1 = m1
    None = None
    NoMask = NoMask
    NoRequest = NoRequest
    CANCELLATION = CANCELLATION
    Groups = {g1, g2}
    Rooms = {ra}
    Teachers = {ta}
    DaysInWeek = 2
    Weeks = 1
    Rows <- ThreeRows
    Overrides <- TwoOverrides
    Calls = {c}
    MaxEdits = 1
    Children = {k1}
    GroupOf <- OneChild
    Mornings = {m1}
SPECIFICATION AgendaSpec
INVARIANTS
    FeedMatchesGrid
PROPERTIES
    AbsenceIsKept
    MorningIsComplete
CHECK_DEADLOCK FALSE
