CONSTANTS
    o1 = o1
    o2 = o2
    s1 = s1
    s2 = s2
    mother = mother
    ann = ann
    bob = bob
    Orders = {o1, o2}
    Slots = {s1, s2}
    Parents = {mother}
    Students = {ann, bob}
    ParentOf <- MCParentOf
    StudentOf <- MCStudentOf
    SlotsOf <- MCSlotsOf
    Price <- MCPrice
    Opening <- MCOpening
    SessionPrice = 2
    TokensPerSlot = 1
    HoldTTL = 1
    LessonDelays = {0, 1}
    Month = 1
    FreezeDays = {1}
    MaxCapacity = 1
    MaxTime = 4
SPECIFICATION FairSpec
INVARIANTS
    TypeOK
    CompensatedOrderIsDead
    SessionsOrDepositBack
    DepositMatchesJournal
    ActiveHasItsSeats
PROPERTIES
    SeatsNotOversold
    SettledOnce
    HoldsEnd
    PaidIsAnswered
CHECK_DEADLOCK FALSE
