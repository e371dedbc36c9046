CONSTANTS
    r1 = r1
    r2 = r2
    v = v
    w = w
    f = f
    Regs = {r1, r2}
    Count <- Parties
    Sweeps = {v}
    Requests = {w}
    Forms = {f}
    PaymentTTL = 0
    StartsAt = 2
    MaxCapacity = 2
    MaxTime = 2
    MaxKills = 1
SPECIFICATION FairSpec
INVARIANTS
    CounterMatches
PROPERTIES
    NeverOverbooks
    UnpaidIsDecided
CHECK_DEADLOCK FALSE
