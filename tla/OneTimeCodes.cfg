CONSTANTS
    r1 = r1
    r2 = r2
    v1 = v1
    v2 = v2
    None = None
    Requests = {r1, r2}
    Verifies = {v1, v2}
    MaxAttempts = 1
    Cooldown = 1
    Ttl = 2
    Retention = 1
    MaxStall = 1
    MaxTokens = 2
    LastRequest = 2
    Horizon = 6
SPECIFICATION FairSpec
INVARIANTS
    OneLiveCode
    CooldownKept
    GuessesBounded
PROPERTIES
    ImplementsLoginCode
    CodesAreForgotten
