CONSTANTS
    v = v
    w = w
    NoTx = NoTx
    Workers = {v, w}
    ChunkSize = 2
    ClaimTTL = 1
    CallTimeout = 1
    Txs = {1, 2}
    Late = {1}
    MaxTime = 4
    MaxFaults = 1
    MaxWebhooks = 2
SPECIFICATION FairSpec
INVARIANTS
    PaidOutOnce
    RecordedRefundIsReal
    OverlapsAreSpaced
PROPERTY
    CompensationsClose
CHECK_DEADLOCK FALSE
