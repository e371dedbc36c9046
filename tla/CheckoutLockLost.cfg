CONSTANTS
    a = a
    b = b
    c = c
    fp1 = fp1
    fp2 = fp2
    NoRequest = NoRequest
    Requests = {a, b, c}
    Fingerprints = {fp1, fp2}
    Fingerprint <- TwoBodies
    ReservationTTL = 1
    RecordTTL = 4
    MaxTime = 3
SPECIFICATION Spec
INVARIANT AnswerMatchesRequest
CHECK_DEADLOCK FALSE
