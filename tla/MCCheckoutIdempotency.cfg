CONSTANTS
    a = a
    b = b
    c = c
    fp1 = fp1
    fp2 = fp2
    NoRequest = NoRequest
    Requests = {a, b, c}
    Fingerprints = {fp1, fp2}
    Fingerprint <- TwoBodies
    ReservationTTL = 1
    RecordTTL = 2
    MaxTime = 5
SPECIFICATION Spec
INVARIANTS
    OneOrderPerKey
    CommittedOrderIsStored
    ReportedOrderExists
PROPERTY ReservationIsRespected
SYMMETRY SameBodySymmetry
CHECK_DEADLOCK FALSE
