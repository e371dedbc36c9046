CONSTANTS
    form = form
    payment = payment
    mail = mail
    w1 = w1
    w2 = w2
    NoJob = NoJob
    Forms = {form}
    Payments = {payment}
    Mails = {mail}
    Workers = {w1, w2}
    Budget = 2
    MaxDeaths = 1
    MaxSlow = 1
    MaxWebhooks = 1
SPECIFICATION TwoJobsSpec
INVARIANTS
    AcceptedIsNotLost
    ExecutionsBounded
PROPERTY
    AcceptedIsResolved
CHECK_DEADLOCK FALSE
