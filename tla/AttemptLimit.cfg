SPECIFICATION GateSpec
CONSTANTS
    NULL = NULL
    m1 = m1
    m2 = m2
    ann = ann
    secret = secret
    Updates = {m1}
    Users = {ann}
    From <- Senders
    Secrets = {secret}
    MaxStarts = 2
    Second = 2
    Rate = 1
    Window = 2
    MaxAttempts = 2
    MaxClock = 2
    MaxTries = 3
INVARIANTS
    AttemptsLimited
CHECK_DEADLOCK FALSE
