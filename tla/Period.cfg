SPECIFICATION Spec
CONSTANTS
    Req = {r1}
    Ops = {"verify"}
    MaxAttempts = 2
    RateTTL = 2
    OtpTTL = 3
    Failing = {}
    MaxLost = 0
    StopsAt = {}
    MaxTime = 4
CHECK_DEADLOCK FALSE
INVARIANTS
    AttemptsPerPeriod
