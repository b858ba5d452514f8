SPECIFICATION Spec
CONSTANTS
    Req = {r1, r2}
    Ops = {"verify", "disable"}
    MaxAttempts = 1
    RateTTL = 1
    OtpTTL = 3
    Failing = {"INCR", "EXPIRE"}
    MaxLost = 1
    StopsAt = {"read", "match", "store", "cleanup"}
    MaxTime = 3
CHECK_DEADLOCK FALSE
INVARIANTS
    LimitIsTemporary
PROPERTIES
    NotTwiceInARow
