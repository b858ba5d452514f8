SPECIFICATION LiveSpec
CONSTANTS
    Client = {k1, k2}
    JWT = {j1}
    NoClient = NoClient
    NoJWT = NoJWT
    Req = {r1, r2}
    Limit = 2
    Window = 2
    CacheTTL = 2
    Lifetime = 2
    Delay = 1
    MaxLost = 1
    Faults = {"incr", "cache", "auth"}
INVARIANTS
    CounterExpires
PROPERTIES
    StaleBound
    LimitEnds
