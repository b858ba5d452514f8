SPECIFICATION CallsSpec
CONSTANTS
    Programs = {"auth", "twofa", "mpc", "gateway"}
    Req = {r1, r2}
    Methods = {"disable", "logout", "validate", "store", "snapshot"}
    None = None
CHECK_DEADLOCK FALSE
INVARIANTS
    OnlyLateHandlersBreak
    EventsOutliveTheProcess
    CarriedOutOnce
    SuccessIsTrue
PROPERTIES
    StopsForGood
