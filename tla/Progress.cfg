SPECIFICATION LiveSpec
CONSTANTS
    NodeCount = 3
    Secret = {s1, s2, s3, s4}
    NoSecret = NoSecret
    FaultyNode = {1}
    MaxLate = 0
    Threshold = 2
    BackupCodeCount = 0
    Req = {r1}
    Ops = {"setup", "verify", "disable"}
    Concurrent = {}
    StopsAt = {"store", "undo", "create", "codes", "reply", "fetch", "enable",
               "lookup", "mark", "erase", "dropCodes", "dropRecord"}
PROPERTIES
    RequestTerminates
    SetupEventuallySucceeds
