SPECIFICATION Spec
CONSTANTS
    NodeCount = 3
    Secret = {s1, s2}
    NoSecret = NoSecret
    FaultyNode = {1}
    MaxLate = 0
    Threshold = 2
    BackupCodeCount = 1
    Req = {r1}
    Ops = {"setup", "verify", "disable"}
    Concurrent = {}
    StopsAt = {}
INVARIANT DisableCanBeRetried
