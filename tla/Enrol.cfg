SPECIFICATION Spec
CONSTANTS
    NodeCount = 3
    Secret = {s1, s2, s3}
    NoSecret = NoSecret
    FaultyNode = {1}
    MaxLate = 1
    Threshold = 2
    BackupCodeCount = 1
    Req = {r1, r2}
    Ops = {"setup", "verify"}
    Concurrent = {"verify"}
    StopsAt = {}
SYMMETRY Symmetry
INVARIANTS
    EnabledImpliesRecoverable

    
