SPECIFICATION Spec
CONSTANTS
    NodeCount = 3
    Secret = {s1, s2}
    NoSecret = NoSecret
    FaultyNode = {1}
    MaxLate = 0
    Threshold = 2
    BackupCodeCount = 1
    Req = {r1, r2}
    Ops = {"setup", "verify", "disable"}
    Concurrent = {"verify", "disable"}
    StopsAt = {}
SYMMETRY Symmetry
INVARIANTS
    TypeOK
    OrphansBelowThreshold
PROPERTIES
    OnlyDisableTakesApart
    ErasedBeforeForgotten
    ValidCodeAccepted
    EnableProvesSecret
    SuccessMeansFullyShared
    KeepsEnrolment
