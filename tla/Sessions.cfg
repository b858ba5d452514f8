SPECIFICATION Spec
CONSTANTS
    u1 = u1
    User = {u1}
    Family = {f1, f2}
    NoUser = NoUser
    NoFamily = NoFamily
    Owner <- OneOwner
    MaxToken = 3
    Req = {r1, r2}
    Ops = {"register", "login", "refresh", "logout", "logoutAll"}
    Racing = {f2}
    Faulty = TRUE
SYMMETRY Symmetry
INVARIANTS
    TypeOK
    Indexed
PROPERTIES
    LogoutAllReachesAll
    ReuseEndsSession
    FailedRefreshKeepsToken
    
