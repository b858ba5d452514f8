SPECIFICATION WebSpec
CONSTANTS
    u1 = u1
    User = {u1}
    Family = {f1, f2}
    NoUser = NoUser
    NoFamily = NoFamily
    Owner <- OneOwner
    MaxToken = 3
    Tab = {x1}
    Name = {a, b}
    Req <- Slots
    Ops = {"register", "login", "refresh", "logout", "logoutAll"}
    Racing = {f1, f2}
    Faulty = FALSE
    Orderly = TRUE
    Unreliable = TRUE
CHECK_DEADLOCK FALSE
INVARIANTS
    WebTypeOK
    CookieIsAccepted
PROPERTIES
    KeptSignedIn
    ThreadEnds
