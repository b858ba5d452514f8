SPECIFICATION WebSpec
CONSTANTS
    u1 = u1
    User = {u1}
    Family = {f1}
    NoUser = NoUser
    NoFamily = NoFamily
    Owner <- OneOwner
    MaxToken = 2
    Tab = {x1}
    Name = {a}
    Req <- Slots
    Ops = {"register", "login", "refresh", "logout"}
    Racing = {}
    Faulty = FALSE
    Orderly = TRUE
    Unreliable = FALSE
CHECK_DEADLOCK FALSE
PROPERTIES
    LogoutRevokes
