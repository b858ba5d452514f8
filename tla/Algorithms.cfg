SPECIFICATION AlgSpec
CONSTANTS
    N = 3
    Threshold = 2
    Secrets <- SomeSecrets
    Randoms <- SomeRandoms
    MinLength = 2
    MaxLength = 4
    Window = 4
    SomePasswords <- AllPasswords
    MaxEmail = 6
    MaxLocal = 1
    SomeEmails <- AllEmails
    HMAC <- HMACs
    Times = {0, 1, 29, 30, 59, 60, 61, 89, 90, 119, 120, 121, 149}
    Reference <- Codes
CHECK_DEADLOCK FALSE
INVARIANTS
    Recovers
    Hides
    TablesAgree
    RunsAreFound
    TypingOn
    CanLogIn
    MatchesRFC
    CodeLifetime
