SPECIFICATION Spec
CONSTANTS
    A = A
    r = r
    p = p
    NoAccount = NoAccount
    Accounts = {A}
    Callers = {r, p}
    Requests = {r}
    Limit = 1
    MaxOps = 2
    MaxClock = 2
CHECK_DEADLOCK FALSE
INVARIANTS
    TypeOK
    ExchangeIsShared
    ExitTellsLoss
PROPERTIES
    LoginSurvives
    DrainIsComplete
    ContractHolds
    ShutdownEnds
