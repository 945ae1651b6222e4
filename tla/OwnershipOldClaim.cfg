SPECIFICATION Spec
CONSTANTS
    A = A
    B = B
    c1 = c1
    c2 = c2
    c3 = c3
    t1 = t1
    s1 = s1
    NoAccount = NoAccount
    NoKey = NoKey
    Accounts = {A, B}
    Keys = {t1}
    Conns = {c1, c2}
    Thread <- OneThread
    Session <- NoSession
    Serves <- ServedByAll
    Switchers = {}
    Http = {}
    Statuses = {"available", "spent"}
    StoreMayFail = FALSE
    MaxClaims = 2
    MaxRefs = 2
    MaxClock = 3
PROPERTIES
    NewOwnerStays
