SPECIFICATION Spec
CONSTANTS
    A = A
    B = B
    c1 = c1
    c2 = c2
    c3 = c3
    t1 = t1
    s1 = s1
    NoAccount = NoAccount
    NoKey = NoKey
    Accounts = {A, B}
    Keys = {t1, s1}
    Conns = {c1, c2}
    Thread <- ThreadOfC1
    Session <- OneSession
    Serves <- ServedByAll
    Switchers = {}
    Http = {c2}
    Statuses = {"available", "cooling", "credits"}
    StoreMayFail = TRUE
    MaxClaims = 2
    MaxRefs = 2
    MaxClock = 2
SYMMETRY AnyAccount
INVARIANTS
    OwnershipInv
PROPERTIES
    AcceptanceTakesRoute
