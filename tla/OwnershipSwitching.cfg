SPECIFICATION Spec
CONSTANTS
    A = A
    B = B
    c1 = c1
    c2 = c2
    c3 = c3
    t1 = t1
    s1 = s1
    NoAccount = NoAccount
    NoKey = NoKey
    Accounts = {A, B}
    Keys = {t1}
    Conns = {c1, c2}
    Thread <- OneThread
    Session <- NoSession
    Serves <- ServedByOne
    Switchers = {c1, c2}
    Http = {}
    Statuses = {"available", "out"}
    StoreMayFail = TRUE
    MaxClaims = 2
    MaxRefs = 2
    MaxClock = 1
INVARIANTS
    InvalidationIsFinal
PROPERTIES
    ClaimsSpec
