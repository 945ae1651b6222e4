SPECIFICATION Spec
CONSTANTS
    A = A
    B = B
    c1 = c1
    c2 = c2
    c3 = c3
    t1 = t1
    s1 = s1
    NoAccount = NoAccount
    NoKey = NoKey
    Accounts = {A, B}
    Keys = {t1}
    Conns = {c1, c2, c3}
    Thread <- OneThread
    Session <- NoSession
    Serves <- ServedByOne
    Switchers = {c1, c2, c3}
    Http = {}
    Statuses = {"available"}
    StoreMayFail = FALSE
    MaxClaims = 1
    MaxRefs = 3
    MaxClock = 0
PROPERTIES
    DepartureKeepsPeers
