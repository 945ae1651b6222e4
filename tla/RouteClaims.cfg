SPECIFICATION ClaimsSpec
CONSTANTS
    A = A
    B = B
    c1 = c1
    c2 = c2
    c3 = c3
    t1 = t1
    t2 = t2
    s = s
    NoAccount = NoAccount
    NoKey = NoKey
    Accounts = {A, B}
    Keys = {t1, t2, s}
    Conns = {c1, c2, c3}
    Thread <- MCThread
    Session <- MCSession
    Switchers = {c1, c2, c3}
    MaxClaims = 2
    MaxRefs = 3
INVARIANTS
    OneClaimPerConversation
    RegistryInv
