SPECIFICATION Spec
CONSTANTS
 MaxLine = 4
 MaxDay = 2
 RetentionDays = 2
 MaxFileSize = 2
 MaxTotalSize = 2
 Members = {a1, a2}
 Refreshers = {r1, r2}
 MaxVersion = 2
 RefreshInterval = 2
 MaxChanges = 2
 Modes = {default, on, off}
 DefaultMode = default
 Relays = {c1, c2}
 MaxWrites = 2
 Payers = {p1}
 NoPayer = np
 Readers = {q1}
 MaxPrice = 1
 MaxUsage = 2
 MaxMonth = 2
 LedgerBatch = 1
 Connections = {w1, w2}
 ThreadKeys = {t1}
 Hosts = {h1, h2}
 Window = 1
 MaxTime = 2
 MaxInstant = 3
 MaxPoints = 4
 MaxCredits = 1
 KeptFor = 1
 PruneAt = 2
 Ranked = {1, 2, 3}
 Candidates <- MCCandidates
 Pages = {g1, g2}
 MaxLogins = 3
CHECK_DEADLOCK FALSE
INVARIANTS
    TypeOK
    LinesAreKept
    ChangesArrive
    BooksAgree
    ThreadsAreTrue
    SinceIsTheSum
    SelectedAsPromised
    LoginIsShared
PROPERTIES
    MaintainTidies
    ListsImprove
    CatalogConverges
    SettingsReachRelays
    LoginsEnd
