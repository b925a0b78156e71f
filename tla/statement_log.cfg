CONSTANTS
    Principal = {d1, d2}
    Nonce = {n1, n2}
    Handler = {h1, h2}
    None = None
    Skew = 1
    Drifts = {0, 2}
    MaxSigned = 2
    MaxTime = 3
    MaxRestarts = 1
    Account = {a1}
    Home <- OneHome
    Admin = {d1}
    Reader = {d2}
    MaxStatementsPerAccount = 2
    MaxAppends = 4
SPECIFICATION LSpec
SYMMETRY Symmetry
CHECK_DEADLOCK FALSE
INVARIANTS STypeOK CacheIsBounded LogIsRecentWindow MissesOnlyTrimmed
PROPERTIES ServedOnceInItsWindow NoFalseReplay
