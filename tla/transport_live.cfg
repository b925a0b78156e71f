CONSTANTS
    Account = {a1}
    Device = {d1}
    Queue = {q1}
    Key = {k1}
    Slot = {s1, s2}
    None = None
    TransportOps = {"create", "send", "retire", "cap"}
    Pushable = {d1}
    AccountLimit <- NoAccountLimit
    Limits = {0}
    Sizes = {1}
    TTLs = {1}
    MaxSeq = 2
    MaxTime = 1
    MaxFailures = 1
SPECIFICATION TFairSpec
CHECK_DEADLOCK FALSE
PROPERTIES ExpiredAreDeleted OwnerWoken CappedIsTold
