CONSTANTS
    Account = {a1, a2}
    Device = {d1, d2}
    Queue = {q1, q2}
    Key = {k1}
    Slot = {s1}
    None = None
    TransportOps = {"create", "send", "setQuota", "cap"}
    Pushable = {}
    AccountLimit <- OneAccountLimit
    Limits = {0, 2}
    Sizes = {2}
    TTLs = {1}
    MaxSeq = 2
    MaxTime = 1
    MaxFailures = 0
SPECIFICATION TSpec
SYMMETRY Symmetry
CHECK_DEADLOCK FALSE
INVARIANTS TTypeOK
PROPERTIES CeilingsHold RemovedForAReason
