CONSTANTS
    Account = {a1}
    Device = {d1}
    Queue = {q1, q2}
    Key = {k1, k2}
    Slot = {s1, s2}
    None = None
    TransportOps = {"create", "send", "recv", "ack", "retire"}
    Pushable = {}
    AccountLimit <- NoAccountLimit
    Limits = {0}
    Sizes = {1}
    TTLs = {1}
    MaxSeq = 2
    MaxTime = 1
    MaxFailures = 0
SPECIFICATION TSpec
SYMMETRY Symmetry
CHECK_DEADLOCK FALSE
INVARIANTS OneSenderPerQueue NothingLost
PROPERTIES RemovedForAReason ClosedStaysClosed
