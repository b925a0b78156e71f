CONSTANTS
    Account = {a1}
    Device = {d1}
    Invitation = {i1}
    Request = {r1, r2}
    None = None
    Ops = {"revoke", "setPush", "setBundle"}
    Offered = {""}
    MaxFaults = 0
    Queue = {q1}
    Key = {k1}
    Slot = {s1}
    TransportOps = {"create", "send"}
    AccountLimit <- NoAccountLimit
    Limits = {0}
    Sizes = {1}
    TTLs = {1}
    MaxSeq = 1
    MaxTime = 0
    MaxFailures = 0
SPECIFICATION RelaySpec
CHECK_DEADLOCK FALSE
INVARIANT RevokedIsCutOff
