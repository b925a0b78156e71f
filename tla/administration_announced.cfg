CONSTANTS
    Account = {a1, a2}
    Device = {d1, d2}
    Invitation = {i1, i2}
    Request = {r1}
    None = None
    Ops = {"invite", "uninvite", "revoke", "setRole", "setPush", "setBundle"}
    Offered = {"url"}
    MaxFaults = 1
SPECIFICATION FoundedSpec
CHECK_DEADLOCK FALSE
INVARIANTS SpentOrRevoked
PROPERTIES TenantIsolation ActsAnnounced TargetTold
