CONSTANTS
    Account = {a1}
    Device = {d1, d2}
    Invitation = {i1, i2, i3}
    Request = {r1, r2}
    None = None
    Ops = {"invite", "revoke"}
    Offered = {""}
    MaxFaults = 0
SPECIFICATION Spec
SYMMETRY Symmetry
CHECK_DEADLOCK FALSE
PROPERTY LastAdminNeverTaken
