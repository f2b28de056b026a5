SPECIFICATION Spec
CONSTANTS
    Requests = {r1, r2, r3}
    Tokens = {t1, t2, t3}
    Sessions = {s1}
    Origins = {o1, o2}
    Devices = {d1}
    o1 = o1
    d1 = d1
    DeviceOf <- MCDeviceOf
    None = None
    MaxHops = 2
    MaxResets = 0
    AdminOps = {"ban"}
SYMMETRY Symmetry
CHECK_DEADLOCK FALSE
INVARIANTS
    OneLiveToken
    RevokedSessionHasNoRow
PROPERTIES
    SentTokenIsCurrent
    BannedNeverRenewed
