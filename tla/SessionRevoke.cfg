SPECIFICATION Spec
CONSTANTS
    Requests = {r1, r2}
    Tokens = {t1, t2, t3}
    Sessions = {s1, s2}
    Origins = {o1}
    Devices = {d1}
    o1 = o1
    d1 = d1
    DeviceOf <- MCDeviceOf
    None = None
    MaxHops = 1
    MaxResets = 1
    AdminOps = {"delete"}
SYMMETRY Symmetry
CHECK_DEADLOCK FALSE
INVARIANTS
    TypeOK
    RowsOfCurrentPassword
    RevokedAccessRejected
    OldPasswordAccessRejected
PROPERTIES
    ImplementsContract
