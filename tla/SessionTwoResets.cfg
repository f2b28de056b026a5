SPECIFICATION Spec
CONSTANTS
    Requests = {r1, r2}
    Tokens = {t1}
    Sessions = {s1}
    Origins = {o1}
    Devices = {d1}
    o1 = o1
    d1 = d1
    DeviceOf <- MCDeviceOf
    None = None
    MaxHops = 1
    MaxResets = 2
    AdminOps = {}
SYMMETRY Symmetry
CHECK_DEADLOCK FALSE
INVARIANTS
    OldPasswordAccessRejected
