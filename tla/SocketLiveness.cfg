SPECIFICATION SocketFairSpec
CONSTANTS
    Sockets = {k1}
    Calls = {c1}
    Tokens = {t0, t1}
    Sessions = {s1}
    t0 = t0
    t1 = t1
    s1 = s1
    i1 = i1
    SidOf <- MCSidOf
    Instances = {i1}
    InstanceOf <- MCInstanceOf
    UserRoom = UserRoom
    None = None
    Revocable = {t0}
    Incidents = {"banned", "deleted", "reset", "lost", "leave", "stop"}
CHECK_DEADLOCK FALSE
PROPERTIES
    EndedSocketCloses
    ExpiredSocketCloses
