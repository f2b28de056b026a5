SPECIFICATION AllSpec
CONSTANTS
    RbacActions <- MCRbacActions
    Users = {u1}
    Roles = {}
    NoOne = NoOne
    User = u1
    u1 = u1
    Handlers = {h1, h2, h3}
    OverwriteChoices <- MCOverwriteChoices
    MaxOps = 4
    Sockets = {k1}
    Calls = {c1, c2}
    Tokens = {t1, t2}
    Sessions = {s1, s2}
    SidOf <- MCSidOf
    InstanceOf <- MCInstanceOf
    t1 = t1
    s1 = s1
    s2 = s2
    i1 = i1
    Instances = {i1}
    UserRoom = UserRoom
    None = None
    Revocable = {s1, t2}
    Incidents = {"banned", "leave", "stop"}
    Others = {o1}
    Sends = {m1}
    MaxTries = 2
    MaxDrops = 1
SYMMETRY Symmetry
CHECK_DEADLOCK FALSE
INVARIANTS
    AllTypesOK
    ViewersOnly
    NoViewerMissing
    EndedSocketIsReached
    NeverBoth
    EventsArePermanent
PROPERTIES
    RevocationHitsOnlyItsOwn
