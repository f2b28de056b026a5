SPECIFICATION Spec
CONSTANTS
    Handlers = {h1, h2}
    Sids = {p1, p2}
    Sessions = {s1}
    User = User
    None = None
    MaxRepeats = 1
    MaxClock = 1
    MaxDeaths = 1
    Scenarios <- SmallScenarios
CHECK_DEADLOCK FALSE
PROPERTIES
    StaleLeaveIgnored
