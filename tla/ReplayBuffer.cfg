SPECIFICATION FairSpec
CONSTANTS
    Egresses = {e1, e2}
    Pods = {q1}
    Handlers = {h1, h2}
    None = None
    MaxBlips = 2
    MaxCrashes = 1
    Scenarios <- SmallScenarios
CHECK_DEADLOCK FALSE
INVARIANTS
    TypeOK
    LiveSegmentsKept
PROPERTIES
    OneBlipEndsNothing
    EndedRowsLeaveActive
