SPECIFICATION WindowSpec
CONSTANTS
    Others = {o1}
    Sends = {m1}
    MaxTries = 2
    MaxDrops = 1
CHECK_DEADLOCK FALSE
INVARIANTS
    FailedSendIsShown
