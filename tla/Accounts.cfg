SPECIFICATION AccountsSpec
CONSTANTS
    Tabs = {a, b}
    None = None
    Refusal = Refusal
    Timeout = 1
    Cooldown = 1
    MaxAttempts = 3
    MaxBackoff = 2
    Budget = 2
    Rounds = 2
    Second = 1
    Grace = 4
    MaxToken = 3
    MaxStarts = 3
    Devices = {d1, d2}
    MaxPassword = 2
    MaxBans = 2
    Files = {f1, f2}
    Jobs = {j1, j2}
    NoFile = NoFile
    Quota = 1
    MaxFaults = 1
CHECK_DEADLOCK FALSE
INVARIANTS
    AllTypesOK
    LiveFilesHaveBytes
    NoBytesLeft
PROPERTIES
    RetriesKeepTheSession
    CookieNeverGoesBack
    PageLoadEnds
    ApprovalStood
    UsageIsRestored
    DeletedBytesAreFreed
