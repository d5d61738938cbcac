SPECIFICATION AutomationFairSpec
CONSTANTS
    w1 = w1
    w2 = w2
    Webhook = {w1, w2}
    MaxAttempts = 2
    MaxCrashes = 1
    Env = {}
    MaxRuns = 1
    MaxEntries = 2
    Window = 2
    Limit = 2
INVARIANTS
    TypeOK
    NeverLost
    RequestsBounded
    HistoryKept
PROPERTIES
    WorkEnds
CHECK_DEADLOCK FALSE
