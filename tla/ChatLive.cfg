SPECIFICATION FairSpec
CONSTANTS
    f1 = f1
    f2 = f2
    Fetch = {f1}
    MaxAttempts = 1
    MaxSeq = 2
    MaxEpoch = 2
    MaxBreaks = 1
    Env = {"metas", "closes", "disposes"}
INVARIANTS
    TypeOK
    NothingLost
    CutsAgree
PROPERTIES
    EventuallyShown
CHECK_DEADLOCK FALSE
