SPECIFICATION FairSpec
CONSTANTS
    s1 = s1
    s2 = s2
    Session = {s1, s2}
    Slot = {1, 2}
    r1 = r1
    r2 = r2
    Refresh = {r1, r2}
    MaxToken = 3
    Env = {"logins", "deletes", "selfsaves", "lost", "restarts"}
INVARIANTS
    TypeOK
    OutcomeIsTrue
PROPERTIES
    RefreshesAreRationed
    CallsEnd
CHECK_DEADLOCK FALSE
