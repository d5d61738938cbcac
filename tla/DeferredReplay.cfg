SPECIFICATION FairSpec
CONSTANTS
    m1 = m1
    m2 = m2
    m3 = m3
    Message = {m1, m2}
    Request = {m1, m2}
    NoRequest = NoRequest
    Blank = Blank
    MaxEpoch = 2
    Env = {"arms", "suspends", "fails", "repeat"}
PROPERTIES
    ExecutedOnce
    QueueDrains
CHECK_DEADLOCK FALSE
