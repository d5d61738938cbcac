SPECIFICATION Spec
CONSTANTS
    m1 = m1
    m2 = m2
    m3 = m3
    Message = {m1, m2, m3}
    Request = {m1, m2, m3}
    NoRequest = NoRequest
    Blank = Blank
    MaxEpoch = 0
    Env = {"pinned", "asks", "fails", "rejects"}
INVARIANTS
    TypeOK
    SingleFlight
    QueueMirrorsReducer
    StateIsTrue
CHECK_DEADLOCK FALSE
