SPECIFICATION Spec
CONSTANTS
    m1 = m1
    m2 = m2
    m3 = m3
    Message = {m1, m2}
    Request = {m1, m2}
    NoRequest = NoRequest
    Blank = Blank
    MaxEpoch = 1
    Env = {"arms", "midway", "stalls", "abort", "dispose", "preflight", "fails", "ends", "rejects", "lost", "foreign"}
PROPERTIES
    ImplementsTurnQueue
CHECK_DEADLOCK FALSE
