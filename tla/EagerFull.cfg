SPECIFICATION Spec
CONSTANTS
    m1 = m1
    m2 = m2
    m3 = m3
    r1 = r1
    r2 = r2
    Blank = Blank
    NoRequest = NoRequest
    Message = {m1, m2, m3}
    Request = {r1}
    Env = {"absent", "abort", "preflight", "dispose", "slow", "swallow", "parallel"}
PROPERTY ImplementsTurnQueue
CHECK_DEADLOCK FALSE
