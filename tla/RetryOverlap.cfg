SPECIFICATION Spec
CONSTANTS
    w1 = w1
    w2 = w2
    Webhook = {w1, w2}
    MaxAttempts = 3
    MaxCrashes = 0
    Env = {"overlap"}
INVARIANTS
    NeverLost
CHECK_DEADLOCK FALSE
