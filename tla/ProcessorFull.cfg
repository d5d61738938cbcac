SPECIFICATION Spec
CONSTANTS
    task = task
    call = call
    u1 = u1
    u2 = u2
    Tool = {task, call}
    Parent = task
    User = {u1, u2}
    Echo = {u1, u2}
    MaxTurn = 2
    MaxMessage = 4
    Env = {"tasks", "shells", "reorders", "streams", "fails", "stops", "queues", "late", "asides"}
INVARIANTS
    TypeOK
    OwnMessages
    StatusIsShown
    AllShown
SYMMETRY Symmetry
CHECK_DEADLOCK FALSE
