SPECIFICATION FairSpec
CONSTANTS
    m1 = m1
    m2 = m2
    m3 = m3
    Message = {m1, m2}
    Env = {"abort", "dispose", "bare", "fails"}
INVARIANTS
    TypeOK
    OneConversation
    JudgedOnce
PROPERTIES
    ImplementsTurnDriver
    NothingHangs
CHECK_DEADLOCK FALSE
