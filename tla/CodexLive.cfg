SPECIFICATION FairSpec
CONSTANTS
    m1 = m1
    m2 = m2
    m3 = m3
    Message = {m1, m2}
    Resumed = TRUE
    Env = {"abort", "dispose", "asks", "works", "fails", "slow", "dies"}
INVARIANTS
    TypeOK
    NamesAndAnswers
PROPERTIES
    ImplementsTurnDriver
    LateItemsDropped
    NothingHangs
CHECK_DEADLOCK FALSE
