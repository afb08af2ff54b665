SPECIFICATION CvFairSpec
CONSTANTS
    Tasks = {t1, t2, t3, t4}
    Mutex = mutex
    Sems = {mutex}
    Msgs = {}
    NULL = NULL
    MaxNest = 2
    Patient = TRUE
CHECK_DEADLOCK FALSE
INVARIANTS
    CvTypeOK
    MutualExclusion
    NoLostWakeup
    NoSpuriousReturn
PROPERTY WokenReturns
