SPECIFICATION CvSpec
CONSTANTS
    Tasks = {t1, t2, t3}
    Mutex = mutex
    Sems = {mutex}
    Msgs = {}
    NULL = NULL
    MaxNest = 2
    Patient = FALSE
CHECK_DEADLOCK FALSE
INVARIANT MutualExclusion
