SPECIFICATION FairSpec
CONSTANTS
    Tasks = {t1, t2, t3}
    Sems = {s1}
    Msgs = {m1}
    NULL = NULL
    MaxNest = 1
PROPERTIES
    ImplementsLock
    SharedIsServed
    ExclusiveIsServed
