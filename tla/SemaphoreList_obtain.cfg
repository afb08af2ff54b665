SPECIFICATION ListFairSpec
CONSTANTS
    Tasks = {t1, t2}
    s1 = s1
    s2 = s2
    Sems = {s1, s2}
    Msgs = {m1}
    NULL = NULL
    MaxNest = 2
    List <- ListOfTwo
CHECK_DEADLOCK FALSE
INVARIANTS
    ListTypeOK
    ListMutualExclusion
    NoMissedSignal
PROPERTY ListIsServed
