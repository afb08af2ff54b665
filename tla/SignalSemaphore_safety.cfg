CONSTANTS
    t1 = t1
    t2 = t2
    t3 = t3
    s1 = s1
    m1 = m1
    m2 = m2
    NULL = NULL
    Tasks = {t1, t2, t3}
    Sems = {s1}
    Msgs = {m1, m2}
    MaxNest = 2
SYMMETRY Symmetry
SPECIFICATION Spec
INVARIANTS
    TypeOK
    CountsAgree
    NoForgottenWaiter
    MutualExclusion
    NestCountIsLocks
    AwakeMeansHanded
    SharedNeverQueuesBehindShared
    ReplyTellsOutcome
