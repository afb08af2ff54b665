CONSTANTS
    c1 = c1
    p1 = p1
    q1 = q1
    u1 = u1
    u2 = u2
    t1 = t1
    t2 = t2
    None = None
    UnitPort = UnitPort
    Tasks = {c1}
    Ports = {p1, q1}
    UnitRequests = {u1, u2}
    TimerRequests = {t1, t2}
    Timeouts = {t1}
    PortTask <- TaskOfPort
    ReplyPort <- PortOfRequest
    Preempts = {}
    MaxTime = 2
SPECIFICATION FairSpec
INVARIANTS
    TypeOK
    RequestInOnePlace
    RemovedIsLinked
    NoMissedReply
    TimeoutLeavesNothing
PROPERTIES
    NoneOverdue
    IoReturns
