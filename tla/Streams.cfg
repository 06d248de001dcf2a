SPECIFICATION MCSpec
CONSTANTS
    NoEvent = NoEvent
    Pushers = {p1, p2}
    Takers = {t1, t2}
    Watchers = {w1}
    Timed = {p1, t2, w1}
    Worker = p1
    Responder = t2
    Capacity = 2
    MaxPushes = 2
    MaxPublished = 4
    MaxSlices = 2
INVARIANTS FinalMessageLast NoLostWakeup HeardWhole
PROPERTIES WorkerLetGo AbortReturns
CHECK_DEADLOCK FALSE
