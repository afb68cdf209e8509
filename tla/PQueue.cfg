CONSTANTS
    p1 = p1
    p2 = p2
    x1 = x1
    x2 = x2
    x3 = x3
    x4 = x4
    Free = Free
    Null = Null
    SizeMax = SizeMax
    Threads = {p1, p2}
    Items = {x1, x2, x3, x4}
    Prio <- Prios
    MT = TRUE
    InitialBuckets = 1
    ReallocMayFail = TRUE
SPECIFICATION Spec
INVARIANTS
    QueueSound
PROPERTIES
    ImplementsPQueueSpec
CHECK_DEADLOCK FALSE
