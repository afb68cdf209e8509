CONSTANTS
    main = main
    aux = aux
    t1 = t1
    t2 = t2
    t3 = t3
    Free = Free
    NoTask = NoTask
    NumThreads = 2
    Clients = {main, aux}
    Ops <- OwnerAndAdder
    Tasks = {t1, t2, t3}
    Prio <- Prios
    StartMayFail = TRUE
SPECIFICATION Spec
INVARIANTS
    TypeOK
    RunningCount
    WorkersMatchState
    NobodyStranded
PROPERTIES
    WaitAllSettles
    FailedStartKeepsTasks
    ImplementsTaskPool
CHECK_DEADLOCK FALSE
