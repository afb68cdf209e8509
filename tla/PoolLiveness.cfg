CONSTANTS
    main = main
    aux = aux
    t1 = t1
    t2 = t2
    t3 = t3
    Free = Free
    NoTask = NoTask
    NumThreads = 2
    Clients = {main, aux}
    Ops <- OwnerBlocks
    Tasks = {t1, t2}
    Prio <- Prios
    StartMayFail = TRUE
SPECIFICATION FairSpec
PROPERTIES QueuedTaskSettles WaitAllReturns JoinReturns
