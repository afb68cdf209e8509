CONSTANTS
    MaxStarts = 4
    Threads = {t1, t2, t3}
    Reporters = {t1, t2}
    MaxDepth = 3
    MaxCalls = 2
    Values = {x, y, z}
    Others = TRUE
    LateErrors = FALSE
    Handles = {h1, h2, h3}
    HandleFds = {0, 1, 2}
    MaxOpens = 3
    WinHandles = {1, 2}
    WinStreams <- SharedStreams
    MaxSize = 4
    Capacity = 3
    ChildFds = {0, 1, 2, 3, 4, 5, 6}
    Opens = {{0, 1, 2, 3, 4}, {1, 2, 3}, {0, 3, 4}, {2, 3, 4}, {0, 2, 4}}
    Cloexecs = {0, 1, 3, 4}
    None = None
SPECIFICATION MCSpec
INVARIANTS
    ThreadsReleased
    StatusIsOfLastStart
    OwnerTold
    ValuesDestroyedOnce
    ErrorsTold
    CopyIsAtomic
    CallsComplete
    MoveLosesNothing
    OutsideUntouched
    FilesWhole
CHECK_DEADLOCK FALSE
