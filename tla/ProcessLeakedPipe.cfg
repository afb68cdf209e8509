CONSTANTS
    Threads = {th1, th2}
    Children = {c1, c2}
    Pids = {p1, p2}
    Program = Program
    None = None
SPECIFICATION FairSpec
PROPERTIES
    SpawnIsSynchronous
CHECK_DEADLOCK FALSE
