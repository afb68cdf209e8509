CONSTANTS
    Null = Null
    Threads = {th1, th2}
    Addrs = {a1, a2}
    MaxLevels = 2
    Capacity = 2
    SizeMod = 4
    Quiet = FALSE
    Failures = {}
SPECIFICATION Spec
INVARIANTS NotCorrupted
