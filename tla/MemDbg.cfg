CONSTANTS
    Null = Null
    Threads = {th1, th2}
    Addrs = {a1, a2, a3}
    MaxLevels = 2
    Capacity = 2
    SizeMod = 4
    Quiet = TRUE
    Failures = {"free", "keep", "zero_keep"}
SPECIFICATION Spec
INVARIANTS
    BlocksAccounted
    LogRight
SYMMETRY Symmetric
CONSTRAINTS UntilReturn ThirdAddress
CHECK_DEADLOCK FALSE
