CONSTANTS
    PipeSize = 2
    MaxOutput = 4
SPECIFICATION FairSpec
INVARIANTS
    CaptureSound
PROPERTIES
    CaptureReturns
CHECK_DEADLOCK FALSE
