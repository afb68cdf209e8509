CONSTANTS
    HasVersion = TRUE
    MapFaults = {}
    Vecs = {"u", "w"}
    Items = {1, 2, 3}
    Keys <- TextKeys
    DefaultCapacity = 1
    MaxCapacity = 3
    Known = {"realloc", "fit"}
    NoPath = NoPath
    Npos = Npos
    NoValue = NoValue
    None = None
SPECIFICATION MCSpec
INVARIANTS
    Utf8IsValid
    ClustersAgree
    ResultIsNormal
    CaseMapped
    StringsKept
    TypedVectorsHold
    PathsAgree
    ContentsHeld
    CommandLinesRight
CONSTRAINT Bounds
CHECK_DEADLOCK FALSE
