CONSTANTS
    Vecs = {va, vb}
    Values = {x1, x2}
    Items = {i1, i2, i3, i4}
    DefaultCapacity = 1
    MaxCapacity = 3
    Null = Null
    Known = {"moved", "fit", "sizes", "realloc", "insert", "set"}
SPECIFICATION Spec
INVARIANTS
    MemorySound
PROPERTIES
    ImplementsVectorSpec
CONSTRAINT UntilUsed
SYMMETRY Symmetric
CHECK_DEADLOCK FALSE
