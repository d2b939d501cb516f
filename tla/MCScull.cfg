SPECIFICATION Spec
CONSTANTS
    File = {f1, f2}
    Quanta = {1, 2}
    QSets = {1, 2}
    Data <- Ordered
    Count = {3}
    Offsets = {0}
    MaxPos = 3
    Hole = Hole
    Garbage = Garbage
CHECK_DEADLOCK FALSE
INVARIANTS
    WellFormed
PROPERTIES
    ImplementsSparseFile
