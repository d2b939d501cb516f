SPECIFICATION Spec
CONSTANTS
    Max = 2
    Ptr = {p1, p2, p3}
    NULL = NULL
    Sizes = {1, 2}
    Handle = {h1, h2}
    Data <- Pieces
    Count = {1, 2}
    MaxLine = 2
    NL = "nl"
    Garbage = "garbage"
    ZeroPtr = ZeroPtr
    Nobody = Nobody
SYMMETRY Symmetry
INVARIANTS
    TypeOK
    RingInv
    FindIsExact
    NoDanglingEntry
    LeaksOnlyAfterFault
PROPERTIES
    RingKeepsLog
    ImplementsLineDevice
