SPECIFICATION MCSpec
CONSTANTS
    Writer = {w1, w2}
    Reader = {r}
    Nobody = Nobody
    NoByte = NoByte
    OutSize = 3
    Data <- Pieces
    Losing = TRUE
    PageSize = 5
    LineLen = 3
    Count = {9}
SYMMETRY Alike
INVARIANTS
    OutputKeepsMoving
    NoLostWakeup
PROPERTIES
    ImplementsQueue
