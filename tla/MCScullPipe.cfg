SPECIFICATION MCSpec
CONSTANTS
    File = {f1, f2}
    Sizes = {2, 3}
    Data <- Ordered
    Count = {1, 2}
    NoByte = NoByte
    Nobody = Nobody
INVARIANTS
    NoLostWakeup
    BufferOfUsers
PROPERTIES
    ImplementsFifo
    ReaderWakes
