SPECIFICATION Spec
CONSTANTS
    c1 = c1
    c2 = c2
    p1 = p1
    o1 = o1
    o2 = o2
    o3 = o3
    d1 = d1
    d2 = d2
    None = None
    Process = {p1, p2}
    Lines = {"RTS"}
    MaxTty = 2
    Faults = TRUE
    Packets = 2
    Fifosize = 4
    UART_XMIT_SIZE = 4
    WAKEUP_CHARS = 2
    MaxOpens = 2
    NPages = 3
    SetSize = 2
    Block = {1, 2, 3}
    FewPages = 2
    FewBlocks = {1, 2}
    Orders = {0, 1}
    SetSizes = {1, 2}
    Dev = {d1, d2}
    Caller = {p1}
    Object = {o1, o2}
    ObjectSize = 2
    Quanta = {1, 2}
    Qsets = {1, 2}
    NBytes = 3
    NDevices = 2
    Qset = 1
    PageLines = 4
    MaxItems = 2
    MaxTrims = 1
SYMMETRY Alike
CHECK_DEADLOCK FALSE
INVARIANTS
    DataKept
    MappingKeepsPages
    FedWhileOpen
    FreedWhenUnused
    LoadsGiveBack
    ListsUnderMutex
