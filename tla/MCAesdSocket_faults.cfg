SPECIFICATION Spec
CONSTANTS
    Conn = {c1, c2}
    Tid = {t1, t2}
    Lines = 3
    NL = NL
    Nobody = Nobody
    MaxPart = 1
    Chunks = {"line", "part", "empty"}
    Faults = {"mutex", "socket", "setsockopt", "bind", "fork", "session", "listen", "parent",
              "close", "open", "write", "send", "malloc", "create", "accept", "reset", "garbage"}
CHECK_DEADLOCK FALSE
INVARIANTS
    NothingRunsAtExit
    EndPosBehindDevice
