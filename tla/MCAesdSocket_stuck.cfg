SPECIFICATION FairSpec
CONSTANTS
    Conn = {c1, c2}
    Tid = {t1, t2}
    Lines = 3
    NL = NL
    Nobody = Nobody
    MaxPart = 1
    Chunks = {"line"}
    Faults = {"write"}
CHECK_DEADLOCK FALSE
PROPERTIES
    SignalStopsServer
