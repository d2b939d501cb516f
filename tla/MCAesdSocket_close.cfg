SPECIFICATION FairSpec
CONSTANTS
    Conn = {c1}
    Tid = {t1}
    Lines = 3
    NL = NL
    Nobody = Nobody
    MaxPart = 1
    Chunks = {"part"}
    Faults = {"close"}
CHECK_DEADLOCK FALSE
PROPERTIES
    EveryClientServed
