SPECIFICATION TasksSpec
CONSTANTS
    r1 = r1
    None = None
    Reader = {r1, r2}
    Sleeper = {r1, r2, r3}
    Caller = {r1, r2}
    PageSize = 4
    LineLen = 2
    Count = {1, 9}
    NR_TIMEVAL = 3
    MaxWhole = 6
    MaxSplit = 2
    LIMIT = 1
    LOOPS = 3
    delay = 2
    WRAP = 8
    Writes = 3
    MaxCalls = 3
    Fastest = 5
    Few = 2
    Most = 3
    MaxSent = 3
CHECK_DEADLOCK FALSE
INVARIANTS
    SleepersHaveWakers
    
PROPERTIES
    AllComesToItsEnd
