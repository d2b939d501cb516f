SPECIFICATION MCSpec
CONSTANTS
    sn0 = sn0
    Dev = {sn0, sn1}
    Buffer = {1, 2, 3, 4}
    NULL = NULL
    PoolSizes = {1, 2}
    Budget = 2
    MaxSent = 4
CHECK_DEADLOCK FALSE
INVARIANTS
    ReceivedOnce
    QueueFollowsPool
    SkbFreedOnce
PROPERTIES
    QueueGoesOn
