SPECIFICATION Spec
CONSTANTS
    MaxTotal = 4
    MaxWaiters = 3
    MaxMin = 2
    Reserves = {0, 1, 5}
INVARIANTS
    BatchSound
    LeftoverShared
    QueueOrderKept
    ReserveRule
CHECK_DEADLOCK FALSE
