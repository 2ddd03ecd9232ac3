SPECIFICATION SyncSpec
CONSTANTS
    Worker = {w1}
    MaxMsg = 1
    MaxAddr = 2
    StartStops = TRUE
    MayPanic = FALSE
    LoopMayEnd = FALSE
INVARIANTS StopsImmediately
CHECK_DEADLOCK FALSE
