SPECIFICATION SyncSpec
CONSTANTS
    Worker = {w1, w2}
    MaxMsg = 3
    MaxAddr = 2
    StartStops = FALSE
    MayPanic = TRUE
    LoopMayEnd = FALSE
INVARIANTS ShouldNotFail
CHECK_DEADLOCK FALSE
