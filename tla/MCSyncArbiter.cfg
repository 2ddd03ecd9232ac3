SPECIFICATION SyncFairSpec
CONSTANTS
    Worker = {w1, w2}
    MaxMsg = 3
    MaxAddr = 2
    StartStops = TRUE
    MayPanic = TRUE
    LoopMayEnd = TRUE
INVARIANTS TakenInOrder
PROPERTIES PolledIsTaken WorkersEnd
CHECK_DEADLOCK FALSE
