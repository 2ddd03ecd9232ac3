SPECIFICATION SyncFairSpec
CONSTANTS
    Worker = {w1}
    MaxMsg = 2
    MaxAddr = 2
    StartStops = FALSE
    MayPanic = FALSE
    LoopMayEnd = FALSE
PROPERTIES AcceptedIsTaken
CHECK_DEADLOCK FALSE
