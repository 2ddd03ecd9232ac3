SPECIFICATION Spec
CONSTANTS
    MayCall <- Nested
    Supervised = FALSE
    MaxHandle = 0
    MaxFut = 2
    MaxAddr = 1
    MaxSend = 0
INVARIANTS CompletedNotPolled
CHECK_DEADLOCK FALSE
