SPECIFICATION Spec
CONSTANTS
    MayCall <- Restoring
    Supervised = FALSE
    MaxHandle = 1
    MaxFut = 1
    MaxAddr = 1
    MaxSend = 0
INVARIANTS ModifiedIsPolled
CHECK_DEADLOCK FALSE
