SPECIFICATION Spec
CONSTANTS
    MayCall <- Cancelling
    Supervised = FALSE
    MaxHandle = 2
    MaxFut = 2
    MaxAddr = 1
    MaxSend = 0
PROPERTIES KeptUntilDone
CHECK_DEADLOCK FALSE
