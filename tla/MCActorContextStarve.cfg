SPECIFICATION FairSpec
CONSTANTS
    MayCall <- Pausing
    Supervised = FALSE
    MaxHandle = 3
    MaxFut = 4
    MaxAddr = 1
    MaxSend = 0
PROPERTIES EveryItemServed
CHECK_DEADLOCK FALSE
