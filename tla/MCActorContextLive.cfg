SPECIFICATION FairSpec
CONSTANTS
    MayCall <- Busy
    Supervised = FALSE
    MaxHandle = 3
    MaxFut = 4
    MaxAddr = 1
    MaxSend = 2
PROPERTIES MessagesHandled ItemsServed StopAnswered
CHECK_DEADLOCK FALSE
