SPECIFICATION Spec
CONSTANTS
    MayCall <- Usual
    Supervised = TRUE
    MaxHandle = 2
    MaxFut = 3
    MaxAddr = 2
    MaxSend = 1
INVARIANTS SleepsSafely CompletedNotPolled
PROPERTIES PausedWhileWaiting KeptUntilDone Lifecycle
CHECK_DEADLOCK FALSE
