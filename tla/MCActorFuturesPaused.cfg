SPECIFICATION Spec
CONSTANTS
    Lowers = {}
    Uppers = {}
    Consumers = {}
    Tops = {}
    StreamItems = {"stream", "continue"}
    Notices = {}
    MaxLen = 2
    MaxFire = 0
    EarlyWait = TRUE
PROPERTIES HandledWhileRunning
CHECK_DEADLOCK FALSE
