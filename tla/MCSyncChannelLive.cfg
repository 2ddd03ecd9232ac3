SPECIFICATION FairSpec
CONSTANTS
    Sender = {s1, s2}
    First = s1
    InitCap = 1
    Caps = {2}
    Ops = {"send", "try"}
    MaxCalls = 2
    MaxSets = 0
    SpuriousPolls = TRUE
PROPERTIES
    MessagesDrained
    DisconnectStops
    CloseWakesParked
CHECK_DEADLOCK FALSE
