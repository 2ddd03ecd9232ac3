SPECIFICATION FairSpec
CONSTANTS
    r1 = r1
    r2 = r2
    Req = {r1, r2}
    InitCap = 1
    Caps = {2}
    SameTask = TRUE
    Timeouts = {r1, r2}
    MaxAddr = 1
    MaxFire = 1
    MaxSet = 0
PROPERTIES TimeoutEnds
CHECK_DEADLOCK FALSE
