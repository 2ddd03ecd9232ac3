SPECIFICATION FairSpec
CONSTANTS
    r1 = r1
    r2 = r2
    Req = {r1, r2}
    InitCap = 1
    Caps = {2}
    SameTask = TRUE
    Timeouts = {}
    MaxAddr = 1
    MaxFire = 1
    MaxSet = 0
PROPERTIES BlockedSettles
CHECK_DEADLOCK FALSE
