SPECIFICATION Spec
CONSTANTS
    r1 = r1
    r2 = r2
    Req = {r1}
    InitCap = 1
    Caps = {0}
    SameTask = TRUE
    Timeouts = {}
    MaxAddr = 1
    MaxFire = 1
    MaxSet = 1
INVARIANTS UnboundedIsFree
CHECK_DEADLOCK FALSE
