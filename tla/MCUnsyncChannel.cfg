SPECIFICATION FairSpec
CONSTANTS
    r1 = r1
    r2 = r2
    Req = {r1, r2}
    InitCap = 1
    Caps = {0, 1, 2}
    SameTask = FALSE
    Timeouts = {r1}
    MaxAddr = 2
    MaxFire = 1
    MaxSet = 1
INVARIANTS ReceiverWoken RequestWakeable DeliveredOnce
PROPERTIES DeliveredSettles
CHECK_DEADLOCK FALSE
