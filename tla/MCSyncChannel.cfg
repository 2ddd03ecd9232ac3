SPECIFICATION Spec
CONSTANTS
    Sender = {s1, s2}
    First = s1
    InitCap = 1
    Caps = {2}
    Ops = {"send", "try_park", "do"}
    MaxCalls = 2
    MaxSets = 1
    SpuriousPolls = TRUE
INVARIANTS
    ChannelInv
    NoLostMessageWakeup
    BackPressure
CHECK_DEADLOCK FALSE
