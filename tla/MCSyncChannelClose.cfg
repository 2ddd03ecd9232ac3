SPECIFICATION Spec
CONSTANTS
    Sender = {s1, s2}
    First = s1
    InitCap = 1
    Caps = {2}
    Ops = {"send"}
    MaxCalls = 2
    MaxSets = 0
    SpuriousPolls = FALSE
INVARIANTS
    CloseWakes CloseDrains
CHECK_DEADLOCK FALSE
