SPECIFICATION FairSpec
CONSTANTS
    Pusher = {p1, p2}
    Addr = {a1, a2, a3, a4}
    Value = {v1, v2}
    Null = Null
    None = None
INVARIANTS
    ListInv
    NoUseAfterFree
PROPERTIES
    ImplementsFifo
    InconsistentEnds
