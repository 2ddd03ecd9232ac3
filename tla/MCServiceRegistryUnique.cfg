SPECIFICATION Spec
CONSTANTS
    Client = {c1, c2}
    MaxInst = 2
INVARIANTS UniqueService
CHECK_DEADLOCK FALSE
