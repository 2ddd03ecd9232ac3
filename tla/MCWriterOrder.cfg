SPECIFICATION Spec
CONSTANTS
    Orders <- AnyOrder
    Marks <- SameMarks
    Faults = {}
    MaxWrite = 2
    MaxEvent = 2
INVARIANTS WriteIsSent
CHECK_DEADLOCK FALSE
