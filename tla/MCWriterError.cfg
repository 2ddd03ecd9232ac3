SPECIFICATION Spec
CONSTANTS
    Orders <- WriterLast
    Marks <- SameMarks
    Faults = {"transport"}
    MaxWrite = 2
    MaxEvent = 2
INVARIANTS WriteIsSent
PROPERTIES AllSentAtClose
CHECK_DEADLOCK FALSE
