SPECIFICATION FairSpec
CONSTANTS
    Orders <- WriterLast
    Marks <- SameMarks
    Faults = {"transport"}
    MaxWrite = 2
    MaxEvent = 2
PROPERTIES EveryPollReturns
CHECK_DEADLOCK FALSE
