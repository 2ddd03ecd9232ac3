SPECIFICATION FairSpec
CONSTANTS
    Orders <- WriterLast
    Marks <- AllMarks
    Faults = {}
    MaxWrite = 4
    MaxEvent = 2
PROPERTIES EveryPollReturns
CHECK_DEADLOCK FALSE
