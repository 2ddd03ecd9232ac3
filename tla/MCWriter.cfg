SPECIFICATION FairSpec
CONSTANTS
    Orders <- AnyOrder
    Marks <- AllMarks
    Faults = {"encode", "transport"}
    MaxWrite = 3
    MaxEvent = 3
INVARIANTS NothingForgotten
PROPERTIES GracefulClose BackpressureEnds PollReturns
CHECK_DEADLOCK FALSE
