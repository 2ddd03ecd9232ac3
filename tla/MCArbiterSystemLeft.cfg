SPECIFICATION FairSpec
CONSTANTS
    Arb = {a1}
    Main = main
    MaxStop = 1
    MaxExit = 1
    LateNew = FALSE
PROPERTIES NoneLeft
CHECK_DEADLOCK FALSE
