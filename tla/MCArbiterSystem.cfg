SPECIFICATION FairSpec
CONSTANTS
    Arb = {a1, a2}
    Main = main
    MaxStop = 2
    MaxExit = 2
    LateNew = TRUE
INVARIANTS RegistrySettles
PROPERTIES ExitStopsRegistered
CHECK_DEADLOCK FALSE
