SPECIFICATION SigFairSpec
CONSTANTS
    h1 = h1
    h2 = h2
    Client = {h1, h2}
    Kept = {h2}
    Mortal = {h1}
    SignalType = {"Term", "Hup"}
    MaxInst = 2
    MaxRaise = 2
INVARIANTS AddressesLive SubscribersServed
PROPERTIES SubscribeSettles ExitSignalExits
CHECK_DEADLOCK FALSE
