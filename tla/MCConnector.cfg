SPECIFICATION FairAll
CONSTANTS
    Lowers = {"none", "map", "map_err", "timeout"}
    Uppers = {"none", "and_then", "then"}
    Consumers = {"fold", "finish"}
    Tops = {"none", "map", "map_err", "from_err", "drop_err", "and_then", "then", "timeout"}
    StreamItems = {"stream", "continue", "messages"}
    Notices = {"notify", "notify_later", "run_later"}
    Asked = {"resolve", "connect", "connect_addr"}
    MaxAddr = 3
    MaxLen = 2
    MaxFire = 2
    EarlyWait = TRUE
INVARIANTS ResultCorrect HandledInOrder PolledOnce ConnectOutcome
PROPERTIES Completes
CHECK_DEADLOCK FALSE
