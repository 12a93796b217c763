SPECIFICATION FairSpec
CONSTANTS
    Clients = {"c1"}
    FrameCap = 1
    TelCap = 1
    HistCap = 2
    DefaultLimit = 1
    MaxLimit = 2
    Limits = {0, 3}
    MaxDatagrams = 3
    MaxPerFrame = 2
    MaxMessages = 3
CHECK_DEADLOCK FALSE
INVARIANTS
    TypeOK
    AllAccounted
    NoHoleForLateClient
    HistoryClosedLast
PROPERTIES
    ShutdownCompletes
    ClientServed
