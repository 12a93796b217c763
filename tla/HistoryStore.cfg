SPECIFICATION FairSpec
CONSTANTS
    Capacity = 3
    QueueCap = 2
    MaxMsgs = 7
    MaxErrors = 1
INVARIANTS
    TypeOK
    Accounted
    RingMirrorsWriter
    FileMirrorsKept
    CloseLosesNothing
    LossBoundedByErrors
    IdleFileBounded
PROPERTIES
    NoDurableLoss
    CloseCompletes
