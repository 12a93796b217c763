SPECIFICATION Spec
CONSTANTS
    Capacity = 1
    QueueCap = 3
    MaxMsgs = 3
    MaxErrors = 0
INVARIANTS
    FileNeverOverTwice
