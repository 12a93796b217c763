SPECIFICATION SimSpec
CONSTANTS
    None = None
    RfOn = TRUE
    RfCapacity = 2
    Window = 9
    RfChecks = {"doppler", "link", "pointing"}
    RfSamples = {}
    RfDelay = 0
    Plans <- MCPlans
    Lead = 2
    Pause = 5
    Jitter = 1
    Late = 1
    Lag = 8
    Overhead = {0}
    MaxRate = 9
    MaxLost = 1
CHECK_DEADLOCK FALSE
INVARIANT JudgedByTheNearest
