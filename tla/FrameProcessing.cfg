SPECIFICATION Spec
CONSTANTS
    None = None
    NoTag = NoTag
    BadTag = BadTag
    Workers = {w1, w2}
    RfOn = TRUE
    RfCapacity = 2
    Window = 1
    RfChecks = {"doppler", "pointing"}
    RfDelay = 1
    RfSamples <- MCRfSamples
    TrackingOn = TRUE
    Coverage <- MCCoverage
    BelowHorizon <- MCBelowHorizon
    MinInterval = 2
    TimeOn = TRUE
    MaxSkew = 1
    HilChecks = {"eps", "rate"}
    RfTol <- MCRfTol
    HilTol <- MCHilTol
    FrameInputs <- MCFrameInputs
    MaxTime = 3
    MaxFrames = 2
    MaxSamples = 3
SYMMETRY Symmetry
CHECK_DEADLOCK FALSE
INVARIANTS
    TypeOK
    StateFitsTime
    NearestSampleUsed
    RfChecksExact
    HilChecksExact
    Accounted
