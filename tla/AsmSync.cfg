SPECIFICATION SyncSpec
CONSTANTS
    Marker <- MCMarker
    FrameLen = 3
    Values = {1, 2}
    MaxFrames = 2
    MaxNoise = 2
    MaxBytes = 13
CHECK_DEADLOCK FALSE
INVARIANTS
    UndamagedFramesFound
    CutsInvisible
