SPECIFICATION Spec
CONSTANTS
    None = None
    VCs = {"a", "b"}
    Listed = {"a"}
    HdrLen = 2
    DataLen = 4
    Modulus = 3
    Sizes = {3, 5, 6}
    MaxPackets = 3
    MaxIdle = 1
    Room = 2
    Scenes <- MCScenes
CHECK_DEADLOCK FALSE
INVARIANTS
    TypeOK
    LossIsLocal
    FlushSendsAll
    NeverSpliced
    GapsMeanLoss
    GarbageEndsAtPointer
PROPERTIES
    IsPacketLink
