SPECIFICATION Spec
CONSTANTS
    None = None
    Unset = Unset
    NaN = NaN
    Mistyped = Mistyped
    Garbled = Garbled
    Empty = Empty
    Absent = Absent
    OutOfCoverage = OutOfCoverage
    Inst = {1, 2}
    First = 1
    Worlds <- MCWorlds
    Shared <- MCShared
    Times <- MCTimes
    MaxOpens = 3
CHECK_DEADLOCK FALSE
INVARIANTS
    AFixHelps
    RunningOwnsFile
    Told
    OemFaithful
