SPECIFICATION Spec
CONSTANTS
    Classes <- AllClasses
    FramesPerCycle = 2
    CycleMod = 3
    BufSize = 3
    TxPool = 3
    RxPool = 3
    FreePending = 2
    StatMaxBacklog = 1
    MaxSeq = 4
    MaxFaults = 0
    MaxForeign = 2
    Foreign <- AllForeign
INVARIANTS
    ExpectsNoFuture
    RoundTripTimesMatch
