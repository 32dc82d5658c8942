SPECIFICATION Spec
CONSTANTS
    Classes <- AllClasses
    FramesPerCycle = 1
    CycleMod = 3
    BufSize = 3
    TxPool = 3
    RxPool = 3
    FreePending = 2
    StatMaxBacklog = 1
    MaxSeq = 7
    MaxFaults = 1
    MaxForeign = 0
    Foreign <- NoForeign
INVARIANTS
    OutOfOrderExplained
