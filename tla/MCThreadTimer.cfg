SPECIFICATION FairSpec
CONSTANTS
    BaseCycle = 2
    RxOffset = 1
    TxOffset = 2
    FirstBurst = 2
    BurstPeriod = 3
    NsecPerSec = 4
    ClockMod = 11
    MaxTime = 7
    MaxSignals = 3
INVARIANTS
    NoDrift
    OneCallPerPeriod
    TxAtMostOneAhead
    OneRoundPerSignal
    OneBurstPerPeriod
PROPERTIES
    CatchesUp
