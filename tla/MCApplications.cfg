SPECIFICATION Spec
CHECK_DEADLOCK FALSE
INVARIANTS
    PoolsSuffice
    InOrder
    UsedWhenReady
    MeasurementsTrue
    OnSchedule
PROPERTIES
    ErrorsAreLosses
    StopIsFinal
