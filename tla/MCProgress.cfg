SPECIFICATION Spec
CHECK_DEADLOCK FALSE
INVARIANTS
    TypeOK
PROPERTIES
    StopEnds
    QueuedArrives
    FramesMoveOn
    EchoesReturn
