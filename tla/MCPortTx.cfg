SPECIFICATION Spec
CONSTANTS
    Classes = {tsn, rtc}
    PoolSize = 2
    BufferSize = 2
    MaxRetries = 2
    RingCapacity = 2
    BurstCount = 2
    MaxFrames = 2
CHECK_DEADLOCK FALSE
INVARIANTS
    FreedOnce
