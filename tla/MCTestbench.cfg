SPECIFICATION Spec
INVARIANTS
    OrderlyShutdown
    
    OneOwner
    CountsTrue
    FileDecides
    OwnFramesOnly
PROPERTIES
    KeepsPromise
    LeakOnlyWhenLate
    InOrder
