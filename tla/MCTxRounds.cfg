CONSTANTS
    Configs <- MCConfigs
    L2 = FALSE
    Mirror = FALSE
    MaxRounds = 3
SPECIFICATION SpecH
INVARIANT ChainOrder
PROPERTY KeepsPromise
