CONSTANTS
    Configs <- MCTsnLowOnly
    L2 = FALSE
    Mirror = FALSE
SPECIFICATION FairSpec
PROPERTY ActiveClassesSend
