CONSTANTS
    Configs <- MCConfigs
    L2 = FALSE
    Mirror = FALSE
SPECIFICATION FairSpec
PROPERTIES
    LinkedClassesSend
    BurstsAreTaken
