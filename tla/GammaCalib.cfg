SPECIFICATION FairSpec
CONSTANTS
    NPos = 3
    NGamma = 1
    Means = {0, 200}
    AfStates <- FullAf
    AeStates <- FullAe
    Depth = 1
    MaxClicks = 2
    MaxDeaths = 1
    SleepSuffices = TRUE
    Null = Null
INVARIANTS
    TypeOK
    MapOfOwnApertures
    RampAtTheCentre
    StoredAsAPrefix
PROPERTIES
    CalibrationEnds
