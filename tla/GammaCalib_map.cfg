SPECIFICATION Spec
CONSTANTS
    NPos = 2
    NGamma = 1
    Means = {50, 200}
    AfStates <- FullAf
    AeStates <- FullAe
    Depth = 1
    MaxClicks = 1
    MaxDeaths = 0
    SleepSuffices = TRUE
    Null = Null
CHECK_DEADLOCK FALSE
INVARIANT MapInPercent
