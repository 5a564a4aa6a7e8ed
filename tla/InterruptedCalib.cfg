SPECIFICATION InterruptedFairSpec
CONSTANTS
    NPos = 2
    NGamma = 1
    Means = {200}
    AfStates <- FullAf
    AeStates <- FullAe
    Depth = 1
    MaxClicks = 1
    MaxDeaths = 0
    SleepSuffices = TRUE
    MaxPauses = 1
    MaxTouches = 1
    Null = Null
CHECK_DEADLOCK FALSE
INVARIANTS
    MapOfOwnApertures
    ThrowsOnlyIfInterrupted
PROPERTY EndsUnlessTakenBack
