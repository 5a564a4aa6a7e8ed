SPECIFICATION PausedFairSpec
CONSTANTS
    NFrames = 3
    Depth = 2
    MaxPending = 0
    MaxImages = 2
    MaxPauses = 2
    AfStates <- FullAf
    AeStates <- FullAe
    Null = Null
    OnUiThread = FALSE
    UiPreview = FALSE
    SleepSuffices = TRUE
CHECK_DEADLOCK FALSE
INVARIANTS
    EachFileItsOwnFrame
    MissingOnlyIfDropped
PROPERTY HangOnlyIfInterrupted
