SPECIFICATION FairSpec
CONSTANTS
    NFrames = 2
    Depth = 1
    MaxPending = 0
    MaxImages = 2
    AfStates <- FullAf
    AeStates <- PartialAe
    Null = Null
    OnUiThread = FALSE
    UiPreview = TRUE
    SleepSuffices = FALSE
CHECK_DEADLOCK FALSE
INVARIANT NeverFromTheFuture
PROPERTY AcquisitionCompletes
