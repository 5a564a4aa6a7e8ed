SPECIFICATION FairSpec
CONSTANTS
    NFrames = 5
    Depth = 3
    MaxPending = 0
    MaxImages = 2
    AfStates <- FullAf
    AeStates <- FullAe
    Null = Null
    OnUiThread = FALSE
    UiPreview = FALSE
    SleepSuffices = TRUE
INVARIANTS
    TypeOK
    OnePicturePerFrame
    ReaderWithinLimit
PROPERTIES
    EveryFrameSaved
    ImplementsStillCamera
