SPECIFICATION Spec
CONSTANTS
    Modes = {"BF", "MM", "DF", "FPM", "DPC"}
    Rotations = 4
    Counts = {0, 2}
    MaxEvents = 5
    Controls = {"acquire", "background", "capture", "process", "slider", "settings", "exposure"}
    Careful = TRUE
    SleepSuffices = TRUE
    Prompt = TRUE
CHECK_DEADLOCK FALSE
INVARIANTS
    TypeOK
    LitByOwnPattern
    SourceSavedWithFrame
    DpcSetComplete
