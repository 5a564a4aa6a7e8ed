SPECIFICATION FairSpec
CONSTANTS
    Modes = {"DPC"}
    Rotations = 1
    Counts = {1}
    MaxEvents = 3
    Controls = {"acquire", "background", "capture", "process", "exposure"}
    Careful = FALSE
    SleepSuffices = TRUE
    Prompt = FALSE
CHECK_DEADLOCK FALSE
INVARIANTS
    ResultBesideInputs
    ProcessFindsItsInputs
    BackgroundKeptApart
PROPERTIES
    EveryTaskFinishes
