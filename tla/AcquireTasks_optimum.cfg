SPECIFICATION FairSpec
CONSTANTS
    Modes = {"DPC"}
    Rotations = 1
    Counts = {1}
    MaxEvents = 2
    Controls = {"acquire", "process"}
    Careful = TRUE
    SleepSuffices = TRUE
    Prompt = TRUE
CHECK_DEADLOCK FALSE
PROPERTIES
    OptimumIsTaken
