SPECIFICATION FairSpec
CONSTANTS
    Activities = {"Acquire", "GammaCalib"}
    MaxEvents = 5
CHECK_DEADLOCK FALSE
INVARIANTS
    TypeOK
    NoOrphanWindow
    SettledOnTheRoute
PROPERTY ProjectorLit
