SPECIFICATION FairSpec
CONSTANTS
    Dev = {d1, d2}
    NoDev = NoDev
    MaxLate = 2
INVARIANTS
    TypeOK
    PermitAccounting
    OpenCloseExclusive
    OpenWaitsOnlyOnItself
    CameraReleasedOnPause
PROPERTIES
    PauseCompletes
