SPECIFICATION FairSpec
CONSTANTS
    Vol <- MCVol
    Foreign <- MCForeign
    MayForce = FALSE
    MayLose <- MCLose
    MaxFaults = 1
    MaxCrashes = 1
    MaxLosses = 1
    MaxChanges = 2
    MaxMute = 1
CHECK_DEADLOCK FALSE
INVARIANTS RecoverySafe
PROPERTIES DiskNeverForgets ClimbsOut
