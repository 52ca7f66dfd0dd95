SPECIFICATION FairSpec
CONSTANTS
    Objects = {o1, o2}
    Volumes = {a, b}
    Width = 1
    DataSlices = 1
    MaxAttempts = 2
    MaxOps = 2
    MaxFaults = 1
CHECK_DEADLOCK FALSE
INVARIANTS TypeOK
PROPERTIES DriftHasACause ReconcileExact DriftHeals
