SPECIFICATION Spec
CONSTANTS
    Disk <- MCDisk
    InUse <- MCInUse
    Encrypted <- MCEncrypted
    Drained <- MCDrained
    Retired <- MCRetired
    Pass <- MCPass
    First = "p"
    MayWedge = TRUE
    MayRace = FALSE
    MaxReqs = 2
    MaxOps = 2
    MaxEvents = 2
    MaxTotal = 4
CHECK_DEADLOCK FALSE
INVARIANTS FleetOpens  HealthyMeansOpens
