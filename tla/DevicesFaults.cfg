SPECIFICATION FairSpec
CONSTANTS
    Volumes <- MCVolumes
    Encrypted = {"e"}
    Disks <- MCDisks
    Carries <- MCCarries
    Names = {"s1", "s2", "s3"}
    Gone = "gone"
    Start <- MCStart
    Asked = {"e"}
    Noisy = {"E"}
    MaxPending = 1
    MaxMoves = 3
    MaxOps = 2
    MaxFaults = 2
    MaxTotal = 3
 
PROPERTIES   WatchersAct
