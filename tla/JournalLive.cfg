CONSTANTS
    v1 = v1
    v2 = v2
    v3 = v3
    Vol <- MCVol
    Group <- MCGroup
    h1 = h1
    h2 = h2
    r1 = r1
    r2 = r2
    Rec = {h1, h2, r1, r2}
    History <- OldHistory
    Holders <- OldHolders
    Fleets <- AllOfThem
    JournalReplicas = 2
    SegmentBytes = 2
    MaxSegment = 1
    MaxFaults = 1
    MaxCrashes = 1
    MaxMoves = 1
    ShortWrites = FALSE
    Unmounts = FALSE
    ListingFails = FALSE
    Removals = FALSE
SPECIFICATION FairSpec
CHECK_DEADLOCK FALSE
INVARIANTS Lockstep ReplayOrder
PROPERTIES AppendSettles
