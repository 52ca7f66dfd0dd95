CONSTANTS
    v1 = v1
    v2 = v2
    v3 = v3
    Vol <- MCVol
    Group <- MCGroup
    h1 = h1
    h2 = h2
    r1 = r1
    r2 = r2
    Rec = {r1, r2}
    History <- NoHistory
    Holders <- NoHolders
    Fleets <- MCFleets
    JournalReplicas = 2
    SegmentBytes = 2
    MaxSegment = 1
    MaxFaults = 1
    MaxCrashes = 1
    MaxMoves = 1
    ShortWrites = TRUE
    Unmounts = TRUE
    ListingFails = TRUE
    Removals = TRUE
SPECIFICATION Spec
SYMMETRY Symmetry
CHECK_DEADLOCK FALSE
INVARIANTS LogSound
PROPERTIES  ImplementsLog
