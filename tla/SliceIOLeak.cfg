SPECIFICATION Spec
CONSTANTS
    K = 2
    M = 1
    ChunkSize = 6
    FileHeader = 2
    ChunkHeader = 2
    Align = 2
    Sizes = {13}
    Cuts = {3, 13}
    Pieces = {7}
    Kinds = {"hung"}
    MaxGets = 1
    MaxJobs = 1
    MaxDamage = 1
INVARIANTS NothingLeaks
CHECK_DEADLOCK FALSE
