SPECIFICATION FairSpec
CONSTANTS
    K = 2
    M = 1
    ChunkSize = 6
    FileHeader = 2
    ChunkHeader = 2
    Align = 2
    Sizes = {3, 11, 13}
    Cuts = {3, 12}
    Pieces = {3, 7}
    Kinds = {"marked", "hung", "rot", "alien"}
    MaxGets = 1
    MaxJobs = 1
    MaxDamage = 2
CHECK_DEADLOCK FALSE
INVARIANTS  ReadExact
PROPERTIES RepairTrue 
