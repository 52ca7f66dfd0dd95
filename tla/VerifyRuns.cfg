CONSTANTS
    Vol = {1, 2}
    NObjects = 2
    SlicesOf <- MCSlicesOf
    BatchSize = 1
    Filters <- MCFilters
    Wedges = {"verify"}
    MaxStarts = 2
    MaxEvents = 2
SPECIFICATION FairSpec
CHECK_DEADLOCK FALSE
 
PROPERTIES  QueuedStarts
