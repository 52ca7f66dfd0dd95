SPECIFICATION FairSpec
CONSTANTS
    k1 = k1
    k2 = k2
    o1 = o1
    Key = {k1, k2}
    Object = {o1}
    ObjectOf <- MCObjectOf
    Watched = {k2}
    Parity = 1
    BatchSize = 1
    Pass = {p1, p2}
    Polling = TRUE
    MaxReports = 1
    MaxEvents = 1
    MaxChain = 2
CHECK_DEADLOCK FALSE
INVARIANTS RepairSafe
  
