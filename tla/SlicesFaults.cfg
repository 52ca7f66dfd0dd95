SPECIFICATION Spec
CONSTANTS
    i1 = i1
    i2 = i2
    i3 = i3
    v1 = v1
    v2 = v2
    v3 = v3
    v4 = v4
    None = None
    Slice = {i1, i2}
    DataSlices = 1
    Volume = {v1, v2, v3}
    MaxLoads = 3
    MaxFaults = 1
SYMMETRY Symmetry
CHECK_DEADLOCK FALSE
INVARIANTS PlacementSafe NeverDestroyed BackedUnlessContested
