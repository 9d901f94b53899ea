SPECIFICATION Spec
CONSTANTS
    Ids = {1, 2, 3}
    Paths = {p1, p2, p3, p4}
    NoPath = NoPath
    NoReplacement = NoReplacement
    MaxOperations = 3
    MaxPlans = 2
    MaxRewrites = 1
    MaxRemovals = 1
    MaxFaults = 1
    MaxStops = 2
SYMMETRY Symmetry
INVARIANTS TypeOK RowsFindFiles NoOrphans ReplacementRecovers
CHECK_DEADLOCK FALSE
