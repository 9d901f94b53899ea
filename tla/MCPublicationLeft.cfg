SPECIFICATION Spec
CONSTANTS
    Ids = {1, 2, 3}
    Paths = {p1, p2, p3}
    NoPath = NoPath
    NoReplacement = NoReplacement
    MaxOperations = 2
    MaxPlans = 2
    MaxRewrites = 0
    MaxRemovals = 1
    MaxFaults = 0
    MaxStops = 1
SYMMETRY Symmetry
INVARIANT LeftFilesStay
CHECK_DEADLOCK FALSE
