SPECIFICATION Spec
CONSTANTS
    Tracks = {t1}
    Paths = {p1, p2}
    NoFile = NoFile
    NoEntry = NoEntry
    NoTrack = NoTrack
    MaxRewrites = 0
    MaxFaults = 1
    MaxCrashes = 0
    MaxConsolidations = 2
SYMMETRY Symmetry
INVARIANTS RowsFindFiles
CHECK_DEADLOCK FALSE
