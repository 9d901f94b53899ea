SPECIFICATION Spec
CONSTANTS
    Tracks = {t1}
    Paths = {p1, p2}
    NoFile = NoFile
    NoEntry = NoEntry
    NoTrack = NoTrack
    MaxRewrites = 0
    MaxFaults = 0
    MaxCrashes = 1
    MaxConsolidations = 1
SYMMETRY Symmetry
INVARIANTS StartupNeverRefused
CHECK_DEADLOCK FALSE
