SPECIFICATION Spec
CONSTANTS
    Tracks = {t1, t2}
    Paths = {p1, p2, p3}
    NoFile = NoFile
    NoEntry = NoEntry
    NoTrack = NoTrack
    MaxRewrites = 1
    MaxFaults = 2
    MaxCrashes = 2
    MaxConsolidations = 2
SYMMETRY Symmetry
INVARIANTS TypeOK JournalRecoverable CrashesKeepRows
PROPERTIES NoAudioLost AtomicRelocation
CHECK_DEADLOCK FALSE
