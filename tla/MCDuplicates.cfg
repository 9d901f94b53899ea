SPECIFICATION Spec
CONSTANTS
    Tracks = {1, 2, 3}
    NoFile = NoFile
    NoRow = NoRow
    NoMerge = NoMerge
    MaxEdits = 1
    MaxMerges = 2
    MaxFaults = 1
    MaxCrashes = 1
    MaxPowerFailures = 1
INVARIANTS TypeOK NoAudioLost AllOrNothing MirrorConsistent
CHECK_DEADLOCK FALSE
