SPECIFICATION Spec
CONSTANTS
    Tracks = {1, 2}
    NoFile = NoFile
    NoRow = NoRow
    NoMerge = NoMerge
    MaxEdits = 0
    MaxMerges = 1
    MaxFaults = 0
    MaxCrashes = 1
    MaxPowerFailures = 0
INVARIANT InterruptedMergeRecovered
CHECK_DEADLOCK FALSE
