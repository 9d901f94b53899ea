SPECIFICATION Spec
CONSTANTS
    Tracks = {1, 2}
    Caps <- TwoCaps
    Requests <- BothForAudio
    Preferences <- NothingOrBpm
    Workers = 1
    BatchSize = 2
    NoItem = NoItem
    MaxCommands = 1
    MaxEdits = 1
    MaxFaults = 0
INVARIANT GrowthWakes
CHECK_DEADLOCK FALSE
