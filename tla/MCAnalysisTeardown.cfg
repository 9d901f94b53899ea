SPECIFICATION Spec
CONSTANTS
    Tracks = {1, 2, 3}
    Caps <- TwoCaps
    Requests <- ThreeForAudio
    Preferences <- NothingOrBpm
    Workers = 1
    BatchSize = 2
    NoItem = NoItem
    MaxCommands = 2
    MaxEdits = 0
    MaxFaults = 1
INVARIANTS ExplicitKept
CHECK_DEADLOCK FALSE
