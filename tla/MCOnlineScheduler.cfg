SPECIFICATION FairSpec
CONSTANTS
    Tracks = {1, 2}
    Caps <- TwoCaps
    Requests <- BothForArtwork
    Preferences <- EverythingOrTags
    BatchSize = 2
    NoItem = NoItem
    MaxCommands = 1
    MaxEdits = 1
    MaxFaults = 1
INVARIANTS TypeOK IdleMeansDone
PROPERTIES UserTextKept SweepEnds
CHECK_DEADLOCK FALSE
