SPECIFICATION FairSpec
CONSTANTS
    Tracks = {1, 2}
    NoTrack = NoTrack
    NoRow = NoRow
    NoSession = NoSession
    MaxCounts = 2
    MaxTasks = 1
    MaxFaults = 1
INVARIANTS TypeOK CountsKept
PROPERTIES PendingSaved
