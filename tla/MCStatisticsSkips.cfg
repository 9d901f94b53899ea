SPECIFICATION Spec
CONSTANTS
    Tracks = {1, 2}
    NoTrack = NoTrack
    NoRow = NoRow
    NoSession = NoSession
    MaxCounts = 2
    MaxTasks = 1
    MaxFaults = 0
INVARIANTS SkipsEndSessions
