SPECIFICATION FairSpec
CONSTANTS
    Tracks = {t1}
    Locations = {l1, l2}
    NoIntent = NoIntent
    NoTrack = NoTrack
    Nowhere = Nowhere
    Unchanged = Unchanged
    MaxVersion = 1
    MaxFaults = 2
    MaxMoves = 2
INVARIANTS TypeOK NoLostMirror
PROPERTIES EventuallyMirrored MirrorNeverRegresses
CHECK_DEADLOCK FALSE
