SPECIFICATION FairArtworkSpec
CONSTANTS
    Publishers = {ui}
    Tracks = {t1}
    Digests = {d1}
    Clear = Clear
    NoIntent = NoIntent
    NoTrack = NoTrack
    NoDigest = NoDigest
    MaxEdits = 1
    MaxCrashes = 0
PROPERTIES UnneededGo
CHECK_DEADLOCK FALSE
