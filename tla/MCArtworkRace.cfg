SPECIFICATION ArtworkSpec
CONSTANTS
    Publishers = {ui}
    Tracks = {t1}
    Digests = {d1}
    Clear = Clear
    NoIntent = NoIntent
    NoTrack = NoTrack
    NoDigest = NoDigest
    MaxEdits = 2
    MaxCrashes = 0
INVARIANTS NoDanglingArtwork
CHECK_DEADLOCK FALSE
