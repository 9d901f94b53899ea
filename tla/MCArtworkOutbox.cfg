SPECIFICATION FairArtworkSpec
CONSTANTS
    Publishers = {ui, online}
    Tracks = {t1, t2}
    Digests = {d1}
    Clear = Clear
    NoIntent = NoIntent
    NoTrack = NoTrack
    NoDigest = NoDigest
    MaxEdits = 3
    MaxCrashes = 1
INVARIANTS ArtworkTypeOK DanglingOnlyIfRaced
PROPERTIES NoBlobLeaks
CHECK_DEADLOCK FALSE
