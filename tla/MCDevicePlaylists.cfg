SPECIFICATION MCSpec
CONSTANTS
    t1 = t1
    t2 = t2
    c1 = c1
    c2 = c2
    x = x
    y = y
    Tracks = {t1, t2}
    Contents = {c1, c2}
    Titles = {x, y}
    Layouts = {"tree", "folder"}
    Transports = {"filesystem", "mtp"}
    NoFile = NoFile
    Partial = Partial
    Untagged = Untagged
    Selectable <- MCSelectable
    MaxLists = 2
    MaxEdits = 2
    MaxRuns = 3
    MaxCancels = 1
    MaxFaults = 0
    MaxPosition = 3
INVARIANT PlaylistFilesPlayable
CHECK_DEADLOCK FALSE
