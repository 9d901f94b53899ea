SPECIFICATION QueueSpec
CONSTANTS
    Library <- LibraryOfThree
    Lists <- ListsOfThree
    Modes = {"off", "pure", "smart"}
    NoId = NoId
    MaxOrder = 4
    MaxGone = 0
INVARIANT CursorOnCurrent
CHECK_DEADLOCK FALSE
