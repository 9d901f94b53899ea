SPECIFICATION QueueSpec
CONSTANTS
    Library <- LibraryOfTwo
    Lists <- ListsOfTwo
    Modes = {"off", "pure", "smart"}
    NoId = NoId
    MaxOrder = 3
    MaxGone = 0
PROPERTY PreviousGoesBack
CHECK_DEADLOCK FALSE
