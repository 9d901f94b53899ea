SPECIFICATION QueueSpec
CONSTANTS
    Library <- LibraryOfThree
    Lists <- ListsOfThree
    Modes = {"off", "pure", "smart"}
    NoId = NoId
    MaxOrder = 3
    MaxGone = 1
INVARIANTS QueueTypeOK EagerOrderAnchored CursorInOrder
PROPERTY CuratedSurvives
CHECK_DEADLOCK FALSE
