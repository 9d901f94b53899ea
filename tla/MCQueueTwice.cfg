SPECIFICATION QueueSpec
CONSTANTS
    Library <- LibraryOfThree
    Lists = {}
    Modes = {"off", "pure", "smart"}
    NoId = NoId
    MaxOrder = 4
    MaxGone = 0
INVARIANTS EagerOrderAnchored CursorInOrder
CHECK_DEADLOCK FALSE
