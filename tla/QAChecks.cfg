CONSTANTS
    Objects = {1, 2, 3, 4, 5, 6, 7, 8, 9}
    Kind <- MCKind
    Item <- MCItem
    Owner <- MCOwner
    Labelled = {1}
    Sheets <- MCSheets
    Worlds <- MCWorlds
    Jobs = {"2", "3", "both", "destroy"}
    Earlier = {{3}}
    Polls = 2
    Limit = 2
    MaxMoves = 1
    MaxFaults = 1
    None = None
SPECIFICATION Spec
INVARIANTS WellFormed StatusTrue MismatchSurvives ShowroomTrue DestroyedWasGone
CHECK_DEADLOCK FALSE
