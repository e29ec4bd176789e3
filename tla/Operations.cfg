CONSTANTS
    Requests = {1, 2}
    Objects = {1, 2, 3, 4, 5, 6}
    Kind <- MCKind
    Item <- MCItem
    Rows <- MCRows
    Calls <- MCCalls
    First <- MCFirst
    MaxFaults = 2
    None = None
SPECIFICATION Spec
INVARIANTS CleanIsAtOnce NeverShortened ExtensionCounts PartsAreWhole
CHECK_DEADLOCK FALSE
