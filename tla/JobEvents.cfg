CONSTANTS
    Streams = {"sse", "ws"}
    Sockets = {"ws"}
    MaxChanges = 3
SPECIFICATION EventsSpec
PROPERTIES NoReopening EveryClientHears
CHECK_DEADLOCK FALSE
