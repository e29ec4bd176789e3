CONSTANTS
    Names = {"a", "b"}
    Spaces = {"x", "y"}
    Items = {"lab", "lab.event", "kit"}
    Days = {1, 2}
    Files <- MCFiles
    Edits <- MCEdits
    Corrected <- MCCorrected
    Lists = {1, 2, 3, 4, 5}
    MaxSessions = 2
    MaxClears = 3
    RunClears = 1
    None = None
    Runs = {1, 2}
    Requests <- MCRequests
    ClientSets = {{"session", "delete", "upload"}, {"fix", "fill", "delete"}, {"fix", "upload", "session"},
                  {"fill", "session"}, {"check", "session"}, {"put", "check", "restart"},
                  {"put", "empty", "restart"}, {"torn", "restart", "upload", "clear"}, {"restart", "delete", "put", "session", "clear"},
                  {"qa", "cancel"}, {"qa", "delete"}, {"qa", "upload"}, {"qa", "clear", "failure"},
                  {"qa", "restart"}}
SPECIFICATION Spec
INVARIANTS WellFormed CoverageTrue DeploysItsOwnUndisturbed FilesFollow
PROPERTIES KeepsRegister
