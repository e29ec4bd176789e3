CONSTANTS
    Bases = {"lab", "old"}
    Aliases <- MCAliases
    Most <- MCMost
    Allowed <- MCAllowed
    Sheets <- MCSheets
    Catalogs <- MCCatalogs
    Unsteady <- MCUnsteady
    TTL = 2
    MaxWalk = 1
    ClientSets = {{"names", "users", "regions", "deploy"}, {"deploy", "qa"}, {"names", "deploy", "move"},
                  {"qa", "move", "tick"}, {"deploy", "retry", "fault", "tick"}}
    MaxTime = 4
    Flaky = {"event"}
    MaxMoves = 1
    MaxFaults = 1
    None = None
SPECIFICATION Spec
INVARIANTS TypeOK AdmittedIsPublished ReportForetells
PROPERTIES NotStaleForLong
