CONSTANTS
    Workshops = 3
    Alike = {1, 2}
    Twins = {1, 3}
    Together = {2, 3}
    Runs = {r1, r2}
    Kinds = {"deploy", "session", "retry", "dry-run"}
    Clients = {{}, {"delete", "clear"}}
SPECIFICATION Spec
INVARIANTS DiskFollowsMemory
PROPERTIES KeepsTheRest
