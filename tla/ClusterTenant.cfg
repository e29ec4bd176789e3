CONSTANTS
    Items <- MCItems
    ClusterNamed <- MCClusterNamed
    TenantNamed <- MCTenantNamed
    Counterpart <- MCCounterpart
    AgnosticV <- MCAgnosticV
    References <- MCReferences
    PoolSets <- MCPoolSets
    ClaimSets <- MCClaimSets
    Uploads <- MCUploads
    Edits <- MCEdits
    Buffer = 2
    Lead = 1
    Horizon = 1
    None = "None"
    Direct = "Direct"
    NoDate <- MCNoDate
SPECIFICATION Spec
INVARIANTS ValidMeansServed RepairsWork
PROPERTIES RepairsKeepRows
