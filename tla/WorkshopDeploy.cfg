CONSTANTS
    Deployments = {d, e}
    Shapes = {"workshop", "regions", "claim"}
    Regions = 2
    Attempts = 2
    MaxDestroyed = 1
    FaultSets = {{"provision"}, {"lost", "get", "showroom"}, {"unnamed", "exists"}}
SPECIFICATION Spec
INVARIANTS DeployedIsOwn RetryIsSafe DeployedIsProvisioned
PROPERTIES DeploymentsEnd
CHECK_DEADLOCK FALSE
