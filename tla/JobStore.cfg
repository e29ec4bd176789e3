CONSTANTS
    MaxJobs = 2
    Created = 5
SPECIFICATION StoreSpec
INVARIANTS LiveJobsStored
PROPERTIES EvictionRight
CHECK_DEADLOCK FALSE
