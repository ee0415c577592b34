SPECIFICATION FairSpec
CONSTANTS
    MaxRetries = 0
    NativeSelected = FALSE
    Persisted <- NothingPersisted
    Recreations = {FALSE, TRUE}
    Requests = {"start"}
    MaxRequests = 2
    MaxStable = 0
    MaxRefusals = 1
    MaxDestroys = 0
CHECK_DEADLOCK FALSE
PROPERTIES ReopeningHelps
