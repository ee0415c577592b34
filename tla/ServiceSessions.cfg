SPECIFICATION Spec
CONSTANTS
    MaxRetries = 0
    NativeSelected = TRUE
    Persisted <- NothingPersisted
    Recreations = {FALSE}
    Requests = {"start", "stop", "prepare", "display"}
    MaxRequests = 2
    MaxStable = 0
    MaxRefusals = 0
    MaxDestroys = 1
CHECK_DEADLOCK FALSE
INVARIANTS SessionsAreSound ExitSparesNewInstance
