SPECIFICATION FairSpec
CONSTANTS
    MaxRetries = 1
    NativeSelected = TRUE
    Persisted <- CrashPersisted
    Recreations = {TRUE}
    Requests = {"stop", "display"}
    MaxRequests = 2
    MaxStable = 1
    MaxRefusals = 1
    MaxDestroys = 0
CHECK_DEADLOCK FALSE
INVARIANTS RecoveryIsSound
PROPERTIES LaunchNeedsRequest 
