SPECIFICATION FairSpec
CONSTANTS
    StableWindow <- Window
    RetryDelays <- Delays
    MaxNow = 10
    MaxBoots = 2
    MaxFaults = 1
INVARIANTS
    TypeOK
    LaunchesBounded
    
    CommittedIsRestorable
    StopHolds
PROPERTIES
    SuspensionNeedsUser
    OwedRetrySettles
