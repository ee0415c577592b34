CONSTANTS
    Profiles = {"static"}
    MaxOutput = 3
    QueueCapacity = 2
    RetainedChunks = 2
SPECIFICATION EventSpec
INVARIANTS ExhaustionIsReported

