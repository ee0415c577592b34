SPECIFICATION FairSpec
CONSTANTS
    Callbacks = {"a", "b"}
    MaxRequests = 2
    MaxGenerations = 2
CHECK_DEADLOCK FALSE
 
PROPERTIES HandoffEnds CloseCompletes NothingStartsLate
