CONSTANTS
    w1 = w1
    w2 = w2
    w3 = w3
    Workers <- TwoWorkers
    Main = Main
    None = None
    QueueDepth = 1
    MaxId = 2
    FirstIds = {1, 2}
    SharedHandles = TRUE
    StrictPriority = TRUE
SPECIFICATION FairSpec
CHECK_DEADLOCK FALSE
INVARIANT
    EndsOnceShared
PROPERTIES
    JoinCompletes
    ImplementsContract
