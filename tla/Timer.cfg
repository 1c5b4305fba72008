CONSTANTS
    Reloads = {0, 1, 3}
    Counters = {0, 2, 5}
    Second = 3
    MaxOps = 6
SPECIFICATION FairSpec
INVARIANTS
    WorkerIsCurrent
    AtMostOneLateCallback
PROPERTIES
    VersionSeesJumps
    WorkerServes
CHECK_DEADLOCK FALSE
