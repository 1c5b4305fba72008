CONSTANTS
    w1 = w1
    w2 = w2
    w3 = w3
    Workers <- ThreeWorkers
    Main = Main
    None = None
    QueueDepth = 1
    MaxId = 3
    FirstIds = {3}
    SharedHandles = FALSE
    StrictPriority = FALSE
SPECIFICATION Spec
SYMMETRY WorkerSymmetry
CHECK_DEADLOCK FALSE
INVARIANTS
    TypeOK
    NoUseAfterFree
    LookupsSucceed
    EndsOnce
