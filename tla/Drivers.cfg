CONSTANTS
    Threads = {t1, t2}
    Slots = {1, 2, 3, 4}
    RingSize = 2
    MaxErrors = 2
    Numbers = {1, 2, 3}
    Pins <- FourPins
    Callbacks = {c1, c2, c3}
    MaxEdges = 3
    MaxOps = 4
    Capacity = 3
    MaxChunks = 8
    InputSize = 3
    MaxInput = 5
    InputFailures = 1
SPECIFICATION Spec
INVARIANTS
    SocketIsOurs
    CallsLiveCallbacks
    
    ReadersGetLines
    NothingVanishes
PROPERTIES
    BuffersHaveOwners
    EdgesReachTheirInput
CHECK_DEADLOCK FALSE
