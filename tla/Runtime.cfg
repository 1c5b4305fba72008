CONSTANTS
    Threads = {t1, t2}
    Application = t1
    MaxFaults = 3
    MaxBoots = 3
    LocalObjects = {"a", "b"}
    Spare = 0
    MaxDestructors = 2
    MaxElements = 3
    MaxHooked = 2
    AttributeValues = {"small", "urgent"}
    Words = 8
    Blocks = 4
    FlashSize = 8
    Page = 2
    EraseBlock = 4
    Parts = 2
    MaxFiniteWait = 2
    Initial = 1
    MaxWait = 3
    MaxDepth = 2
    MaxObjects = 2
    MaxFailures = 1
    Counts = 2
    TickWrap = 4
    Modulus = 6
    Late = 1
    MaxDelay = 1
    MaxTime = 11
    MaxJumps = 1
    Files = {"f", "g", "h"}
    CycleWrap = 4
    Frequency = 3
    Rate = 2
    MaxCycles = 12
    MaxStreams = 2
    Names = {"a", "b"}
    DirectorySize = 2
    MaxSeek = 3
    MaxChanges = 2
    StreamFaults = 1
    Years = {0, 3}
    FirstDays = {28, 29, 31}
    SecondFraction = 1
    NANOSECONDS_PER_SECOND = 5000
    MaxSteps = 3
SPECIFICATION Spec
INVARIANTS
    ThreadsKeepTheirOwn
    CallbacksRunOnce
    StartsCompletely
    TransfersStayInside
PROPERTIES
    SynchronizationIsSound
    ClocksAreRight
    LibcServesThreads
    VolumesAreKept
CHECK_DEADLOCK FALSE
