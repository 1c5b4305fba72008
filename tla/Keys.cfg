CONSTANTS
    t1 = t1
    t2 = t2
    Threads <- TwoThreads
    None = None
    KeyCount = 2
    GenerationMask = 3
    FirstGenerations = {2}
    Iterations = 2
    MaxCreates = 2
    MaxExecutions = 2
SPECIFICATION Spec
SYMMETRY Symmetry
INVARIANTS
    OwnValues
    ValuesDestroyed
CHECK_DEADLOCK FALSE
