CONSTANTS
    main = main
    a = a
    b = b
    Threads <- ThreeThreads
    Main = main
    None = None
    Statics = {1, 3}
    Flags = {2}
    Uses <- PairsMeet
    Joins <- JoinB
    MaxThrows = 2
SPECIFICATION FairSpec
INVARIANT
    InitializedOnce
PROPERTIES
    EverybodyEnds
    ImplementsContract
