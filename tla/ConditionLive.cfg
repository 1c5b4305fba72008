CONSTANTS
    c1 = c1
    c2 = c2
    c3 = c3
    p1 = p1
    p2 = p2
    k1 = k1
    k2 = k2
    Consumers <- TwoConsumers
    Producers <- OneProducer
    Conditions <- OneCondition
    None = None
    MaxItems = 2
    TimedWaits = TRUE
    EarlyDestroy = {FALSE}
SPECIFICATION FairSpec
PROPERTY
    ImplementsContract
