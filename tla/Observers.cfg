CONSTANTS
    Goal = {1, 2, 3}
    Allowed <- MCAllowed
    DefaultAllowed = 1
    MaxTime = 4
    MaxBus = 4
    MaxMessage = 4
    MaxQueueDepth = 2
    Thread = {t1, t2}
    MaxVersion = 3
    MaxSnapshots = 1
    Retention = 1
    MaxStoreTime = 2
    MaxTaken = 3
SPECIFICATION Spec
CHECK_DEADLOCK FALSE
INVARIANTS
    
    
    StoreIsFaithful
PROPERTIES
    QueueMoves
