\* Two applications, one producer, three data and a ring buffer for two.
SPECIFICATION Spec
CONSTANTS
    f1 = f1
    f2 = f2
    p1 = p1
    p2 = p2
    h1 = h1
    h2 = h2
    Files <- MCFiles
    Producers <- MCOneProducer
    Handlers <- MCHandlers
    MaxData = 3
    Values <- MCValues
    Zero = 0
    ItemCount = 2
    Mode = "DeleteOldestIfFullOnWrite"
    EarlyUse = TRUE
INVARIANT ModuleIsThereToDelete
CHECK_DEADLOCK FALSE
