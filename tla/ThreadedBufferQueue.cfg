\* Two buffers and two callers, which may enqueue for ever.
SPECIFICATION ThreadedSpec
CONSTANTS
    b1 = b1
    b2 = b2
    c1 = c1
    c2 = c2
    NULL = NULL
    Buffers <- MCBuffers
    Callers <- MCCallers
    BufferCount = 2
    EnableLookAside = FALSE
INVARIANTS
    WorkHasOneOwner
    AnswersReachTheirCaller
PROPERTIES
    WaiterIsServed
    ThreadedCloseEnds
CHECK_DEADLOCK FALSE
