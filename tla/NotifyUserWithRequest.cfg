\* Two buffers, two requests of which one may wait, three threads, three data.
SPECIFICATION Spec
CONSTANTS
    b1 = b1
    b2 = b2
    r1 = r1
    r2 = r2
    t1 = t1
    t2 = t2
    t3 = t3
    NULL = NULL
    Closer = Closer
    Buffers <- MCBuffers
    BufferCount = 2
    EnableLookAside = FALSE
    Requests <- MCRequests
    Threads <- MCThreeThreads
    MaximumNumberOfPendingRequests = 1
    MaxData = 3
SYMMETRY MCSymmetry
INVARIANTS
    RequestsAreCounted
    DataIsDeliveredOnce
    PairsMeet
CHECK_DEADLOCK FALSE
