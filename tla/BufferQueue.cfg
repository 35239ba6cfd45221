\* One buffer of the producer's own and up to two from the lookaside list.
SPECIFICATION Spec
CONSTANTS
    b1 = b1
    b2 = b2
    b3 = b3
    Buffers <- MCBuffers
    BufferCount = 1
    EnableLookAside = TRUE
INVARIANTS
    BuffersHavePlaces
    TimersServeTheirUse
PROPERTIES
    ExpiredIsDelivered
    CloseEnds
CHECK_DEADLOCK FALSE
