\* Two requests, two threads, two sends of any kind, both levels; formatting
\* and sending may fail.
SPECIFICATION Spec
CONSTANTS
    r1 = r1
    r2 = r2
    t1 = t1
    t2 = t2
    Requests <- MCRequests
    Threads <- MCThreads
    Kinds <- MCKinds
    Failures <- MCFailures
    PassiveLevels <- MCBothLevels
    MaxSends = 2
INVARIANTS
    RequestsAreAlive
    RequestHasOneUser
PROPERTIES
    CloseEnds
CHECK_DEADLOCK FALSE
