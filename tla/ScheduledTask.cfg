\* Two callers that may call for ever. D0 is entered and left, Cancel and Restart are called any
\* number of times, both modes.
SPECIFICATION Spec
CONSTANTS
    c1 = c1
    c2 = c2
    Callers <- MCCallers
    ExecutionModes <- MCBothModes
    MaxPendingCalls = 2
INVARIANTS
    CancelledIsQuiet
    PendingCallsHaveServer
PROPERTIES
    CancelReturns
CHECK_DEADLOCK FALSE
