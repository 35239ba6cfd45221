\* Two WDFIOTARGETs, one after the other; the driver registers up to three times.
SPECIFICATION InterfaceSpec
CONSTANTS
    c1 = c1
    Callers <- MCCallers
    MaxTargets = 2
    MaxRegistrations = 3
INVARIANTS
    UsesOpenTarget
    TargetsHaveOwners
PROPERTIES
    UnregisterCloses
CHECK_DEADLOCK FALSE
