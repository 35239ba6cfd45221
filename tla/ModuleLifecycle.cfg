SPECIFICATION Spec
CONSTANTS
    c1 = c1  c2 = c2  c3 = c3 r1 = r1  r2 = r2  d = d
    Callers <- MCCallers
    Removers <- MCRemovers
    Destroyer = d
INVARIANTS
    MethodsRunOpened
    OneClose
    ReferenceCountIsExact
    DeletableIsQuiet
    AssertsHold
PROPERTIES
    UnloadEnds
    ImplementsAccess
CHECK_DEADLOCK FALSE
