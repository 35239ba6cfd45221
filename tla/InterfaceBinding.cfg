SPECIFICATION Spec
CONSTANTS
    p1 = p1  p2 = p2  t1 = t1  i1 = i1  i2 = i2  u1 = u1
    Protocols <- MCProtocols
    Transports <- MCTransports
    Interfaces <- MCInterfaces
    Users <- MCUsers
    Client = Client
    None = None
INVARIANTS
    UnbindOnce
    MethodsAreProtected
    BindingsAreMutual
PROPERTIES
    DestroyEnds
CHECK_DEADLOCK FALSE
