SPECIFICATION DeviceSpec
CONSTANTS
    a = a  b = b  c = c
    Modules <- MCModules
    Roots <- MCRoots
    Children <- MCChildren
    Drivers <- MCDrivers
    Options <- MCOptions
    Failing <- MCFailing
INVARIANTS
    OpensInOrder
    OpenInD0
    ClosedInTime
CHECK_DEADLOCK FALSE
