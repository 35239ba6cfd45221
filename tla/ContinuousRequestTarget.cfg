\* Two streams in all three modes, started, stopped and restarted any number of
\* times, two completion routines that still run beside them.
SPECIFICATION StreamSpec
CONSTANTS
    ContinuousRequestCount = 2
    Modes <- MCAllModes
    MaxRoutines = 2
    MaxClientBuffers = 1
INVARIANTS
    StoppedIsQuiet
    StreamsAreCounted
PROPERTIES
    StopAndCloseReturn
CHECK_DEADLOCK FALSE
