SPECIFICATION Spec
CONSTANTS
    Faults = {"inotify", "read", "crash"}
    MaxLines = 3
    MaxFiles = 3
    MaxFaults = 1
INVARIANTS
    InOrderOnce
    LinesAreWhole
    NothingIsSkipped
    NoLostWakeUp
PROPERTIES
    LinesAreRead
CHECK_DEADLOCK FALSE
