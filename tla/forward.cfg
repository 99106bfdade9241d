SPECIFICATION FairSpec
CONSTANTS
    BatchSize = 2
    Retention = 2
    KeepSynced = 1
    Modes = {TRUE, FALSE}
    Refused = {4}
    MaxAlerts = 4
    MaxTime = 2
    Faults = {"store", "response", "crash"}
    MaxFaults = 2
INVARIANTS
    NothingIsLost
    OldestFirst
    RepeatsNeedFaults
PROPERTIES
    BacklogDrains
    TableIsPruned
CHECK_DEADLOCK FALSE
