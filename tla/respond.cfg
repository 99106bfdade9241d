SPECIFICATION Spec
CONSTANTS
    i1 = i1
    i2 = i2
    a1 = a1
    a2 = a2
    None = None
    IPs = {i1, i2}
    Accounts = {a1, a2}
    Kinds <- AttackKinds
    Callers = {p1}
    Private = {}
    Allowed <- AllowedAddresses
    WarnsUser = TRUE
    NotifyOnActions = {}
    OnlyApplied = TRUE
    Channels = {telegram, email}
    KeyCooldown = 3
    MaxPerWindow = 1
    Window = 1
    PruneEvery = 3
    MaxKeys = 2
    MaxTime = 3
    MaxAlerts = 3
    MaxRequests = 1
    Faults = {"zmprov", "killed", "firewall", "mail", "channel", "crash"}
    MaxFaults = 1
INVARIANTS
    SuspendedIsLocked
    UserWarnedOnce
    CooldownHolds
    WithheldWasHeard
    RateIsBounded
CHECK_DEADLOCK FALSE
