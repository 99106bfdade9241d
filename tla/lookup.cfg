SPECIFICATION Spec
CONSTANTS
    home = home
    None = None
    Clients = {engine, enforcer}
    Addresses = {a, b, p}
    Private = {p}
    Opinions = {home, away}
    TTL = 1
    Timeout = 1
    MaxEntries = 1
    First <- AtHome
    MaxTime = 3
    MaxChanges = 1
    MaxLookups = 3
INVARIANTS
    AnswersAreRecent
    CacheIsBounded
CHECK_DEADLOCK FALSE
