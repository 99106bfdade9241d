SPECIFICATION Spec
CONSTANTS
    host = host
    host32 = host32
    range = range
    account = account
    bad = bad
    near = near
    private = private
    Values = {host, host32, range, account, bad}
    Malformed = {bad}
    Addresses = {host, host32, range}
    Canon <- CanonOf
    Subjects = {host, near, account, private}
    Covers <- CoversOf
    BuiltinNets = {private}
    Configured = {range}
    Legacy = {bad, host32}
    Callers = {c1, c2}
    Workers = {w1, w2}
    HasStore = TRUE
    Faults = {"save", "load"}
    MaxRequests = 2
    MaxFaults = 1
    MaxBans = 2
SYMMETRY Alike
INVARIANTS
    ExemptIsIgnored
    IgnoredIsJustified
CHECK_DEADLOCK FALSE
