SPECIFICATION Spec
CONSTANTS
    a = a
    b = b
    p = p
    r = r
    x = x
    y = y
    d = d
    e = e
    home = home
    away = away
    None = None
    IPs = {a, b, p, r}
    Accounts = {x, y}
    Domains = {d, e}
    Countries = {home, away}
    DomainOf <- DomainOfAccount
    CountryOf <- CountryOfAddress
    Failing = {}
    AllowedCountries = {home}
    Skew = 1
    PruneEvery = 9
    ScanTime <- ShortScanTime
    Threshold <- LowThreshold
    MaxUniqueIPs = 2
    DiscoveryTime = 1
    MaxDomains = 2
    CorrelWindow = 1
    MinFailures = 2
    TravelWindow = 2
    StaleAfter = 3
    TrustedProxies = {}
    TrustedOrgs = {}
    Proxies = {p}
    Private = {}
    Operator = {}
    Kinds <- AccessKinds
    AlertBuffer = 0
    MaxTime = 0
    MaxEvents = 5
    MaxChanges = 0
PROPERTIES
    BreakInIsReported
CHECK_DEADLOCK FALSE
