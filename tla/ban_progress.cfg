SPECIFICATION FairSpec
CONSTANTS
    host = host
    net = net
    priv = priv
    home = home
    main = main
    api = api
    Targets = {net}
    Nets = {net}
    Private = {}
    Allowed = {}
    Handler = main
    Callers = {api}
    Backend = "firewalld"
    HasStore = TRUE
    BanSeconds = 1
    Alerts = {net}
    Requests <- NetRequests
    Slack = 0
    Forever = 20
    MaxTime = 3
    MaxRequests = 2
    Faults = {"store", "list", "flush", "crash"}
    MaxFaults = 1
PROPERTIES
    NobodyFreeAndUnwatched
    LostRuleIsRestored
    EveryCallReturns
    ExpiredIsPurged
CHECK_DEADLOCK FALSE
