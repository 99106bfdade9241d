SPECIFICATION Spec
CONSTANTS
    host = host
    net = net
    priv = priv
    home = home
    main = main
    api = api
    Targets = {net, host, priv, home}
    Nets = {net}
    Private = {priv}
    Allowed = {home}
    Handler = main
    Callers = {api}
    Backend = "firewalld-ipset"
    HasStore = FALSE
    BanSeconds = 1
    Alerts = {net, host, priv, home}
    Requests <- MixedRequests
    Slack = 0
    Forever = 20
    MaxTime = 3
    MaxRequests = 3
    Faults = {"crash"}
    MaxFaults = 1
INVARIANTS
    RuleWhileBanned
    SilencedIsBanned
    NoOrphanRule
CHECK_DEADLOCK FALSE
