SPECIFICATION Spec
CONSTANTS
    host = host
    net = net
    priv = priv
    home = home
    main = main
    api = api
    Targets = {net}
    Nets = {net}
    Private = {}
    Allowed = {}
    Handler = main
    Callers = {api}
    Backend = "firewalld"
    HasStore = TRUE
    BanSeconds = 1
    Alerts = {net}
    Requests <- NetRequests
    Slack = 0
    Forever = 20
    MaxTime = 3
    MaxRequests = 3
    Faults = {"firewall", "permanent", "list", "flush", "crash"}
    MaxFaults = 2
INVARIANTS
    IndexAgrees
    BannedIsSilenced
    StoreAgrees
PROPERTIES
    RepliesAreTrue
    BansFollowLifecycle
CHECK_DEADLOCK FALSE
