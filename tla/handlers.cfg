SPECIFICATION HandlersSpec
CONSTANTS
    c1 = c1  c2 = c2  c3 = c3
    home = home  away = away
    None = None
    Clients = {c1, c3}
    Addresses = {home, away}
    AddressOf <- MCAddressOf
    TrustProxy = TRUE
    Outcomes = {"failed"}
    MaxAttempts = 2
    Window = 2
    SweepEvery = 3
    MaxClock = 5
    MaxCalls = 7
    MaxLogins = 2
    MaxCallbacks = 3
    view = view  manage = manage  ga = ga  gb = gb
    dev = dev  ops = ops  prod = prod  corp = corp
    All = All
    HasId = HasId
    NoRole = NoRole
    Names = {view, manage, ga, gb}
    AdminActions = {manage}
    Admin = ops
    Clusters = {prod}
    Roles = {dev, ops}
    Facts = {HasId, corp}
    Configs <- MCConfigs
    p1 = p1  p2 = p2
    Partitions = {p1, p2}
    MaxOffset = 3
    Topics <- MCTopics
    Wants = {1, 2}
    HardLimit = 3
    OverFetch = 2
    Passes <- MCPasses
CHECK_DEADLOCK FALSE
INVARIANTS AllTypeOK SpanCap LastLoginComesThrough GrantsAreMeant AnswerIsRun
PROPERTY ImplementsFixedWindow
