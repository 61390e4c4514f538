\* The read-only pool of InitReadOnlyRedisCache, one connection, two goroutines: does a caller ever get ErrPoolExhausted?
CONSTANTS
    c1 = c1
    c2 = c2
    n1 = n1
    n2 = n2
    NoConn = NoConn
    Clients <- MCClients
    Builder = c1
    Nodes <- MCNodes
    InitialMaster = n1
    ReadOnlyAddr = n2
    Configs <- MCReadOnlyConfigs
    SentinelMaxIdle = 1
    SentinelMaxActive = 1
    MaxConnections = 1
    MinuteTicks = 1
    IdleTimeoutTicks = 2
    MaxFaults = 1
    MaxCrashes = 2
SPECIFICATION Spec
INVARIANT NeverExhausted
