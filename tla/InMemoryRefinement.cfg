\* Two callers and the janitor on one key: does every operation take effect as one atomic CacheStore step?
CONSTANTS
    c1 = c1
    c2 = c2
    k1 = k1
    k2 = k2
    s1 = s1
    NoEntry = NoEntry
    Clients <- MCClients2
    Keys <- MCKeys1
    Strs <- MCStrs
    W = 2
    MaxEntries = 1
    SecondTicks = 2
    DefaultExp = 2
    TTLs <- MCTTLs
    SetInts = {0, 1}
    Ns <- MCNs
    MaxTime = 3
    JanitorRunning = TRUE
SPECIFICATION Spec
PROPERTY ImplementsCacheStore
