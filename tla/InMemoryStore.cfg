\* One caller and the janitor on two keys with room for one: every operation, every TTL kind.
CONSTANTS
    c1 = c1
    c2 = c2
    k1 = k1
    k2 = k2
    s1 = s1
    NoEntry = NoEntry
    Clients <- MCClients1
    Keys <- MCKeys2
    Strs <- MCStrs
    W = 2
    MaxEntries = 1
    SecondTicks = 2
    DefaultExp = 2
    TTLs <- MCTTLs
    SetInts = {0, 1}
    Ns <- MCNs
    MaxTime = 3
    JanitorRunning = TRUE
SPECIFICATION Spec
PROPERTY ExpiredEventuallySwept
