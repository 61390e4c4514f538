\* Every configuration (in-memory or redis store, with or without EncryptData and a read replica): Get after Set returns what was set.
CONSTANTS
    k1 = k1
    s1 = s1
    s2 = s2
    NoEntry = NoEntry
    Keys <- MCKeys
    Strs <- MCOneStr
    TTLs <- MCTTLs
    Ints <- MCInts
    Ns <- MCNs
    MaxCount = 3
    Configs <- MCAllConfigs
    SecondTicks = 2
    DefaultExp = 2
    StoreDefaultExp = 4
    MaxTime = 4
SPECIFICATION Spec
INVARIANT SetRoundTrip
