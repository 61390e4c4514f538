\* Every store and the encrypted and read-cache configurations: Get after each write path, Exists after Set, and reads against the expiry the write set.
CONSTANTS
    k1 = k1
    s1 = s1
    s2 = s2
    NoEntry = NoEntry
    Keys <- MCKeys
    Strs <- MCStrs
    TTLs <- MCTTLs
    Ints <- MCInts
    Ns <- MCNs
    MaxCount = 3
    Configs <- MCReadContractConfigs
    SecondTicks = 2
    DefaultExp = 2
    StoreDefaultExp = 4
    MaxTime = 4
SPECIFICATION Spec
INVARIANT ReadContract
