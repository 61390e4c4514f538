\* Every middleware chain and two-chunk pages: does each client receive one
\* whole page?
CONSTANTS
    Requests = {r1, r2}
    r1 = r1
    r2 = r2
    noReq = noReq
    NoReq <- noReq
    MaxChunks = 2
    MaxVersion = 1
    MaxFaults = 1
    Configs <- MCAllConfigs
SPECIFICATION Spec
INVARIANT ResponseIsOnePage
