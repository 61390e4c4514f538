\* Every middleware chain, two requests, one-chunk pages, one update of the
\* resource and one failed redis call.
CONSTANTS
    Requests = {r1, r2}
    r1 = r1
    r2 = r2
    noReq = noReq
    NoReq <- noReq
    MaxChunks = 1
    MaxVersion = 1
    MaxFaults = 1
    Configs <- MCAllConfigs
SPECIFICATION Spec
PROPERTY CachedVersionMonotone RequestsComplete
