SPECIFICATION CacheSpec
CONSTANTS
    Callers = {c1, c2}
    Keys = {AAPL}
    Adapters = 1
    Ttl = 1
    MaxSize = 3
    MayLosePersist = FALSE
    MaxTime = 0
PROPERTIES Coalesced
