SPECIFICATION MCSpec
CONSTANTS
    DevModes = {FALSE, TRUE}
    MayOther = TRUE
    MayCrash = TRUE
    MaxPolls = 2
CONSTANTS
    Callers = {p1, p2}
    Keys = {AAPL, MSFT}
    Adapters = 2
    Ttl = 1
    MaxSize = 1
    MayLosePersist = TRUE
    MaxTime = 3
CONSTANTS
    Symbols = {AAPL, MSFT}
    Quoted = {AAPL, MSFT}
    Conns = {c1, c2}
    NoConn = none
    MaxChanges = 2
    MaxTroubles = 1
INVARIANTS CleanStop SupervisorInv CacheSound StreamSound
PROPERTIES RateLimited NeverGoesBack EveryCallReturns StartSettles
           SeededOnce SubscriptionRestored EveryQuoteShows
CHECK_DEADLOCK FALSE
