SPECIFICATION Spec
CONSTANTS
    AAPL = AAPL
    MSFT = MSFT
    Symbols = {AAPL, MSFT}
    Seed <- MCSeed
    MayFail = TRUE
    Calls = {p1, p2}
    MaxId = 2
    MaxPos = 3
    MaxReady = 2
    MaxOps = 5
INVARIANTS StoreSound
PROPERTIES OptimismIsRight
CHECK_DEADLOCK FALSE
