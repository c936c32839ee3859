SPECIFICATION Spec
CONSTANTS
    AAPL = AAPL
    MSFT = MSFT
    Symbols = {AAPL, MSFT}
    Seed <- MCSeed
    MayFail = FALSE
    Calls = {p1, p2}
    MaxId = 1
    MaxPos = 3
    MaxReady = 1
    MaxOps = 5
INVARIANTS MirrorsServer
CHECK_DEADLOCK FALSE
