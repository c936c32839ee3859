SPECIFICATION Spec
CONSTANTS
    Symbols = {AAPL, MSFT}
    Kinds = {"plain"}
    Cooldowns = {0}
    Conns = {}
    MayMiss = FALSE
    MaxId = 2
    MaxUid = 2
    MaxTime = 1
    MaxFeed = 2
INVARIANTS EventNamesItsAlert
