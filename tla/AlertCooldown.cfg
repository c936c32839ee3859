SPECIFICATION Spec
CONSTANTS
    Symbols = {AAPL}
    Kinds = {"plain"}
    Cooldowns = {0, 2}
    Conns = {}
    MayMiss = TRUE
    MaxId = 2
    MaxUid = 2
    MaxTime = 3
    MaxFeed = 3
INVARIANTS CooldownRespected AtMostOneLateFire MonitorInv
PROPERTY ImplementsContract
