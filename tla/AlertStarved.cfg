SPECIFICATION LiveSpec
CONSTANTS
    Symbols = {AAPL, MSFT}
    Kinds = {"plain", "badcross"}
    Cooldowns = {1}
    Conns = {}
    MayMiss = FALSE
    MaxId = 2
    MaxUid = 2
    MaxTime = 1
    MaxFeed = 5
PROPERTIES EveryDueAlertFires
