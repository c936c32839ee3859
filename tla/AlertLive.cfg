SPECIFICATION LiveSpec
CONSTANTS
    Symbols = {AAPL, MSFT}
    Kinds = {"cross", "badcross"}
    Cooldowns = {1}
    Conns = {c1, c2}
    MayMiss = FALSE
    MaxId = 2
    MaxUid = 2
    MaxTime = 1
    MaxFeed = 6
INVARIANTS BroadcastComplete
PROPERTIES SoundAlertsFire TickEnds
