SPECIFICATION StartSpec
CONSTANTS
 SchedulerEnabled = TRUE
 Clients = {fh}
 MaxKills = 1
INVARIANT LandsOnLatest
CHECK_DEADLOCK FALSE
