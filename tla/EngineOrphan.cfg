SPECIFICATION SupSpec
CONSTANTS
    DevModes = {FALSE}
    MayOther = FALSE
    MayCrash = FALSE
    MaxPolls = 2
INVARIANTS NoOrphan
CHECK_DEADLOCK FALSE
