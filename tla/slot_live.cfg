SPECIFICATION FairSpec
CONSTANTS
    Watcher = Watcher
    Rebuilder = {r1}
    MaxClaims = 3
    Faults = {"panic", "models"}
PROPERTY PendingSettled
PROPERTY ClaimReleased
PROPERTY RebuildEnds
PROPERTY ShutdownCompletes
CHECK_DEADLOCK FALSE
