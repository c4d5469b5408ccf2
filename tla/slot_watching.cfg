SPECIFICATION Spec
CONSTANTS
    Watcher = Watcher
    Rebuilder = {r1}
    MaxClaims = 2
    Faults = {"moved"}
INVARIANT WatchingMeansWritable
CHECK_DEADLOCK FALSE
