SPECIFICATION Spec
CONSTANTS
    Watcher = Watcher
    Rebuilder = {r1, r2}
    MaxClaims = 4
    Faults = {"on", "off", "moved", "meta", "context", "models", "io", "json", "panic"}
SYMMETRY Symmetry
INVARIANT TypeOK
INVARIANT WritableNeedsLease
INVARIANT MarksOwned
INVARIANT LeaseHasReason
INVARIANT RebuildCanWrite
INVARIANT BatchKeepsLease
INVARIANT NoSecondLiveClaim
INVARIANT StopRecorded
INVARIANT JsonFollowsWatcher
PROPERTY NoStopOnceClosed
CHECK_DEADLOCK FALSE
