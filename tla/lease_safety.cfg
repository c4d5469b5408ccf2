SPECIFICATION Spec
CONSTANTS
    Proc = {p1, p2}
    File = {f1, f2}
    NoProc = NoProc
    NoFile = NoFile
SYMMETRY Symmetry
INVARIANT TypeOK
INVARIANT WriterHoldsLock
INVARIANT PurgeHoldsLock
INVARIANT InfoNamesHolder
INVARIANT PurgeWaitsForSeenHolder
PROPERTY OnlyHolderTouchesInfo
PROPERTY ImplementsOneWriter
CHECK_DEADLOCK FALSE
