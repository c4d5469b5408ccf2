SPECIFICATION Spec
CONSTANTS
    Request = {r1, r2, r3}
    MaxSessions = 2
    Attempts = 2
    Every = 2
    MaxClock = 3
    MaxRefused = 4
    Nobody = Nobody
    Never = Never
SYMMETRY Symmetry
INVARIANT TypeOK
INVARIANT SessionLimit
INVARIANT SeatsCounted
INVARIANT RefusalsAccounted
PROPERTY LinesApart
CHECK_DEADLOCK FALSE
