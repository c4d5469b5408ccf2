SPECIFICATION Spec
CONSTANTS
    k1 = k1
    k2 = k2
    Doc = {d1}
    Key <- Keys
    Leased = {r1}
    Free = {r2, r3}
    Sets <- OneKey
    Forcing <- NotForced
    Found <- AllKeys
    NewRules = FALSE
    Absent = Absent
    NoRun = NoRun
SYMMETRY Symmetry
INVARIANT RecordedMeansCurrent
INVARIANT TypeOK
CHECK_DEADLOCK FALSE
