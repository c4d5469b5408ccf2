SPECIFICATION Spec
CONSTANTS
    k1 = k1
    k2 = k2
    Doc = {d1}
    Key <- Keys
    Leased = {r1}
    Free = {}
    Sets <- AnySet
    Forcing = {FALSE, TRUE}
    Found <- AnyKeys
    NewRules = TRUE
    Absent = Absent
    NoRun = NoRun
SYMMETRY Symmetry
CHECK_DEADLOCK FALSE
INVARIANT RecordedMeansCurrent
