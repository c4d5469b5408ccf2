SPECIFICATION Spec
CONSTANTS
    doc = doc
    code = code
    c1 = c1
    c2 = c2
    t1 = t1
    t2 = t2
    Path <- Paths
    Content = {c1, c2}
    Text = {t1, t2}
    Parser <- Parsers
    ParserOf <- Docs
    TextOf <- Texts
    Reread = {doc}
    Titled = {}
    Static = FALSE
    MaxChanges = 1
    MaxOthers = 1
    Gone = Gone
    Awaiting = Awaiting
    NoRow = NoRow
    NoText = NoText
    Broken = Broken
    OldText = OldText
    NoPath = NoPath
INVARIANT TextOfItsHash
INVARIANT RecordedMeansSettled
PROPERTY OthersKept
PROPERTY StableStays
PROPERTY OneRunIsEnough
CHECK_DEADLOCK FALSE
CONSTRAINT Bounded
