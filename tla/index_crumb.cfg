SPECIFICATION Spec
CONSTANTS
    doc = doc
    code = code
    c1 = c1
    c2 = c2
    t1 = t1
    t2 = t2
    Path <- Paths
    Content = {c1, c2}
    Text = {t1, t2}
    Parser <- Parsers
    ParserOf <- Docs
    TextOf <- Texts
    Reread = {doc}
    Titled = {}
    Static = TRUE
    MaxChanges = 1
    MaxOthers = 0
    Gone = Gone
    Awaiting = Awaiting
    NoRow = NoRow
    NoText = NoText
    Broken = Broken
    OldText = OldText
    NoPath = NoPath
CHECK_DEADLOCK FALSE
INVARIANT KeptUnderItsName
