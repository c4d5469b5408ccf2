SPECIFICATION FairSpec
CONSTANTS
    d = d
    e = e
    x = x
    y = y
    doc = doc
    code = code
    c1 = c1
    c2 = c2
    t1 = t1
    t2 = t2
    Dir = {d, e}
    Path <- Paths
    Content = {c1, c2}
    Text = {t1, t2}
    Parser <- Parsers
    ParserOf <- Docs
    TextOf <- Texts
    Starts <- DiskStarts
    Capacity = 2
    MaxChanges = 3
    Gone = Gone
    Linked = Linked
    Awaiting = Awaiting
    NoRow = NoRow
    NoText = NoText
    Broken = Broken
    Outside = Outside
INVARIANT TextOfItsHash
INVARIANT Converges
PROPERTY SteadyKept
CHECK_DEADLOCK FALSE
PROPERTY CaughtUp
