\* Posts that overtake each other, a reader, the expiry loop, failing calls, one restart.
SPECIFICATION FairSpec
CONSTANTS
    Clients = {a, b}
    Readers = {b}
    Writers = {a, b}
    Circles = {c1}
    Posts = {m1, m2}
    Blank = Blank
    RangeLimit = 1
    Faults = {"inc", "insert", "find", "remove"}
    MaxCrashes = 1
INVARIANTS
    IdsAreUnique
    AckedIsKept
    AnswersStayTrue
PROPERTIES
    ExpiredStaysGone
    ImplementsMessageLog
    OldIsRemoved
