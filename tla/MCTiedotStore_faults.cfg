\* Every use of the database may fail; paths must have an index; one restart.
SPECIFICATION FairSpec
CONSTANTS
    Clients = {a, b}
    Readers = {b}
    Writers = {a, b}
    Circles = {c1, c2}
    Posts = {m1, m2}
    Blank = Blank
    NeedIndex = TRUE
    RangeLimit = 1
    Faults = {"query", "update", "insert"}
    MaxCrashes = 1
PROPERTIES
    LostLockIsFinal
    ImplementsMessageLog
    EveryRequestEnds
\* The lock may be lost with both clients waiting for it.
CHECK_DEADLOCK FALSE
