\* Is a message kept when its directory outgrows one listing?
SPECIFICATION Spec
CONSTANTS
    Clients = {a}
    Readers = {}
    Writers = {a}
    Circles = {c1}
    Posts = {m1, m2, m3}
    Blank = Blank
    ReaddirLimit = 1
    RangeLimit = 2
    Faults = {}
    MaxCrashes = 0
PROPERTIES
    DocMessagesImmutable
\* The posts run out and nobody reads: the instance ends, the server does not.
CHECK_DEADLOCK FALSE
