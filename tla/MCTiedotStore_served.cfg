\* Is a post still served after another one failed?
SPECIFICATION FairSpec
CONSTANTS
    Clients = {a, b}
    Readers = {}
    Writers = {a, b}
    Circles = {c1}
    Posts = {m1, m2}
    Blank = Blank
    NeedIndex = FALSE
    RangeLimit = 2
    Faults = {"insert"}
    MaxCrashes = 0
PROPERTIES
    DocPostsAreServed
\* The posts run out and nobody reads: the instance ends, the server does not.
CHECK_DEADLOCK FALSE
