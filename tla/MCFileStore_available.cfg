\* Is every id up to the one reported readable?
SPECIFICATION Spec
CONSTANTS
    Clients = {a, r}
    Readers = {r}
    Writers = {a}
    Circles = {c1}
    Posts = {m1, m2}
    Blank = Blank
    ReaddirLimit = 2
    RangeLimit = 2
    Faults = {}
    MaxCrashes = 0
INVARIANTS
    DocMessagesAvailable
