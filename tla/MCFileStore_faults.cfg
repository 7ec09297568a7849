\* Every file system call may fail, a directory may outgrow one listing, one
\* restart: the lock, the ids and the handlers of two posters and a reader.
SPECIFICATION FairSpec
CONSTANTS
    Clients = {a, b, r}
    Readers = {r}
    Writers = {a, b}
    Circles = {c1}
    Posts = {m1, m2}
    Blank = Blank
    ReaddirLimit = 1
    RangeLimit = 1
    Faults = {"stat", "mkdir", "open", "create", "write"}
    MaxCrashes = 1
INVARIANTS
    LockToken
    Dense
    RefusedIsNotStored
    IndInv
PROPERTIES
    EveryRequestEnds
