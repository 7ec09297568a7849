\* Three posts and a reader over two circles, one restart, failing Stat, Mkdir and Create.
SPECIFICATION Spec
CONSTANTS
    Clients = {a, b}
    Readers = {b}
    Writers = {a, b}
    Circles = {c1, c2}
    Posts = {m1, m2, m3}
    Blank = Blank
    ReaddirLimit = 3
    RangeLimit = 2
    Faults = {"stat", "mkdir", "create"}
    MaxCrashes = 1
SYMMETRY Symmetry
INVARIANTS
    AckedIsStored
    BlankIsInFlight
    AnswersStayTrue
PROPERTIES
    Immutable
    ImplementsMessageLog
    RangeIsComplete
