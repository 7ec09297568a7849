\* Two clients, two transactions, two documents; in three of the cases one is interrupted.
SPECIFICATION Spec
CONSTANTS
    Runners = {1, 2}
    Txns = {1, 2}
    Docs = {1, 2}
    RunBy <- Own
    Scenarios <- Orders
    None = None
    tarjanSort <- TarjanSort
\* The transactions are over in the end.
CHECK_DEADLOCK FALSE
INVARIANTS
    AllOrNothing
    AtMostOnce
    AnswersAreTrue
    OrderAgreed
PROPERTIES
    DecisionsAreFinal
