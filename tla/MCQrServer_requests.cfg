CONSTANTS
    c1 = c1
    c2 = c2
    Clients = {c1, c2}
    Versions = {1, 2, 3, 4, 7, 10}
    Plans <- PlansInUse
    MaxSwitches = 1
SPECIFICATION Spec
INVARIANT ScansRight
INVARIANT DataSurvives
INVARIANT GeneratorsSound
CHECK_DEADLOCK FALSE
