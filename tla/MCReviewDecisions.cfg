SPECIFICATION Spec
CONSTANTS
    Decisions = {d1, d2}
    None = none
    Absent = absent
    Torn = torn
    MaxRequests = 4
    MaxCrashes = 1
SYMMETRY Symmetry
INVARIANTS
    DecisionStands
    SettledListed
PROPERTY AnsweredIsBacked
CHECK_DEADLOCK FALSE
