SPECIFICATION Spec
CONSTANTS
    Decisions = {d1, d2}
    None = none
    Absent = absent
    Torn = torn
    MaxRequests = 4
    MaxCrashes = 1
INVARIANT CompletedHasFinalManifest
CHECK_DEADLOCK FALSE
