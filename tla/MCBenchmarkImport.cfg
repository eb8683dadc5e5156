SPECIFICATION ImportSpec
CONSTANTS
    Importers = {i1}
    Order <- Pinned
    Versions = {v1, v2}
    Cases = {c1}
    None = None
    MaxEdits = 1
    MaxTries = 2
    MaxFaults = 0
INVARIANT RepeatedImportIsFound
\* the bounds end every behaviour
CHECK_DEADLOCK FALSE
SYMMETRY Symmetry
