SPECIFICATION FairSpec
CONSTANTS
    RunIds = {r1, r2}
    Keys = {k1}
    Invocations = {i1}
    Tickets = {t1}
    Inputs = {x0}
    Jobs = {j1, j2}
    Kinds = {"adk", "console"}
    StepKinds <- MCOneStep
    DefaultInputs = x0
    MaxEvents = 20
    MaxCrashes = 1
    None = None
PROPERTIES
    KeepsRegistry
    AdkRunsEnd
\* the bounded requests run out
CHECK_DEADLOCK FALSE
