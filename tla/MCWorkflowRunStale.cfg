SPECIFICATION Spec
CONSTANTS
    RunIds = {r1, r2}
    Keys = {k1}
    Invocations = {i1, i2}
    Tickets = {t1, t2}
    Inputs = {x0, x1}
    Jobs = {j1}
    Kinds = {"adk"}
    StepKinds <- MCStepKinds
    DefaultInputs = x0
    MaxEvents = 20
    MaxCrashes = 1
    None = None
INVARIANT IncompleteIsFailed
\* the bounded requests run out
CHECK_DEADLOCK FALSE
