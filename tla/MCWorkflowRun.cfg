SPECIFICATION Spec
CONSTANTS
    RunIds = {r1, r2}
    Keys = {k1}
    Invocations = {i1, i2}
    Tickets = {t1, t2}
    Inputs = {x0, x1}
    Jobs = {j1, j2, j3}
    Kinds = {"adk"}
    StepKinds <- MCStepKinds
    DefaultInputs = x0
    MaxEvents = 20
    MaxCrashes = 1
    None = None
SYMMETRY Symmetry
INVARIANTS
    OneWorkerPerRun
    StatusIsBacked
    LineageKeepsInputs
    AbandonedIsNotInferred
PROPERTY NeverReopens
\* the bounded requests run out
CHECK_DEADLOCK FALSE
