SPECIFICATION Spec
CONSTANTS
    RunIds = {r1, r2}
    Keys = {k1, k2}
    Invocations = {i1, i2}
    Tickets = {t1, t2}
    Inputs = {x1}
    Callers = {c1, c2}
    EventStatuses = {"running"}
    MaxEvents = 2
    None = None
SYMMETRY Symmetry
INVARIANTS
    AuditNeverRefuses
    ChecksImplyAudit
    OneRunPerKey
    HistoryTellsStatus
PROPERTY EntriesPersist
