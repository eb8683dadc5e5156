SPECIFICATION FairSpec
CONSTANTS
    p1 = p1
    p2 = p2
    a1 = a1
    a2 = a2
    b1 = b1
    Processes <- MCProcesses
    Threads <- MCThreads
    ProcessOf <- MCProcessOf
    Readers = {r1}
    Items = {x1, x2, x3}
    MaxCrashes = 2
    None = None
INVARIANTS
    OneInside
PROPERTIES
    KeepsLog
    EveryTransactionEnds
    SnapshotsGrow
