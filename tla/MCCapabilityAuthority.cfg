SPECIFICATION Spec
CONSTANTS
    Secrets = {s1, s2, s3}
    Claims = {c1, c2}
    Short = short
    None = none
    MaxHandoffs = 2
    BootstrapTtl = 2
    SessionTtl = 2
    MaxTime = 3
    MaxAsked = 3
    MaxGrants = 2
    MaxGeneration = 3
SYMMETRY Symmetry
INVARIANTS
    RevokedIsClosed
    RotationRevokes
    OneSessionPerGrant
    ApprovalSpendsExchange
PROPERTY RecentHandoffsStay
CHECK_DEADLOCK FALSE
