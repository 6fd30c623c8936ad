SPECIFICATION Spec
CONSTANTS
    Ids = {i1, i2}
    Keys = {k1, k2}
    Requests = {r1, r2}
    None = None
    MaxFaults = 1
SYMMETRY Symmetry
INVARIANTS
    TypeOK
    DecisionsLock
    AlertedIsHigh
    SingleAutoEscalation
    OneIncidentPerKey
    NothingForgotten
    EscalationNotified
    AuditMatchesRows
PROPERTIES
    LockNeverReleased
    ReviewTakesEffect
CHECK_DEADLOCK FALSE
