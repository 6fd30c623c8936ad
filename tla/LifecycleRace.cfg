SPECIFICATION Spec
CONSTANTS
    Ids = {i1}
    Keys = {k1}
    Requests = {r1}
    None = None
    MaxFaults = 0
PROPERTY
    OnlyUnreviewedEscalated
CHECK_DEADLOCK FALSE
