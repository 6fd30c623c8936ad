SPECIFICATION Spec
CONSTANTS
    Ids = {i1}
    Keys = {k1}
    Requests = {r1}
    None = None
    MaxFaults = 1
INVARIANT
    SuppressedHasOpenIncident
CHECK_DEADLOCK FALSE
