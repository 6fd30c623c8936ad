SPECIFICATION FairSpec
CONSTANTS
    Ids = {i1}
    Keys = {k1}
    Requests = {r1}
    None = None
    MaxFaults = 1
PROPERTY
    RegisteredEventuallyDecided
CHECK_DEADLOCK FALSE
