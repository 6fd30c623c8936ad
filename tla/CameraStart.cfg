SPECIFICATION FairSpec
CONSTANTS
    Cameras = {c1}
    Tasks <- MCTasks
    None = None
    MaxAttempts = 1
    MaxQueue = 2
    Clients = {k1}
    Pushers <- MCPushers
    Requests = {r1, r2}
    MaxEvents = 2
    MaxFaults = 0
PROPERTIES
    StartIsAnswered
CHECK_DEADLOCK FALSE
