SPECIFICATION FairSpec
CONSTANTS
    Cameras = {c1}
    Tasks <- MCTasks
    None = None
    MaxAttempts = 1
    MaxQueue = 2
    Clients = {k1, k2}
    Pushers <- MCPushers
    Requests = {r1, r2}
    MaxEvents = 2
    MaxFaults = 1
INVARIANTS
    TypeOK
    ReadersReachable
    RowFollowsReports
    DashboardsCurrent
PROPERTIES
    ShutdownCompletes
    GiveUpReachesRow
CHECK_DEADLOCK FALSE
