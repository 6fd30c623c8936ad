SPECIFICATION MCSpec
CONSTANTS
    LowMax = 29
    MediumMax = 64
    fight = fight
    fall = fall
    Keys = {fight, fall}
    Suppressed = {}
    Situations <- MCSituations
    Needed = 3
    MaxQueue = 1
    MaxFrames = 5
    Windows = {w1, w2}
    Tracks = {t1}
    Readers = {r1, r2}
    Zones = {z1, z2}
    None = None
    MergeWindow = 1
    HistoryLength = 3
    MaxAge = 1
    Ttl = 1
    MaxNow = 2
    MaxEvents = 3
    Spots = {s1, s2}
    NoResult = NoResult
    SkipN = 2
    FlowEvery = 2
    CnnEvery = 2
    CnnFrames = 2
    SkeletonWindow = 2
    SmoothingWindow = 1
    SmoothingThreshold = 1
    FallHistory = 1
    FallRecent = 2
    HeadFrames = 1
    CrowdSize = 2
    MaxTracks = 2
    VideoFrames = 4
    Webhooks <- MCTwo
    Recipients <- MCTwo
    Phones <- MCTwo
    Chats <- MCOne
    MaxRetries = 1
    WindowSize = 2
    VoteWindow = 2
    VoteNeed = 2
    Persons = {p1, p2}
    StaleFrames = 1
    MaxPasses = 2
    MaxIncidents = 1
    MaxReplays = 2
    MaxAlerts = 2
    v1 = v1
    v2 = v2
    Footage <- MCFootage
    RwfVal = {v2}
    NoModel = NoModel
    Epochs = 2
    MaxRuns = 2
INVARIANTS
    ConfirmedInARow
CHECK_DEADLOCK FALSE
