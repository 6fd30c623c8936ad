SPECIFICATION MCSpec
CONSTANTS
    Channels <- MCChannels
    Consumers <- MCConsumers
    ChannelOf <- MCChannelOf
    Messages <- MCMessages
    MaxSize = 2
    MaxPublished = 4
    Ids = {i1, i2}
    Keys = {k1, k2}
    Requests = {r1}
    None = None
INVARIANTS
    TypeOK
    InOrder
    AllAccounted
PROPERTIES
    WaitingIsTaken
    DeliversInOrder
    EventuallyDecided
    EscalationAnnounced
CHECK_DEADLOCK FALSE
