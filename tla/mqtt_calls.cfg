CONSTANTS
    NoTopic = NoTopic
    Topics = {t1, t2}
    LongTopics = {}
    QoS = {0, 1, 2}
    MaxHandlers = 2
    MaxPacketId = 3
    MaxInFlight = 2
    PeerCloses = TRUE
    PacketsTorn = FALSE
    CoreCounts = TRUE

SPECIFICATION Spec

INVARIANTS
    TypeOK
    AnswersBelong
    PingOnItsWay
    SubscriptionsAgree
    NextMessageHasHandler
