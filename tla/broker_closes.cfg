CONSTANTS
    NoTopic = NoTopic
    Topics = {t1}
    LongTopics = {}
    QoS = {0, 1}
    MaxHandlers = 1
    MaxPacketId = 2
    MaxInFlight = 2
    PeerCloses = TRUE
    PacketsTorn = FALSE
    CoreCounts = TRUE

SPECIFICATION FairSpec

PROPERTIES
    CallsReturn
