CONSTANTS
    NoTopic = NoTopic
    Topics = {t1}
    LongTopics = {t1}
    QoS = {0, 1}
    MaxHandlers = 1
    MaxPacketId = 1
    MaxInFlight = 2
    PeerCloses = FALSE
    PacketsTorn = TRUE
    CoreCounts = FALSE

SPECIFICATION FairSpec

PROPERTIES
    CallsReturn
    Reconnects
