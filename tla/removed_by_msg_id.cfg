CONSTANTS
    Zero = Zero
    Damaged = Damaged
    PayloadWords = 131
    PublishWords = 136
    ClientIds = {c1}
    Addresses = {a1}
    Statuses = {}
    Durations = {1}
    MessageTypes = {}
    MsgIds = {1}
    TopicNames = {}
    EdgeNames = {}
    TopicIds = {}
    QoS = {0}
    WillTopics = {}
    WillMessages = {}
    Payloads = {m1}
    MaxClients = 1
    MaxEntries = 2
    MaxCount = 2

SPECIFICATION Spec
SYMMETRY Symmetry

PROPERTIES
    RemovedByMsgId
