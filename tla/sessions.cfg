CONSTANTS
    Zero = Zero
    Damaged = Damaged
    PayloadWords = 1
    PublishWords = 3
    ClientIds = {c1, c2}
    Addresses = {a1}
    Statuses = {}
    Durations = {1}
    MessageTypes = {}
    MsgIds = {}
    TopicNames = {n1}
    EdgeNames = {}
    TopicIds = {1}
    QoS = {0}
    WillTopics = {}
    WillMessages = {}
    Payloads = {m1}
    MaxClients = 2
    MaxEntries = 1
    MaxCount = 1

SPECIFICATION Spec
SYMMETRY Symmetry

INVARIANTS
    TypeOK

PROPERTIES
    ImplementsStore
