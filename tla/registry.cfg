CONSTANTS
    Zero = Zero
    Damaged = Damaged
    PayloadWords = 1
    PublishWords = 3
    ClientIds = {c1, c2, c3}
    Addresses = {a1, a2}
    Statuses = {"ASLEEP"}
    Durations = {1}
    MessageTypes = {}
    MsgIds = {}
    TopicNames = {}
    EdgeNames = {}
    TopicIds = {}
    QoS = {0}
    WillTopics = {w1}
    WillMessages = {v1}
    Payloads = {}
    MaxClients = 3
    MaxEntries = 2
    MaxCount = 2

SPECIFICATION Spec
SYMMETRY Symmetry

INVARIANTS
    RegistryWellFormed
    EntryCoherent
    OpenedForItsClient
    NoInheritance

PROPERTIES
    OthersUntouched
    FailedIsInert
