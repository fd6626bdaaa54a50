CONSTANTS
    Zero = Zero
    Damaged = Damaged
    PayloadWords = 1
    PublishWords = 3
    ClientIds = {c1}
    Addresses = {a1}
    Statuses = {}
    Durations = {1}
    MessageTypes = {}
    MsgIds = {1}
    TopicNames = {n1, n2}
    EdgeNames = {long}
    TopicIds = {1, 2}
    QoS = {0}
    WillTopics = {}
    WillMessages = {}
    Payloads = {m1}
    MaxClients = 1
    MaxEntries = 3
    MaxCount = 2

SPECIFICATION Spec
SYMMETRY Symmetry

CONSTRAINT OneKindOfFiles

INVARIANTS
    RegistrationsResolve
    SubscriptionsDistinct
    SubscriptionQueriesAgree
    TopicsCountedOnce
    PublishesFound
