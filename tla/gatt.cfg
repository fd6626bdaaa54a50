CONSTANTS
    Engines = {"att", "helpers", "writes", "notify", "client", "db", "server", "gattrib4", "gattrib", "procedures"}
    MaxOps = 2
    MaxHandlers = 1
    MaxHandle = 4
    Databases <- MCDatabases
    StrictPeers = {TRUE}
    MaxRequests = 3
    MaxChunks = 2
    MaxNotify = 3
    Slots = 3
    Services <- MCServices
    Peers <- MCPeers
    MaxChanges = 2
    LinkTypes = {"LE", "BREDR"}
    LastHandle = 3
    ServiceKinds <- MCServiceKinds
    MaxServices = 2
    MaxAccess = 1
    MaxPrep = 2
    MaxData = 2
    MaxPdu = 2
    MaxGCommands = 3
    MaxGCalls = 3
    MaxMtu = 3
    LastProcHandle = 4
    ProcMtu = 6
    MaxLength = 11

SPECIFICATION Spec

CHECK_DEADLOCK FALSE

INVARIANTS
    CompletedOnce
    NothingWaits
    ListsWhole
    WritesWhole
    RecordsAgree
