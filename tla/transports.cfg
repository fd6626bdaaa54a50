CONSTANTS
    Builds = {"serial", "telnet", "udp", "single_tcp", "tcp", "ble", "process"}
    Addresses = {"a1", "a2"}
    Radio <- MCRadio
    MaxLineFaults = 2
    Hosts = {"h1"}
    Ports = {0, 1, 2}
    PORT = 3
    MaxDatagrams = 1
    Clients = {"c1", "c2"}
    Peers = {"c1", "c2"}
    MaxReceived = 2
    MaxSent = 2
    Macs = {m1}
    Slots = {s1, s2}
    None = None
    Expired = Expired
    FaultLimit = 1
    FaultyPeriod = 1
    MaxAge = 1
    MaxQueue = 1
    MacVanishes = TRUE
    Wrap = 4
    DefaultPeriod = 2
    Periods = {1}
    MaxTicks = 5

SPECIFICATION Spec

CHECK_DEADLOCK FALSE

INVARIANTS
    TypeOK
    ConnectedMeansUsable
    Attributed
    InStep
    OneConnection
    Reachable
    InProgressHasThread
    TimeAcrossWrap

PROPERTIES
    CallsReturn
    DeviceIsTried
