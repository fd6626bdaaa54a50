CONSTANTS
    Engines = {"hfp", "mgmt", "hci", "ringbuf", "queue", "mainloop", "ble_old", "btio"}
    MaxCommands = 3
    BufSize = 2
    MaxNoise = 1
    MaxRequests = 3
    MaxNotifiers = 3
    MaxHciCommands = 3
    Credits = 2
    RingSizes = {3, 4}
    MaxIn = 8
    MaxEntries = 4
    MaxFds = 2
    MaxWatches = 3
    BleDevices = {"d1", "d2"}
    MaxConnections = 3
    MaxChannels = 3
    MaxWaiting = 1

SPECIFICATION Spec

CHECK_DEADLOCK FALSE

INVARIANTS
    CompletedOnce
    AnswersBelong
    NothingWaits
