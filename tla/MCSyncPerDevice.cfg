CONSTANTS
    NumRows = 3
    MaxTime = 3
    Sns = {"A", "B", "C"}
    NoSn = NoSn
    Metrics = {"load"}
    At <- At3
    Metric <- Metric3
    Retention = 1
    Syncs = {"worker"}
    Workers = {"worker"}
    Options <- WithSnScript
    Devices = {"d1", "d2"}
    AllDevices = AllDevices
    Dev <- Dev3
    Malformed = {}
    Lookback = 2
    RegistryInit <- MCRegistry
    RegistryChanges <- NoChanges
    MaxFaults = 1
SPECIFICATION Spec
PROPERTY PerDeviceSyncKeepsCheckpoint
CHECK_DEADLOCK FALSE
