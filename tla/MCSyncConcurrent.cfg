CONSTANTS
    NumRows = 3
    MaxTime = 3
    Sns = {"A", "B"}
    NoSn = NoSn
    Metrics = {"load"}
    At <- At3
    Metric <- Metric3
    Retention = 3
    Syncs = {"worker", "script"}
    Workers = {"worker"}
    Options <- WorkerAndScript
    Devices = {"d1", "d2"}
    AllDevices = AllDevices
    Dev <- Dev3
    Malformed = {2}
    Lookback = 2
    RegistryInit <- MCRegistry
    RegistryChanges <- NoChanges
    MaxFaults = 0
SPECIFICATION Spec
INVARIANT Coverage
INVARIANT OnlyRealFailures
PROPERTY WatermarkSpec
PROPERTY StoreSpec
CHECK_DEADLOCK FALSE
