CONSTANTS
    NumRows = 3
    MaxTime = 3
    Sns = {"A", "C"}
    NoSn = NoSn
    Metrics = {"load"}
    At <- At3
    Metric <- Metric3
    Retention = 1
    Syncs = {"worker"}
    Workers = {"worker"}
    Options <- PlainOnly
    Devices = {"d1", "d2"}
    AllDevices = AllDevices
    Dev <- Dev3
    Malformed = {}
    Lookback = 2
    RegistryInit <- OneRegistered
    RegistryChanges <- PrunedOrRenamed
    MaxFaults = 1
SPECIFICATION FairSpec
INVARIANT TypeOK
INVARIANT SyncInv
PROPERTY EventuallySettled
PROPERTY CheckpointNeverMovesBack
CHECK_DEADLOCK FALSE
