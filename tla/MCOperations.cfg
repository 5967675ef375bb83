CONSTANTS
    Ids = {a, b}
    Named = {a}
    InSheet = {b}
    Example = {a}
    RegistryWriters = {v, w}
    Attempts = 2
    MaxSafePages = 2
    MaxListed = 2
    MaxEvents = 2
    Unreadable = Unreadable
    Missing = Missing
    Delays = 3
    MaxAttempts = 2
    ResyncCount = 2
    Batches = {b1, b2}
    Docs = {1, 2, 3}
    WifiEvents = {4}
    LogDevices = {1, 2}
    To = 3
    Shard = 1
    DeviceLimit = 1
    LogBudget = 2
    WifiBudget = 1
    MaxFields = 2
SPECIFICATION OperationsSpec
INVARIANT OperationsTypeOK
INVARIANT ManualMapKept
INVARIANT DropsOnlyUnlisted
INVARIANT StopEndsWithTheCycle
INVARIANT ResyncTellsFailures
INVARIANT MigrationKeepsRows
INVARIANT MigrationEndsWell
INVARIANT PagesAreComplete
INVARIANT PagesAdvance
PROPERTY ListingEnds
PROPERTY StopIsObeyed
PROPERTY WorkerKeepsSyncing
CHECK_DEADLOCK FALSE
