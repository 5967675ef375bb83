CONSTANTS
    NumRows = 4
    MaxTime = 4
    Sns = {"A", "B"}
    NoSn = NoSn
    Metrics = {"load"}
    At <- MCAt
    Metric <- MCMetric
    Retention = 1
SPECIFICATION StoreSpec
INVARIANT StoreTypeOK
INVARIANT LatestCoversStore
INVARIANT LatestIsStoredOrSwept
INVARIANT LatestWithinLastReported
PROPERTY LatestRegressesOnlyAfterSweep
CHECK_DEADLOCK FALSE
