CONSTANTS
    Phases = {"A", "B"}
    FaultBits = {"pv", "grid"}
    IgnoredBits = {"pv"}
    Threshold = 1
    WindowDays = 3
    SustainedMinutes = 2
    NoNumber = NoNumber
    MaxNow = 5
    MaxRows = 3
    Sns = {1, 2}
    Entries = {1, 2}
    OnlineMinutes = 1
    ActiveWindow = 2
    ExportLimit = 2
    MaxTime = 3
    MaxReports = 2
    MaxSyncs = 1
    Devices = {"d1", "d2"}
    Interval = 4
    FetchLimit = 2
    RenderLimit = 1
    MaxFetches = 2
    KpiEnd = 10
    SheetRows = 2
    SheetDevice = d1
    Others = {d2}
    Indexes = {1, 2}
    InverterSns = {x}
    Null = Null
    MaxBatches = 2
    MaxPairings = 1
    DayLength = 4
    Sunrise = 1
    Sunset = 3
    Timezone = 2
    GapBreak = 1
    DayChoices = {1, 2}
    WindowMax = 2
    NoValue = NoValue
    NoFrame = NoFrame
    Blank = Blank
    Stale = Stale
    MaxAt = 5
    MaxSamples = 3
SPECIFICATION ReadModelSpec
INVARIANT ReadModelTypeOK
INVARIANT OfflineIsSilence
INVARIANT OnlineStateHistory
INVARIANT IncidentsCoverFaults
INVARIANT ViewsAgree
INVARIANT FleetViewsAgree
INVARIANT ExportBundleComplete
INVARIANT KpisFollow
INVARIANT LiveChartFollows
INVARIANT ChartCopiesAgree
INVARIANT ImportAccountsForRows
CHECK_DEADLOCK FALSE
