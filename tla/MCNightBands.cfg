CONSTANTS
    DayLength = 4
    Sunrise = 1
    Sunset = 3
    Timezone = 2
    GapBreak = 1
    DayChoices = {1, 2}
    WindowMax = 2
    NoValue = NoValue
    NoFrame = NoFrame
    Blank = Blank
    Stale = Stale
    MaxAt = 5
    MaxSamples = 3
SPECIFICATION ChartSpec
INVARIANT BandsTileWindow
CHECK_DEADLOCK FALSE
