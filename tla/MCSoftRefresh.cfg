CONSTANTS
    PendingFailsafe = 1
    Cooldown = 2
    PendingStale = 3
    HeavyGate = 4
    MaxVersion = 2
    Slots = {1, 2, 3}
    None = None
SPECIFICATION FairSpec
INVARIANT TypeOK
INVARIANT OneRefreshAtATime
PROPERTY ButtonNeverSticks
PROPERTY BannerIsActedOn
