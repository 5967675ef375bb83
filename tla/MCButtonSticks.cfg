CONSTANTS
    PendingFailsafe = 1
    Cooldown = 2
    PendingStale = 3
    HeavyGate = 4
    MaxVersion = 2
    Slots = {1, 2}
    None = None
SPECIFICATION ClientSpec
PROPERTY ButtonNeverSticks
