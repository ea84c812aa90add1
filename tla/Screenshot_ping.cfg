SPECIFICATION SSSpec
CONSTANTS
    Period = 3
    MaxDelay = 1
    W = 13
    Spacing = 4
    Minute = 6
    Intervals = {0, 1, 5}
    MaxPage = 1
    ClockWrap = 28
INVARIANTS
    LiveIsHeard
    AutoAsks
PROPERTIES
    PageWaits
    AutoWaits
