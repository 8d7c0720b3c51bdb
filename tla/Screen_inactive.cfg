SPECIFICATION ScreenFairSpec
CONSTANTS
    Shown = {p1}
    Unit = 1
    MaxStock = 1
    EventQueueDepth = 1
PROPERTY RevertsWhenIdle
