SPECIFICATION FairSpec
CONSTANTS
    Shown = {p1, p2}
    Unit = 2
    MaxStock = 1
    EventQueueDepth = 2
    Products = {1}
    Links = {"up", "no broker", "no wifi"}
    Arrays = {b1, b2}
    Flashes = {f1}
    Orders <- TwoLists
    Max = 2
INVARIANTS
    DisplayTypeOK
    DisabledMatches WakeTouchHarmless ScreenFollowsEvents
    CacheOwnsHeap OwnPicture
PROPERTIES
    LabelSettles JpegsCome
