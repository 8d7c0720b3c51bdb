SPECIFICATION MCSpec
CONSTANTS
    Products = {p1, p2}
    NoProduct = none
    InitialStock <- OneEach
    StockQueueDepth = 2
    EventQueueDepth = 1
    RefreshButton = TRUE
    Moves = {"add", "consume"}
    MaxTaps = 3
    MaxPostFaults = 1
    MaxFetchFaults = 1
    MaxFaults = 1
    MaxOthers = 0
INVARIANTS TypeOK NoLostWakeup FetchOwed DisplayExact
SYMMETRY Symmetry
