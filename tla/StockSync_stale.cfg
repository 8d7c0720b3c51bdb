SPECIFICATION MCSpec
CONSTANTS
    Products = {p1}
    NoProduct = none
    InitialStock <- OneEach
    StockQueueDepth = 2
    EventQueueDepth = 2
    RefreshButton = TRUE
    Moves = {"add", "consume"}
    MaxTaps = 1
    MaxPostFaults = 0
    MaxFetchFaults = 0
    MaxFaults = 0
    MaxOthers = 0
INVARIANT OptimisticExact
