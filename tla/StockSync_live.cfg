SPECIFICATION MCLive
CONSTANTS
    Products = {p1, p2}
    NoProduct = none
    InitialStock <- OneEach
    StockQueueDepth = 2
    EventQueueDepth = 1
    RefreshButton = FALSE
    Moves = {"consume"}
    MaxTaps = 2
    MaxPostFaults = 1
    MaxFetchFaults = 1
    MaxFaults = 1
    MaxOthers = 1
PROPERTIES Converges OverlaysClear ImplementsLedger SettledInTurn
