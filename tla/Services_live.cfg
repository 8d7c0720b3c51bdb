SPECIFICATION FairSpec
CONSTANTS
    MaxFaults = 2
    MaxRetries = 5
    BackoffInitial = 1000
    BackoffMax = 30000
    RetryBound = 7
    QueueBound = 2
    Events = {"stock_change"}
    Threshold = 2
    RingSize = 2
    MaxLines = 4
    MaxDrops = 2
    Releases <- MCReleases
    Factory <- MCFactory
    BufSize = 4
    Chunks = {1, 3}
    MaxChunks = 3
    MaxCuts = 2
INVARIANTS
    ServicesTypeOK
    UsesReady
    OneAttempt
    LogInOrder
    BootsWhole InstallsNewer
PROPERTIES
    TerminalComesUp ComesBack
    RingDrains StatusTruthful
    Recovers CatchesUp
