SPECIFICATION HttpSpec
CONSTANTS
    RecvBufSize = 2
    IdleClose = 2
    Chunks = {1, 2, 3}
    MaxBody = 6
    MaxCap = 9
INVARIANT PostedOnce
