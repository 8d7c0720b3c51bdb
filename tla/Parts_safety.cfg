SPECIFICATION Spec
CONSTANTS
    RecvBufSize = 2
    IdleClose = 2
    Chunks = {1, 2, 3}
    MaxBody = 6
    MaxCap = 9
    Rows <- SmallRows
    MaxRows = 3
    Entries <- SmallEntries
    OtherRank = 2
    AreaW = 7
    AreaH = 5
    Pad = 4
    Limit = 700
    One = 32
    Zoom1 = 16
    Word = 1024
    MaxSide = 31
    MaxEntered = 2
    Products = {1, 2}
    Links = {"up"}
    Arrays = {b1, b2, b3}
    Flashes = {f1}
INVARIANTS
    PartsTypeOK
    BodyFits WholeBody
    InBounds LeafList
    ReadsPicture NoBufferLeaks FitsCell
    AllOrNothing WizardOnce
    OneOwner TimersLive
