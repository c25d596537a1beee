SPECIFICATION FairSpec
CONSTANTS
    Objects <- AllObjects
    NoObject <- Empty
    Streams <- AnyStreams
    Endings = {"eof", "error"}
    Settings <- AllSettings
    SizeMax = 32
    Octet = 4
    UllMax = 512
    StructSize <- Sizes
    DargsSize = 2
    MaxId <- Limits
    MaxDigits = 3
INVARIANTS
    TypeOK
    BlocksApart
    WritesInBlock
    DargsInHeap
    DeliveredAsSent
    FailsAtEnd
    FreedBetweenFrames
    LeaksOneFrame
PROPERTY EveryFrameDelivered
