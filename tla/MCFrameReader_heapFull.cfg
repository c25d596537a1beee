SPECIFICATION Spec
CONSTANTS
    Objects <- AllObjects
    NoObject <- Empty
    Streams <- FullHeapStreams
    Endings = {"eof", "error"}
    Settings <- HeapSetting
    SizeMax = 32
    Octet = 4
    UllMax = 512
    StructSize <- Sizes
    DargsSize = 2
    MaxId <- Limits
    MaxDigits = 3
INVARIANT NoCrash
