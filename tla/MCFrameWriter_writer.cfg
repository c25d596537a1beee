SPECIFICATION FairSpec
CONSTANTS
    c1 = c1
    c2 = c2
    r1 = r1
    r2 = r2
    Calls = {c1, c2}
    Hashes = {r1, r2}
    Programs <- Pairs
    HashSize <- HashSizes
    TextLen <- TextLens
    KeyLen <- KeyLens
    SeqnoMax = 2
    Errors = {"listed", "unlisted"}
    ShortSend = FALSE
    NULL = NULL
    Wild = Wild
INVARIANTS
    TypeOK
    WireIsFrames
    SentIsWritten
    OnlyLiveHeaders
PROPERTY OutlockHandedOn
