SPECIFICATION Spec
CONSTANTS
    c1 = c1
    c2 = c2
    r1 = r1
    r2 = r2
    Calls = {c1, c2}
    Hashes = {r1, r2}
    Programs <- OnePair
    HashSize <- HashSizes
    TextLen <- TextLens
    KeyLen <- KeyLens
    SeqnoMax = 4
    Errors = {}
    ShortSend = TRUE
    NULL = NULL
    Wild = Wild
INVARIANT WireIsFrames
