SPECIFICATION FairSpec
CONSTANTS
    c1 = c1
    c2 = c2
    c3 = c3
    Calls = {c1, c2}
    Kind <- KindNormal
    SeqSpace = 2
    MaxResults = 2
    Replies = {"okay", "bare", "error", "nostatus"}
    Silent = {}
    Env = {}
INVARIANTS
    TypeOK
    ReturnsOwnAnswer
    ResultsInOrder
    FinalIsLast
    NoDanglingRequest
    NoUseAfterFree
PROPERTIES
    EveryCallReturns
    ImplementsRpc
