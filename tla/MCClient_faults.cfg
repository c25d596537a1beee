SPECIFICATION Spec
CONSTANTS
    c1 = c1
    c2 = c2
    c3 = c3
    Calls = {c1, c2, c3}
    Kind <- KindFaults
    SeqSpace = 4
    MaxResults = 1
    Replies = {"okay"}
    Silent = {}
    Env = {"connectFail", "eof", "earlyEof", "sendTimeout", "sendError",
           "disconnect", "freeEarly", "freeFailed"}
INVARIANTS
    ConnectedFdOpen
    LostMeansDisconnected
PROPERTY
    WaitedForOkay
CHECK_DEADLOCK FALSE
