SPECIFICATION Spec
CONSTANTS
    c1 = c1
    c2 = c2
    c3 = c3
    Calls = {c1}
    Kind <- KindPub
    SeqSpace = 4
    MaxResults = 0
    Replies = {"okay"}
    Silent = {}
    Env = {"earlyEof"}
INVARIANT
    ConnectedMeansDaemon
