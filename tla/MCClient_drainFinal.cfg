SPECIFICATION Spec
CONSTANTS
    c1 = c1
    c2 = c2
    c3 = c3
    Calls = {c1}
    Kind <- KindQuery
    SeqSpace = 4
    MaxResults = 1
    Replies = {"okay"}
    Silent = {}
    Env = {"eof"}
INVARIANT
    FinalIsLast
