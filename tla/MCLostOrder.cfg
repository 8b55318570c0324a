CONSTANTS
    c1 = c1
    c2 = c2
    Client = {c1, c2}
    NoOrder = NoOrder
    capacity = 2
    MaxSegments <- MCMaxSegments
    MaxStarts = 1
SPECIFICATION MCSpec
INVARIANT NoOrderLost
CHECK_DEADLOCK FALSE
