CONSTANTS
    c1 = c1
    c2 = c2
    Client = {c1, c2}
    NoOrder = NoOrder
    capacity = 4
    MaxSegments <- MCMaxSegments
    MaxStarts = 2
SPECIFICATION MCSpec
INVARIANTS DeliveredInOrder AckMeansPushed
PROPERTIES StopReturns StopFreesClients
CHECK_DEADLOCK FALSE
