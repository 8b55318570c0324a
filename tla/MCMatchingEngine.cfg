CONSTANTS
    o1 = o1
    o2 = o2
    o3 = o3
    o4 = o4
    Order = {o1, o2, o3, o4}
    NoOrder = NoOrder
    OrderId <- MCOrderId
    order_id <- MCorder_id
    Symbol = {"AAPL"}
    MaxPrice = 2
    U32 = 4
    QtyMax = 2
    Input <- MCInput
SPECIFICATION MCSpec
INVARIANTS TypeOK IndexConsistent RestsOnce RestingOrdersLive NoStaleLevel Uncrossed StatusMatchesFills FOKAllOrNothing Conservation
PROPERTIES FinalIsFinal FOKKillJustified ImplementsPriority CallReturns
CHECK_DEADLOCK FALSE
