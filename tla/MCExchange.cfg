CONSTANTS
    o1 = o1
    o2 = o2
    o3 = o3
    Order = {o1, o2, o3}
    NoOrder = NoOrder
    OrderId <- MCOrderId
    order_id <- MCorder_id
    Symbol = {"AAPL", "MSFT"}
    MaxPrice = 2
    U32 = 4
    QtyMax = 3
    MaxOps = 4
    Input <- MCInput
SPECIFICATION MCSpec
INVARIANTS Routable BooksSound StatusMatchesFills LevelTotals
PROPERTIES ImplementsPriority ModifySetsOpenQty
CHECK_DEADLOCK FALSE
