CONSTANTS
    MaxOrders = 8
    Order <- MCOrder
    NoOrder = 0
    OrderId <- MCOrderId
    order_id <- MCorder_id
    Symbol = {"AAPL", "MSFT"}
    MaxPrice = 20
    U32 = 16
    Input = {}
    half_spread = 1
    quote_qty = 2
    max_position = 2
    skew_factor = 1
    Lot = 1
    NoiseWidth = 1
    NoiseQty = {1, 2}
    ClientOrder <- MCClientOrder
    ExtInput <- MCExtInput
    Wired = TRUE
SPECIFICATION ServerSpec
INVARIANTS QuotesTracked NoSelfTrade PositionBounded
CHECK_DEADLOCK FALSE
