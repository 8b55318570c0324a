CONSTANTS
    Agent = {"momentum", "reversion", "maker"}
    MidPrice = {0, 4, 5, 8}
    FillPrice = {2, 6}
    short_window = 1
    long_window = 2
    threshold <- MCthreshold
    window = 3
    entry_z <- MCentry_z
    exit_z <- MCexit_z
    trade_qty = 2
    max_pos = 2
    MaxTicks <- MCMaxTicks
    MaxFills <- MCMaxFills
SPECIFICATION TradersSpec
INVARIANTS PnlAddsUp DrawdownIsWorstFall MomentumFollowsTrend ReversionBounded
CHECK_DEADLOCK FALSE
