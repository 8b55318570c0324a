CONSTANTS
    o1 = o1
    o2 = o2
    o3 = o3
    Order = {o1, o2, o3}
    Account = {"one", "two"}
    Quantity = {0, 1, 2, 3}
    U32 = 4
    Limits <- MCLimits
SYMMETRY OrderSymmetry
SPECIFICATION RSpec
INVARIANTS MarketCovered CountersAddUp WorstCaseWithinLimits
