CONSTANTS
    t1 = t1
    t2 = t2
    t3 = t3
    Thread = {t1, t2, t3}
    BlockSize = 2
    MaxBlocks = 2
    None = None
SPECIFICATION PoolFairSpec
INVARIANT InOnePlace
PROPERTY PoolProgress
