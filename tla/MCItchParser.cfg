CONSTANTS
    Base = 8
    ADD = 1
    BUY = 2
    SPACE = 3
    File <- MCFile
    Leftover = {0, 1}
SPECIFICATION ItchSpec
INVARIANT ParsesCompleteAdds
CHECK_DEADLOCK FALSE
