SPECIFICATION Spec
CONSTANTS
    Prices = {1, 2}
    Ids = {i1, i2}
    Sizes = {1, 2}
    NoEntry = NoEntry
    NoDelta = NoDelta
    FlushFirst = TRUE
    MaxOps = 4
    MaxRecaps = 1
    MaxFaults = 1
CHECK_DEADLOCK FALSE
SYMMETRY Symmetry
INVARIANTS SizesAddUp
PROPERTIES ShowsThePublishedBook
