CONSTANTS
    Client = {c1, c2, c3}
    NoBlock = NoBlock
    NoEntry = NoEntry
    PoolPages <- MCPoolPages
    CacheLine = 2
    PageLines = 2
    TLBSize = 8
    SizeLimit = 24
    Sizes = {2, 5}
    DefragThreshold = 4
    TotalPages = 5
    PhysicalPage = {f1, f2}
SPECIFICATION Spec
SYMMETRY Symmetry
INVARIANT PoolBlocksDisjoint
CHECK_DEADLOCK FALSE
