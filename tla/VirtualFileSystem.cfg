CONSTANTS
    Reader = {r1, r2}
    small = small
    large = large
    SmallSize = 1
    LargeSize = 2
    Path = {small, large}
    FileSize <- MCFileSize
    LargeFile = 1
    BufferSize = 1
    PoolSize = 1
    PoolGrowth = 1
    LevelSizes <- MCLevelSizes
    LevelGrowth = 2
    FrequentAccess = 100
    CompressThreshold = 2
    ReadSizes = {2}
    SizeLimit = 32
    NoBuffer = NoBuffer
    Stale = Stale
    Nothing = Nothing
    NoReader = NoReader
    MaxPosition = 2
    MaxPool = 2
    MaxLevelSize = 4
SPECIFICATION Spec
VIEW View
INVARIANTS
    TypeOK
    PiecesGenuine
    BufferExclusive
PROPERTY CacheShrinks
