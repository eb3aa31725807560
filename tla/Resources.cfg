CONSTANTS
    ResourceIds = {0, 1}
    ResourceSizes = {1, 3}
    TexturePaths = {t1}
    TextureSize = 2
    CacheSize = 4
    WordSize = 16
    MaxCharge = 7
    BlockSizes = {1, 2}
    FirstBlock = 3
    TotalMemories = {0, 8}
    MemoryWord = 4
    MaxBlocks = 4
    MaxCompressed = 6
    Pointers = {q1, q2, q3}
    GameSizes = {1, 2}
    ResourceNames = {r1, r2}
    TotalPages = 6
    PageSize = 1
    HugePageSize = 2
    MemoryStart = 0
    Sizes = {1, 2, 3}
    Sources = {"good", "bad"}
    Types = {"vertex", "fragment"}
    Keys = {"default_vertex", "default_fragment", "post_process", "shadow_vertex"}
    Malformed = {"bad"}
    MaxCacheSize = 2
    CacheTimeout = 1
    MaxTime = 2
    NoShader = NoShader
    Readers = {rd}
    Writers = {w1, w2}
    MaxWrites = 3
    NoEntry = NoEntry
    Workers = {k1, k2}
    MaxLoads = 3
    MaxAsync = 1
    NoLoad = NoLoad
    Consumer = {c1, c2, c3}
    MaxEvents = 4
    Process = {p1, p2}
    Name = {n1, n2}
    Signal = {s1}
    Priority = {1, 2}
    Address = {a1, a2}
    NoProcess = NoProcess
    MaxMessages = 2
    MaxHandles = 2
SPECIFICATION Spec
CHECK_DEADLOCK FALSE
INVARIANTS
    TypeOK
    Accounted
    RecordsAgree
    EventTypeOK
    ExactlyOnceInOrder
    NoLostWakeup
    IPCTypeOK
    ReceivedOnceByReceiver
    SegmentsServeHandles
PROPERTIES
    EvictsOldest
    LoadsServed
    EventTaken
    StopReleases
    HeadReceived
