CONSTANTS
    Buses = 4
    BusLimit = 4
    Regions = {m1}
    MaxDevices = 2
    MaxProcesses = 3
    MaxThreads = 3
    Priorities = {1, 2}
    MaxCreated = 3
    Nobody = Nobody
    Pids = {p1, p2}
    Tasks = {t1}
    MaxQueue = 4
    NoProcess = NoProcess
    Creators = {c1, c2}
    MaxPid = 2
    Games = {g1}
    Others = {o1}
    MaxEntries = 2
    MaxHandles = 3
    MaxReserved = 1
    Callers = {s1, s2}
    Objects = {x1, x2}
    Numbers = {1, 2, 3, 4, 5}
    MaxCalls = 3
    Nothing = Nothing
    Resources = {f1}
    Users = {u1}
    Groups = {k1}
    Wildcard = Wildcard
    Permissions = {read}
    Requests = {read, beyond}
    Setters = {d1, d2}
    ProcessIds = {a1, a2}
    MaxEpochs = 2
    MaxAudit = 2
    Capacity = 3
    ChunkSizes = {1, 2}
    MaxBytes = 6
    Destinations = {n1, n2}
    MaxRoutes = 2
    MaxAdded = 3
    MaxPackets = 2
    Recorders = {r1, r2}
    Names = {load}
    Values = {1, 2}
    MaxSamples = 2
    StartTimes = {0, 254}
    MaxTime = 2
    MaxApplied = 1
    Observers = {b1, b2}
    States = {"LOW_POWER", "SLEEP"}
    MaxNesting = 2
    MaxRegistered = 3
    Buffers = {v1, v2}
    Threads = {h1, h2}
    Vectors = {i1, i2}
    DriverNames = {n1, n2}
    MaxDrivers = 3
SPECIFICATION Spec
CHECK_DEADLOCK FALSE
INVARIANTS
    TypeOK
    CountsAgree
    MadeIsAccounted
    AnswersAreOfThisLife
    SwitchedInOrder
    TerminatedStaysDown
