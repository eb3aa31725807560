CONSTANTS
    Thread = {t1, t2}
    NoThread = NoThread
    TotalPages = 5
    PageSize = 4
    SizeLimit = 32
    \* One page exactly, one byte more, three pages, and the two largest values of a
    \* 5-bit size_t, where size + PAGE_SIZE - 1 wraps.
    Sizes = {0, 4, 5, 11, 28, 31}
    MemoryStart = 16
    NoPage = NoPage
SPECIFICATION Spec
INVARIANTS
    TypeOK
    HeldDisjoint
    NoLeak
    FreeCountExact
PROPERTIES
    Implements
    LockReleased
