--------------------------- MODULE EnhancedMemory ---------------------------
(***************************************************************************)
(* The two classes named EnhancedMemoryManager.                            *)
(*                                                                         *)
(* memory/EnhancedMemoryManager.hpp: game memory, recorded by the page     *)
(* allocator and again by the manager, and named graphics resources.  The  *)
(* class takes no lock: it has one caller.                                 *)
(*                                                                         *)
(* memory/MemoryManager.hpp, over EnhancedPageAllocator: a request of      *)
(* LARGE_PAGE_THRESHOLD bytes or more is counted, and its address          *)
(* computed, in huge pages, while the bitmap keeps one bit for each small  *)
(* page.  Every operation runs under the manager's mutex, so a call is one *)
(* step; the scan is the first-fit loop that PageAllocator models          *)
(* iteration by iteration.                                                 *)
(***************************************************************************)
EXTENDS PageRuns, FiniteSets, Functions

CONSTANTS
    Pointers,       \* what _aligned_malloc can return
    GameSizes,
    ResourceNames,
    PageSize,       \* PAGE_SIZE
    HugePageSize,   \* HUGE_PAGE_SIZE, and LARGE_PAGE_THRESHOLD (54, 111)
    MemoryStart,    \* the first managed address (133)
    Sizes           \* the sizes, in bytes, that clients ask for

VARIABLES
    heap,            \* the pointers _aligned_malloc handed out and nobody freed
    allocations,     \* PageAllocator: pointer -> size
    memoryMap,       \* EnhancedMemoryManager: pointer -> size
    totalAllocated, peakUsage,
    resources,       \* name -> [data, isLocked]
    overwritten,     \* history: the data of resources allocated again
    bitmap,          \* the pages whose bit is set
    freePages,
    regions          \* history: what allocateMemory returned, [address, size]

recordVars   == <<allocations, memoryMap, totalAllocated, peakUsage>>
resourceVars == <<resources, overwritten>>

-----------------------------------------------------------------------------
\* Game memory

GameInit ==
    /\ heap = {} /\ allocations = <<>> /\ memoryMap = <<>>
    /\ totalAllocated = 0 /\ peakUsage = 0
    /\ resources = <<>> /\ overwritten = {}

Put(f, x, y)  == [z \in DOMAIN f \cup {x} |-> IF z = x THEN y ELSE f[z]]
Erased(f, x)  == [z \in DOMAIN f \ {x} |-> f[z]]

AllocateGameMemory(ptr, size) ==
    /\ ptr \notin heap /\ heap' = heap \cup {ptr}
    /\ allocations' = Put(allocations, ptr, size)
    /\ memoryMap' = Put(memoryMap, ptr, size)
    /\ totalAllocated' = totalAllocated + size
    /\ peakUsage' = IF totalAllocated' > peakUsage THEN totalAllocated' ELSE peakUsage
    /\ UNCHANGED resourceVars

\* PageAllocator::Deallocate frees what it knows.
Deallocate(ptr) ==
    IF ptr \in DOMAIN allocations
      THEN heap' = heap \ {ptr} /\ allocations' = Erased(allocations, ptr)
      ELSE UNCHANGED <<heap, allocations>>

\* Mutant: the size is looked up after the entry was erased, which inserts a zero.
FreeErasedFirst(ptr) ==
    /\ ptr \in DOMAIN memoryMap
    /\ memoryMap' = Erased(memoryMap, ptr)
    /\ Deallocate(ptr)
    /\ UNCHANGED <<totalAllocated, peakUsage, resourceVars>>

\* A pointer that is not in memoryMap is ignored.
FreeGameMemory(ptr) ==
    /\ ptr \in DOMAIN memoryMap
    /\ totalAllocated' = totalAllocated - memoryMap[ptr]
    /\ memoryMap' = Erased(memoryMap, ptr)
    /\ Deallocate(ptr)
    /\ UNCHANGED <<peakUsage, resourceVars>>

\* AllocateResource: a name that is taken loses its data, which nothing frees.
AllocateGraphicsResource(name, ptr) ==
    /\ ptr \notin heap /\ heap' = heap \cup {ptr}
    /\ overwritten' = IF name \in DOMAIN resources THEN overwritten \cup {resources[name].data}
                                                   ELSE overwritten
    /\ resources' = Put(resources, name, [data |-> ptr, isLocked |-> FALSE])
    /\ UNCHANGED recordVars

SetLocked(name, locked) ==
    /\ name \in DOMAIN resources
    /\ resources' = [resources EXCEPT ![name].isLocked = locked]
    /\ UNCHANGED <<heap, recordVars, overwritten>>

LockGraphicsResource(name)   == SetLocked(name, TRUE)
UnlockGraphicsResource(name) == SetLocked(name, FALSE)

GameNext ==
    \/ \E ptr \in Pointers :
          \/ \E size \in GameSizes : AllocateGameMemory(ptr, size)
          \/ FreeGameMemory(ptr)
          \/ \E name \in ResourceNames : AllocateGraphicsResource(name, ptr)
    \/ \E name \in ResourceNames : LockGraphicsResource(name) \/ UnlockGraphicsResource(name)

-----------------------------------------------------------------------------
\* Huge pages

\* initialize: memorySize is TotalPages * PageSize.
HugeInit == bitmap = {} /\ freePages = TotalPages /\ regions = {}

UnitFor(size) == IF size >= HugePageSize THEN HugePageSize ELSE PageSize

PageCount(size, pageSize) == (size + pageSize - 1) \div pageSize

\* Mutant: the run marked is counted in small pages, the pages taken in those asked for.
AllocateSmallCount(size, pageSize) ==
    \E startPage \in Pages :
        /\ FirstFit(startPage, PageCount(size, PageSize), bitmap)
        /\ bitmap' = bitmap \cup Extent(startPage, PageCount(size, PageSize))
        /\ freePages' = freePages - PageCount(size, pageSize)
        /\ regions' = regions \cup
             {[address |-> MemoryStart + startPage * pageSize, size |-> size]}

\* allocate(size, useHugePages): the count and the address are in units of pageSize,
\* startPage and the bits in units of PAGE_SIZE.
Allocate(size, pageSize) ==
    \E startPage \in Pages :
        /\ FirstFit(startPage, PageCount(size, pageSize), bitmap)
        /\ bitmap' = bitmap \cup Extent(startPage, PageCount(size, pageSize))
        /\ freePages' = freePages - PageCount(size, pageSize)
        /\ regions' = regions \cup
             {[address |-> MemoryStart + startPage * pageSize, size |-> size]}

\* A request for which no run is long enough gets nullptr and changes nothing.
AllocateMemory == \E size \in Sizes : Allocate(size, UnitFor(size))

HugeNext == AllocateMemory

-----------------------------------------------------------------------------
\* Properties

Init == GameInit /\ HugeInit

Data == {resources[name].data : name \in DOMAIN resources}

TypeOK ==
    /\ heap \subseteq Pointers /\ overwritten \subseteq Pointers
    /\ DOMAIN memoryMap \subseteq Pointers /\ DOMAIN resources \subseteq ResourceNames
    /\ totalAllocated \in Nat /\ peakUsage \in Nat

\* Over allocations and frees in any order the total is what the manager recorded, and
\* the peak is not below it (82-90, 104-110).
TotalsAgree == totalAllocated = SumFunction(memoryMap) /\ peakUsage >= totalAllocated

\* The two records of game memory agree, and every block of the heap has exactly one
\* owner: the game, one resource, or a name that was used again (7-20, 35-41, 82-110).
HeapOwned ==
    /\ allocations = memoryMap
    /\ heap = DOMAIN memoryMap \cup Data \cup overwritten
    /\ DOMAIN memoryMap \cap (Data \cup overwritten) = {} /\ Data \cap overwritten = {}
    /\ \A n, m \in DOMAIN resources : resources[n].data = resources[m].data => n = m

\* The count of free pages is the number of clear bits, and the blocks of small pages lie
\* in the memory and never overlap one another, though huge ones mark bits among theirs.
\* A huge block marks one bit and covers many pages: it may overlap any other (66-91).
SmallPagesApart ==
    /\ freePages = TotalPages - Cardinality(bitmap)
    /\ \A r \in regions :
          UnitFor(r.size) = PageSize => r.address + r.size <= MemoryStart + TotalPages * PageSize
    /\ \A r, s \in regions :
          (UnitFor(r.size) = PageSize /\ UnitFor(s.size) = PageSize /\ r.address <= s.address /\ r # s) =>
              r.address + r.size <= s.address
=============================================================================
